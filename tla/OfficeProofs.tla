---------------------------- MODULE OfficeProofs ----------------------------
(***************************************************************************)
(* Proofs, for any number of forms, visits, phones, prices, files and      *)
(* hosts, of the invariants of the components around the sale of gas: the  *)
(* small ones here, then their composition with onboarding, accounts and   *)
(* the site, which are proved about in modules of their own.               *)
(***************************************************************************)
EXTENDS MCOffice, OnboardingProofs, AccountsProofs, SiteProofs, FiniteSetTheorems, TLAPS

----------------------------------------------------------------------------
(* PINs. *)

\* What a form compared its PIN with: members that are there still, none of them with that PIN.
PINsCompared ==
    /\ \A f \in members : hiring[f] = "added"
    /\ \A f \in StaffForms : hiring[f] \in {"insert", "added"} =>
         /\ sawMembers[f] \subseteq members
         /\ \A g \in sawMembers[f] : pinOf[g] # pinOf[f]

RosterInv == RosterTypeOK /\ PINsCompared

LEMMA RosterStepKeeps == RosterInv /\ [RosterNext]_rosterVars => RosterInv'
<1> SUFFICES ASSUME RosterInv, [RosterNext]_rosterVars PROVE RosterInv'
  OBVIOUS
<1> USE DEF RosterInv, RosterTypeOK
<1>1. ASSUME NEW f \in StaffForms, NEW p \in PINs, NEW n \in StaffPhones, ComparePINs(f, p, n)
      PROVE  RosterInv'
  <2>1. RosterTypeOK'
    BY <1>1 DEF ComparePINs
  <2>2. f \notin members
    BY <1>1 DEF ComparePINs, PINsCompared
  <2>3. hiring'[f] = "insert" => \A g \in members : pinOf[g] # p
    BY <1>1 DEF ComparePINs, PINTaken, Compared
  <2>4. PINsCompared'
    BY <1>1, <2>2, <2>3 DEF ComparePINs, PINsCompared
  <2> QED BY <2>1, <2>4
<1>2. ASSUME NEW f \in StaffForms, InsertMember(f) PROVE RosterInv'
  BY <1>2 DEF InsertMember, PINsCompared
<1>3. ASSUME NEW f \in StaffForms, RefuseMember(f) PROVE RosterInv'
  BY <1>3 DEF RefuseMember, PINsCompared
<1>4. ASSUME NEW f \in StaffForms, NEW active \in BOOLEAN, SetActive(f, active) PROVE RosterInv'
  BY <1>4 DEF SetActive, PINsCompared
<1>5. CASE UNCHANGED rosterVars
  BY <1>5 DEF rosterVars, PINsCompared
<1> QED BY <1>1, <1>2, <1>3, <1>4, <1>5 DEF RosterNext, RosterStep

LEMMA RosterInvHolds == RosterSpec => []RosterInv
<1>1. RosterInit => RosterInv
  BY DEF RosterInit, RosterInv, RosterTypeOK, PINsCompared
<1> QED BY <1>1, RosterStepKeeps, PTL DEF RosterSpec

\* Every member and every form has its type.
THEOREM RosterTypes == RosterSpec => []RosterTypeOK
<1>1. RosterInv => RosterTypeOK
  BY DEF RosterInv
<1> QED BY <1>1, RosterInvHolds, PTL

\* Two members share a PIN only if they were added at once.
THEOREM PINsSharedOnlyByRace == RosterSpec => []PINSharedOnlyByRace
<1>1. RosterInv => PINSharedOnlyByRace
  BY DEF RosterInv, RosterTypeOK, PINsCompared, PINSharedOnlyByRace
<1> QED BY <1>1, RosterInvHolds, PTL

----------------------------------------------------------------------------
(* Prices. *)

\* A price under way, and the one committed last, began after every price in the history
\* but those committed meanwhile.
BeganAfter ==
    \A g \in PriceForms :
        pricing[g] = "insert" \/ g = lastPriced =>
            \A f \in priced : f = g \/ f \in pricedSince[g] \/ effectiveFrom[f] < effectiveFrom[g]

\* The history, if there is one, has a latest row.
HasLatest ==
    /\ \A f \in priced : pricing[f] = "set"
    /\ priced = {} <=> lastPriced = NoPrice
    /\ priced # {} => \E f \in priced : LatestPriceFirst(f)

PriceInv == PriceTypeOK /\ BeganAfter /\ HasLatest

LEMMA PriceStepKeeps == PriceInv /\ [PriceNext]_priceVars => PriceInv'
<1> SUFFICES ASSUME PriceInv, [PriceNext]_priceVars PROVE PriceInv'
  OBVIOUS
<1> USE NoPriceAssumption DEF PriceInv, PriceTypeOK, LatestPriceFirst
<1>1. ASSUME NEW f \in PriceForms, BeginPrice(f) PROVE PriceInv'
  <2>1. /\ f \notin priced /\ clock' = clock + 1 /\ effectiveFrom'[f] = clock + 1
        /\ pricing'[f] = "insert"
        /\ \A g \in PriceForms : g # f => pricing'[g] = pricing[g] /\ effectiveFrom'[g] = effectiveFrom[g]
        /\ UNCHANGED <<priced, lastPriced, pricedSince>>
    BY <1>1 DEF BeginPrice, HasLatest
  <2>2. PriceTypeOK'
    BY <1>1, <2>1 DEF BeginPrice
  <2>3. BeganAfter'
    BY <2>1 DEF BeganAfter
  <2>4. HasLatest'
    BY <2>1 DEF HasLatest
  <2> QED BY <2>2, <2>3, <2>4
<1>2. ASSUME NEW f \in PriceForms, SetPrice(f) PROVE PriceInv'
  <2>1. /\ pricing[f] = "insert" /\ pricing'[f] = "set"
        /\ \A g \in PriceForms : g # f => pricing'[g] = pricing[g]
        /\ priced' = priced \cup {f} /\ lastPriced' = f
        /\ \A g \in PriceForms : g # f /\ pricing[g] = "insert" => pricedSince'[g] = pricedSince[g] \cup {f}
        /\ pricedSince'[f] = pricedSince[f]
        /\ effectiveFrom' = effectiveFrom
    BY <1>2 DEF SetPrice
  <2>2. PriceTypeOK'
    BY <1>2 DEF SetPrice
  <2>3. BeganAfter'
    BY <2>1 DEF BeganAfter
  <2>4. HasLatest'
    <3>1. \E g \in priced' : \A h \in priced' : effectiveFrom[h] <= effectiveFrom[g]
      <4>1. CASE priced = {}
        BY <2>1, <4>1
      <4>2. CASE priced # {}
        <5>1. PICK g \in priced : \A h \in priced : effectiveFrom[h] <= effectiveFrom[g]
          BY <4>2 DEF HasLatest
        <5>2. CASE effectiveFrom[f] <= effectiveFrom[g]
          BY <2>1, <5>1, <5>2
        <5>3. CASE ~(effectiveFrom[f] <= effectiveFrom[g])
          BY <2>1, <5>1, <5>3
        <5> QED BY <5>2, <5>3
      <4> QED BY <4>1, <4>2
    <3> QED BY <2>1, <3>1 DEF HasLatest
  <2> QED BY <2>2, <2>3, <2>4
<1>3. ASSUME NEW f \in PriceForms, SetPriceFails(f) PROVE PriceInv'
  BY <1>3 DEF SetPriceFails, BeganAfter, HasLatest
<1>4. CASE UNCHANGED priceVars
  BY <1>4 DEF priceVars, BeganAfter, HasLatest
<1> QED BY <1>1, <1>2, <1>3, <1>4 DEF PriceNext, PriceStep

LEMMA PriceInvHolds == PriceSpec => []PriceInv
<1>1. PriceInit => PriceInv
  BY NoPriceAssumption DEF PriceInit, PriceInv, PriceTypeOK, BeganAfter, HasLatest
<1> QED BY <1>1, PriceStepKeeps, PTL DEF PriceSpec

\* Every price has a time it takes effect.
THEOREM PriceTypes == PriceSpec => []PriceTypeOK
<1>1. PriceInv => PriceTypeOK
  BY DEF PriceInv
<1> QED BY <1>1, PriceInvHolds, PTL

\* The price committed last is the current one, or one committed while it was under way is.
THEOREM PricesTakeEffect == PriceSpec => []TakesEffectUnlessRace
<1>1. PriceInv => TakesEffectUnlessRace
  <2> SUFFICES ASSUME PriceInv, lastPriced # NoPrice
               PROVE  CurrentPrice \in {lastPriced} \cup pricedSince[lastPriced]
    BY DEF TakesEffectUnlessRace
  <2>1. CurrentPrice \in priced /\ LatestPriceFirst(CurrentPrice)
    BY DEF PriceInv, HasLatest, CurrentPrice
  <2>2. lastPriced \in priced /\ priced \subseteq PriceForms
    BY DEF PriceInv, PriceTypeOK
  <2>3. effectiveFrom[lastPriced] <= effectiveFrom[CurrentPrice]
    BY <2>1, <2>2 DEF LatestPriceFirst
  <2>4. effectiveFrom[lastPriced] \in Int /\ effectiveFrom[CurrentPrice] \in Int
    BY <2>1, <2>2 DEF PriceInv, PriceTypeOK
  <2> QED BY <2>1, <2>2, <2>3, <2>4 DEF PriceInv, BeganAfter
<1> QED BY <1>1, PriceInvHolds, PTL

----------------------------------------------------------------------------
(* Administrators. *)

\* A removal that was confirmed leaves somebody, or another one was carried out meanwhile.
KeepsSomebody ==
    \A d \in Removals : removing[d] = "confirm" /\ ~removedSince[d] => admins \ {named[d]} # {}

AdminsInv == AdminsTypeOK /\ KeepsSomebody /\ LastAdminStaysUnlessRace

LEMMA AdminsStepKeeps == AdminsInv /\ [AdminsNext]_adminVars => AdminsInv'
<1> SUFFICES ASSUME AdminsInv, [AdminsNext]_adminVars PROVE AdminsInv'
  OBVIOUS
<1> USE DEF AdminsInv, AdminsTypeOK
<1>1. ASSUME NEW c \in Commissions, NEW p \in AdminPhones, CountExisting(c, p) PROVE AdminsInv'
  BY <1>1 DEF CountExisting, KeepsSomebody, LastAdminStaysUnlessRace
<1>2. ASSUME NEW c \in Commissions, InsertAdmin(c) PROVE AdminsInv'
  <2>1. admins \subseteq admins' /\ admins' # {} /\ UNCHANGED <<removing, named, removedSince>>
    BY <1>2 DEF InsertAdmin
  <2>2. AdminsTypeOK'
    BY <1>2 DEF InsertAdmin
  <2> QED BY <2>1, <2>2 DEF KeepsSomebody, LastAdminStaysUnlessRace
<1>3. ASSUME NEW c \in Commissions, CreateAdminEnds(c) PROVE AdminsInv'
  BY <1>3 DEF CreateAdminEnds, KeepsSomebody, LastAdminStaysUnlessRace
<1>4. ASSUME NEW d \in Removals, NEW p \in AdminPhones, CountAdmins(d, p) PROVE AdminsInv'
  BY <1>4 DEF CountAdmins, Kept, KeepsSomebody, LastAdminStaysUnlessRace
<1>5. ASSUME NEW d \in Removals, DeleteAdmin(d) PROVE AdminsInv'
  <2>1. /\ removing[d] = "confirm" /\ admins' = admins \ {named[d]} /\ removing'[d] = "removed"
        /\ named' = named
        /\ \A e \in Removals : e # d => removing'[e] = removing[e]
        /\ \A e \in Removals : removedSince[e] => removedSince'[e]
        /\ \A e \in Removals : removing[e] = "confirm" /\ e # d => removedSince'[e]
    BY <1>5 DEF DeleteAdmin
  <2>2. AdminsTypeOK'
    BY <1>5 DEF DeleteAdmin
  <2>3. KeepsSomebody'
    BY <2>1 DEF KeepsSomebody
  <2>4. LastAdminStaysUnlessRace'
    BY <2>1 DEF KeepsSomebody, LastAdminStaysUnlessRace
  <2> QED BY <2>2, <2>3, <2>4
<1>6. ASSUME NEW d \in Removals, DeleteAdminEnds(d) PROVE AdminsInv'
  BY <1>6 DEF DeleteAdminEnds, KeepsSomebody, LastAdminStaysUnlessRace
<1>7. CASE UNCHANGED adminVars
  BY <1>7 DEF adminVars, KeepsSomebody, LastAdminStaysUnlessRace
<1> QED BY <1>1, <1>2, <1>3, <1>4, <1>5, <1>6, <1>7 DEF AdminsNext

LEMMA AdminsInvHolds == AdminsSpec => []AdminsInv
<1>1. AdminsInit => AdminsInv
  BY DEF AdminsInit, AdminsInv, AdminsTypeOK, KeepsSomebody, LastAdminStaysUnlessRace
<1> QED BY <1>1, AdminsStepKeeps, PTL DEF AdminsSpec

\* Every commission and removal has its type.
THEOREM AdminsTypes == AdminsSpec => []AdminsTypeOK
<1>1. AdminsInv => AdminsTypeOK
  BY DEF AdminsInv
<1> QED BY <1>1, AdminsInvHolds, PTL

\* The last administrator goes only by two removals at once.
THEOREM LastAdminsStay == AdminsSpec => []LastAdminStaysUnlessRace
<1>1. AdminsInv => LastAdminStaysUnlessRace
  BY DEF AdminsInv
<1> QED BY <1>1, AdminsInvHolds, PTL

----------------------------------------------------------------------------
(* Reviews. *)

\* A filling's link is the stored request's, before the COMMIT the one that will be stored.
LinksMatch ==
    \A f \in Fills :
        /\ filling[f] = "commit" =>
             /\ link[f] = StoredToken(f)
             /\ \A g \in Fills : filling[g] = "commit" => g = f
        /\ filling[f] = "notify" => link[f] = request /\ request # NoReview

ReviewsInv == ReviewsTypeOK /\ LinksMatch /\ ReviewKept

LEMMA ReviewsStepKeeps == ReviewsInv /\ [ReviewsNext]_reviewsVars => ReviewsInv'
<1> SUFFICES ASSUME ReviewsInv, [ReviewsNext]_reviewsVars PROVE ReviewsInv'
  OBVIOUS
<1> USE NoReviewAssumption DEF ReviewsInv, ReviewsTypeOK, StoredToken
<1>1. ASSUME NEW f \in Fills, EnsureRequest(f) PROVE ReviewsInv'
  BY <1>1 DEF EnsureRequest, Filler, LinksMatch, ReviewKept
<1>2. ASSUME NEW f \in Fills, CommitFill(f) PROVE ReviewsInv'
  BY <1>2 DEF CommitFill, LinksMatch, ReviewKept
<1>3. ASSUME NEW f \in Fills, FillFails(f) PROVE ReviewsInv'
  BY <1>3 DEF FillFails, LinksMatch, ReviewKept
<1>4. ASSUME NEW f \in Fills, NotifyDispensing(f) PROVE ReviewsInv'
  BY <1>4 DEF NotifyDispensing, LinksMatch, ReviewKept
<1>5. ASSUME NEW f \in Fills, NotifyLost(f) PROVE ReviewsInv'
  BY <1>5 DEF NotifyLost, LinksMatch, ReviewKept
<1>6. ASSUME NEW a \in Answers, NEW k \in Fills, OpenReview(a, k) PROVE ReviewsInv'
  BY <1>6 DEF OpenReview, LinksMatch, ReviewKept
<1>7. ASSUME NEW a \in Answers, SubmitReview(a) PROVE ReviewsInv'
  BY <1>7 DEF SubmitReview, Takes, LinksMatch, ReviewKept
<1>8. CASE UNCHANGED reviewsVars
  BY <1>8 DEF reviewsVars, LinksMatch, ReviewKept
<1> QED BY <1>1, <1>2, <1>3, <1>4, <1>5, <1>6, <1>7, <1>8 DEF ReviewsNext, FillStep

LEMMA ReviewsInvHolds == ReviewsSpec => []ReviewsInv
<1>1. ReviewsInit => ReviewsInv
  BY NoReviewAssumption DEF ReviewsInit, ReviewsInv, ReviewsTypeOK, LinksMatch, ReviewKept
<1> QED BY <1>1, ReviewsStepKeeps, PTL DEF ReviewsSpec

\* Every review and every answer has its type.
THEOREM ReviewsTypes == ReviewsSpec => []ReviewsTypeOK
<1>1. ReviewsInv => ReviewsTypeOK
  BY DEF ReviewsInv
<1> QED BY <1>1, ReviewsInvHolds, PTL

\* Every link sent is the stored one, and the answer that was thanked for is the one kept.
THEOREM ReviewsKept == ReviewsSpec => []ReviewKept
<1>1. ReviewsInv => ReviewKept
  BY DEF ReviewsInv
<1> QED BY <1>1, ReviewsInvHolds, PTL

----------------------------------------------------------------------------
(* The list of banks. *)

\* A list is no longer out than the cache is old, and not at all before it is stored.
ListsKnown ==
    /\ cached # Fallback => outFor[cached] <= age \/ age = BankTTL
    /\ \A r \in Renders :
         /\ rendering[r] = "store" => served[r] \in Lists /\ outFor[served[r]] = 0
         /\ served[r] # Fallback => outFor[served[r]] <= BankTTL
    /\ \A b \in Lists : b >= liveList => outFor[b] = 0

BankInv == BankTypeOK /\ ListsKnown

LEMMA BankStepKeeps == BankInv /\ [BankNext]_bankVars => BankInv'
<1> SUFFICES ASSUME BankInv, [BankNext]_bankVars PROVE BankInv'
  OBVIOUS
<1> USE BankTTLAssumption, MaxListsAssumption DEF BankInv, BankTypeOK, ListsKnown, Lists, Fallback
<1>1. ASSUME NEW r \in Renders, Render(r) PROVE BankInv'
  BY <1>1 DEF Render, Fresh
<1>2. ASSUME NEW r \in Renders, ListBanks(r) PROVE BankInv'
  BY <1>2 DEF ListBanks
<1>3. ASSUME NEW r \in Renders, ListBanksFails(r) PROVE BankInv'
  BY <1>3 DEF ListBanksFails
<1>4. ASSUME NEW r \in Renders, StoreBanks(r) PROVE BankInv'
  BY <1>4 DEF StoreBanks
<1>5. CASE PublishList
  BY <1>5 DEF PublishList
<1>6. CASE BankTick
  BY <1>6 DEF BankTick
<1>7. CASE UNCHANGED bankVars
  BY <1>7 DEF bankVars
<1> QED BY <1>1, <1>2, <1>3, <1>4, <1>5, <1>6, <1>7 DEF BankNext, RenderStep

LEMMA BankInvHolds == BankSpec => []BankInv
<1>1. BankInit => BankInv
  BY BankTTLAssumption, MaxListsAssumption
     DEF BankInit, BankInv, BankTypeOK, ListsKnown, Lists, Fallback
<1> QED BY <1>1, BankStepKeeps, PTL DEF BankSpec

\* The cached list of banks has its type and its age.
THEOREM BankTypes == BankSpec => []BankTypeOK
<1>1. BankInv => BankTypeOK
  BY DEF BankInv
<1> QED BY <1>1, BankInvHolds, PTL

\* No page shows a list that Paystack replaced longer than bankListTTL ago.
THEOREM ListsAreRecent == BankSpec => []ListIsRecent
<1>1. BankInv => ListIsRecent
  BY DEF BankInv, ListsKnown, ListIsRecent
<1> QED BY <1>1, BankInvHolds, PTL

----------------------------------------------------------------------------
(* Logos. *)

OneFile(s) == \A t, w \in LogoTypes : files[s][t] # NoLogo /\ files[s][w] # NoLogo => t = w

\* Outside mixed slugs one form writes at a time, and between removing and writing there is no
\* file but of the type it is about to write.
OneWriter ==
    /\ \A u \in LogoForms : logoStep[u] \in {"clear", "write", "save"} =>
         slugFor[u] \in LogoSlugs /\ typeFor[u] \in LogoTypes
    /\ \A u, v \in LogoForms :
         /\ logoStep[u] \in {"clear", "write"} /\ logoStep[v] \in {"clear", "write"}
         /\ slugFor[u] = slugFor[v] /\ slugFor[u] \notin mixed
         => u = v
    /\ \A u \in LogoForms : logoStep[u] = "write" /\ slugFor[u] \notin mixed =>
         \A t \in LogoTypes : files[slugFor[u]][t] # NoLogo => t = typeFor[u]

LogoTypesOK ==
    /\ files \in [LogoSlugs -> [LogoTypes -> LogoForms \cup {NoLogo}]]
    /\ logoStep \in [LogoForms -> {"idle", "clear", "write", "save", "accepted", "failed"}]
    /\ slugFor \in [LogoForms -> LogoSlugs \cup {NoLogo}]
    /\ typeFor \in [LogoForms -> LogoTypes \cup {NoLogo}]

LogoInv == LogoTypesOK /\ OneWriter /\ \A s \in LogoSlugs \ mixed : OneFile(s)

LEMMA LogoStepKeeps == LogoInv /\ [LogoNext]_logoVars => LogoInv'
<1> SUFFICES ASSUME LogoInv, [LogoNext]_logoVars PROVE LogoInv'
  OBVIOUS
<1> USE NoLogoAssumption DEF LogoInv, LogoTypesOK, OneFile
<1>1. ASSUME NEW u \in LogoForms, NEW s \in LogoSlugs, NEW t \in LogoTypes, NEW new \in BOOLEAN,
             SubmitLogo(u, s, t, new)
      PROVE  LogoInv'
  <2>1. /\ logoStep[u] = "idle" /\ logoStep' = [logoStep EXCEPT ![u] = "clear"]
        /\ slugFor' = [slugFor EXCEPT ![u] = s]
        /\ typeFor' = [typeFor EXCEPT ![u] = t]
        /\ mixed \subseteq mixed'
        /\ s \in mixed' \/ \A v \in LogoForms : ~(logoStep[v] \in {"clear", "write"} /\ slugFor[v] = s)
        /\ files' = files
    BY <1>1 DEF SubmitLogo, Writing
  <2> QED BY <2>1 DEF OneWriter
<1>2. ASSUME NEW u \in LogoForms, RemoveOthers(u) PROVE LogoInv'
  <2>1. /\ logoStep[u] = "clear" /\ logoStep' = [logoStep EXCEPT ![u] = "write"]
        /\ slugFor[u] \in LogoSlugs
        /\ \A t \in LogoTypes : files'[slugFor[u]][t] = IF t # typeFor[u] THEN NoLogo ELSE files[slugFor[u]][t]
        /\ \A s \in LogoSlugs : s # slugFor[u] => files'[s] = files[s]
        /\ UNCHANGED <<slugFor, typeFor, mixed>>
    BY <1>2 DEF RemoveOthers, RemovedTypes, OneWriter
  <2>2. LogoTypesOK'
    BY <1>2, <2>1 DEF RemoveOthers
  <2>3. OneWriter'
    BY <2>1 DEF OneWriter
  <2>4. \A s \in LogoSlugs \ mixed' : OneFile(s)'
    BY <2>1 DEF OneWriter
  <2> QED BY <2>2, <2>3, <2>4
<1>3. ASSUME NEW u \in LogoForms, NEW x \in {u, NoLogo}, NEW st \in {"save", "failed"},
             logoStep[u] = "write", logoStep' = [logoStep EXCEPT ![u] = st],
             files' = [files EXCEPT ![slugFor[u]][typeFor[u]] = x],
             UNCHANGED <<slugFor, typeFor, mixed>>
      PROVE  LogoInv'
  <2>1. slugFor[u] \in LogoSlugs /\ typeFor[u] \in LogoTypes
    BY <1>3 DEF OneWriter
  <2>2. /\ \A t \in LogoTypes : t # typeFor[u] => files'[slugFor[u]][t] = files[slugFor[u]][t]
        /\ \A s \in LogoSlugs : s # slugFor[u] => files'[s] = files[s]
    BY <1>3, <2>1
  <2>3. LogoTypesOK'
    BY <1>3, <2>1
  <2>4. OneWriter'
    BY <1>3, <2>1, <2>2 DEF OneWriter
  <2>5. \A s \in LogoSlugs \ mixed' : OneFile(s)'
    BY <1>3, <2>1, <2>2 DEF OneWriter
  <2> QED BY <2>3, <2>4, <2>5
<1>4. ASSUME NEW u \in LogoForms, WriteLogo(u) \/ WriteLogoFails(u) PROVE LogoInv'
  BY <1>3, <1>4 DEF WriteLogo, WriteLogoFails
<1>5. ASSUME NEW u \in LogoForms, SavePlant(u) \/ SavePlantFails(u) PROVE LogoInv'
  BY <1>5 DEF SavePlant, SavePlantFails, OneWriter
<1>6. CASE UNCHANGED logoVars
  BY <1>6 DEF logoVars, OneWriter
<1> QED BY <1>1, <1>2, <1>4, <1>5, <1>6 DEF LogoNext, LogoFormStep

LEMMA LogoInvHolds == LogoSpec => []LogoInv
<1>1. LogoInit => LogoInv
  BY NoLogoAssumption DEF LogoInit, LogoInv, LogoTypesOK, OneWriter, OneFile
<1> QED BY <1>1, LogoStepKeeps, PTL DEF LogoSpec

\* Every plant, every file and every form has its type.
THEOREM LogosTypes == LogoSpec => []LogoTypeOK
<1>1. LogoInit => LogoTypeOK
  BY NoLogoAssumption DEF LogoInit, LogoTypeOK
<1>2. LogoInv /\ LogoInv' /\ LogoTypeOK /\ [LogoNext]_logoVars => LogoTypeOK'
  <2> SUFFICES ASSUME LogoInv, LogoInv', LogoTypeOK, [LogoNext]_logoVars PROVE LogoTypeOK'
    OBVIOUS
  <2>1. LogoTypesOK'
    BY DEF LogoInv
  <2> SUFFICES /\ (logoPlants \subseteq LogoSlugs)'
               /\ (logoPath \in [LogoSlugs -> LogoTypes \cup {NoLogo}])'
               /\ (creates \in [LogoForms -> BOOLEAN])'
               /\ (mixed \subseteq LogoSlugs)'
    BY <2>1 DEF LogoTypesOK, LogoTypeOK
  <2> USE DEF LogoTypeOK
  <2>2. ASSUME NEW u \in LogoForms, NEW s \in LogoSlugs, NEW t \in LogoTypes, NEW new \in BOOLEAN,
               SubmitLogo(u, s, t, new)
        PROVE  /\ UNCHANGED <<logoPlants, logoPath>>
               /\ (creates \in [LogoForms -> BOOLEAN])' /\ (mixed \subseteq LogoSlugs)'
    BY <2>2 DEF SubmitLogo
  <2>3. ASSUME NEW u \in LogoForms,
               RemoveOthers(u) \/ WriteLogo(u) \/ WriteLogoFails(u) \/ SavePlantFails(u)
        PROVE  UNCHANGED <<logoPlants, logoPath, creates, mixed>>
    BY <2>3 DEF RemoveOthers, WriteLogo, WriteLogoFails, SavePlantFails
  <2>4. ASSUME NEW u \in LogoForms, SavePlant(u)
        PROVE  /\ UNCHANGED <<creates, mixed>>
               /\ (logoPlants \subseteq LogoSlugs)'
               /\ (logoPath \in [LogoSlugs -> LogoTypes \cup {NoLogo}])'
    <3>1. slugFor[u] \in LogoSlugs /\ typeFor[u] \in LogoTypes
      BY <2>4 DEF SavePlant, LogoInv, OneWriter
    <3> QED BY <2>4, <3>1 DEF SavePlant
  <2>5. CASE UNCHANGED logoVars
    BY <2>5 DEF logoVars
  <2> QED BY <2>2, <2>3, <2>4, <2>5 DEF LogoNext, LogoFormStep
<1> QED BY <1>1, <1>2, LogoInvHolds, PTL DEF LogoSpec

\* Files of two types for one slug need two logos written at once.
THEOREM OneLogosUnlessRace == LogoSpec => []OneLogoUnlessRace
<1>1. LogoInv => OneLogoUnlessRace
  <2> SUFFICES ASSUME LogoInv, NEW s \in LogoSlugs \ mixed
               PROVE  Cardinality({t \in LogoTypes : files[s][t] # NoLogo}) <= 1
    BY DEF OneLogoUnlessRace
  <2> DEFINE Used == {t \in LogoTypes : files[s][t] # NoLogo}
  <2>1. CASE Used = {}
    BY <2>1, FS_EmptySet
  <2>2. ASSUME NEW t \in Used PROVE Cardinality(Used) <= 1
    <3>1. Used = {t}
      BY DEF LogoInv, OneFile
    <3>2. Cardinality({t}) = 1
      BY FS_Singleton
    <3> HIDE DEF Used
    <3> QED BY <3>1, <3>2
  <2> QED BY <2>1, <2>2
<1> QED BY <1>1, LogoInvHolds, PTL

----------------------------------------------------------------------------
(* The buyers' offer. *)

Ranked == {p \in listed : offerRank[p] # 0}
NextOffer == IF Cardinality(Ranked) < OfferSpots THEN Cardinality(Ranked) + 1 ELSE 0

\* The ranks handed out are the first ones, one each.
OffersAreFirst ==
    /\ IsFiniteSet(Ranked)
    /\ Cardinality(Ranked) <= OfferSpots
    /\ OfferRanks = 1 .. Cardinality(Ranked)
    /\ \A p, q \in Ranked : offerRank[p] = offerRank[q] => p = q

\* Whoever looks or has counted holds the lock, and has counted what there still is.
OfferIsNext ==
    \A b \in BuyerForms :
        /\ buying[b] \in {"look", "insert"} => buyerLock = b
        /\ buying[b] = "insert" => offer[b] = NextOffer
        /\ buying[b] = "created" => phone[b] \in listed /\ offerRank[phone[b]] = offer[b]

BuyerInv == BuyerTypeOK /\ OffersAreFirst /\ OfferIsNext

LEMMA NextOfferType == BuyerInv => Cardinality(Ranked) \in Nat /\ NextOffer \in Nat
BY FS_CardinalityType DEF BuyerInv, OffersAreFirst, NextOffer

\* A step that inserts nobody.
LEMMA NobodyListed ==
    ASSUME BuyerInv, UNCHANGED <<listed, offerRank>>
    PROVE  Ranked' = Ranked /\ NextOffer' = NextOffer /\ OfferRanks' = OfferRanks /\ OffersAreFirst'
BY DEF BuyerInv, Ranked, NextOffer, OfferRanks, OffersAreFirst

LEMMA InsertKeepsOffers ==
    ASSUME BuyerInv, NEW b \in BuyerForms, InsertBuyer(b)
    PROVE  BuyerInv'
<1> USE NoFormAssumption, OfferSpotsAssumption
<1>1. /\ buying[b] = "insert" /\ phone[b] \notin listed /\ phone[b] \in Phones
      /\ listed' = listed \cup {phone[b]}
      /\ offerRank' = [offerRank EXCEPT ![phone[b]] = offer[b]]
      /\ buying' = [buying EXCEPT ![b] = "created"]
      /\ buyerLock = b /\ buyerLock' = NoForm
      /\ offer[b] = NextOffer
      /\ UNCHANGED <<phone, offer>>
  BY DEF InsertBuyer, ReleaseOffer, BuyerInv, BuyerTypeOK, OfferIsNext
<1>2. BuyerTypeOK'
  BY <1>1 DEF BuyerInv, BuyerTypeOK
<1>3. /\ \A p \in listed : offerRank'[p] = offerRank[p]
      /\ offerRank'[phone[b]] = offer[b]
  BY <1>1 DEF BuyerInv, BuyerTypeOK
<1>4. Ranked' = IF NextOffer = 0 THEN Ranked ELSE Ranked \cup {phone[b]}
  <2>1. Ranked' = {p \in listed' : offerRank'[p] # 0}
    BY DEF Ranked
  <2> QED BY <2>1, <1>1, <1>3 DEF Ranked
<1>5. OfferRanks' = IF NextOffer = 0 THEN OfferRanks ELSE OfferRanks \cup {NextOffer}
  <2>1. OfferRanks' = {offerRank'[p] : p \in listed'} \ {0}
    BY DEF OfferRanks
  <2> QED BY <2>1, <1>1, <1>3 DEF OfferRanks
<1>6. phone[b] \notin Ranked /\ Cardinality(Ranked) \in Nat /\ IsFiniteSet(Ranked)
  BY <1>1, NextOfferType DEF Ranked, BuyerInv, OffersAreFirst
<1>7. OffersAreFirst'
  <2>1. CASE NextOffer = 0
    BY <2>1, <1>3, <1>4, <1>5 DEF BuyerInv, OffersAreFirst, Ranked
  <2>2. CASE NextOffer # 0
    <3>1. NextOffer = Cardinality(Ranked) + 1 /\ NextOffer <= OfferSpots
      BY <2>2, <1>6 DEF NextOffer
    <3>2. IsFiniteSet(Ranked') /\ Cardinality(Ranked') = Cardinality(Ranked) + 1
      BY <2>2, <1>4, <1>6, FS_AddElement
    <3>3. OfferRanks' = 1 .. Cardinality(Ranked')
      BY <2>2, <3>1, <3>2, <1>5, <1>6 DEF BuyerInv, OffersAreFirst
    <3>4. \A p \in Ranked : offerRank[p] \in 1 .. Cardinality(Ranked)
      BY DEF BuyerInv, OffersAreFirst, OfferRanks, Ranked
    <3>5. \A p, q \in Ranked' : offerRank'[p] = offerRank'[q] => p = q
      <4>1. \A p \in Ranked : offerRank'[p] = offerRank[p] /\ offerRank[p] # NextOffer
        BY <3>1, <3>4, <1>3, <1>6 DEF Ranked
      <4> QED BY <4>1, <2>2, <1>1, <1>3, <1>4 DEF BuyerInv, OffersAreFirst
    <3> QED BY <3>1, <3>2, <3>3, <3>5 DEF OffersAreFirst
  <2> QED BY <2>1, <2>2
<1>8. OfferIsNext'
  <2> SUFFICES ASSUME NEW c \in BuyerForms
               PROVE  /\ buying'[c] \in {"look", "insert"} => buyerLock' = c
                      /\ buying'[c] = "insert" => offer'[c] = NextOffer'
                      /\ buying'[c] = "created" => phone'[c] \in listed' /\ offerRank'[phone'[c]] = offer'[c]
    BY DEF OfferIsNext
  <2>1. CASE c = b
    BY <2>1, <1>1, <1>3 DEF BuyerInv, BuyerTypeOK
  <2>2. CASE c # b
    BY <2>2, <1>1, <1>3 DEF BuyerInv, BuyerTypeOK, OfferIsNext
  <2> QED BY <2>1, <2>2
<1> QED BY <1>2, <1>7, <1>8 DEF BuyerInv

LEMMA BuyerStepKeeps == BuyerInv /\ [BuyerNext]_buyerVars => BuyerInv'
<1> SUFFICES ASSUME BuyerInv, [BuyerNext]_buyerVars PROVE BuyerInv'
  OBVIOUS
<1> USE NoFormAssumption DEF BuyerInv, BuyerTypeOK
<1>1. ASSUME NEW b \in BuyerForms, NEW p \in Phones, BuyerSubmit(b, p) PROVE BuyerInv'
  BY <1>1, NobodyListed DEF BuyerSubmit, OfferIsNext
<1>2. ASSUME NEW b \in BuyerForms, LockOffer(b) PROVE BuyerInv'
  BY <1>2, NobodyListed DEF LockOffer, BuyerLockIsFree, OfferIsNext
<1>3. ASSUME NEW b \in BuyerForms, AlreadyListed(b) PROVE BuyerInv'
  BY <1>3, NobodyListed DEF AlreadyListed, ReleaseOffer, OfferIsNext
<1>4. ASSUME NEW b \in BuyerForms, CountOffer(b) PROVE BuyerInv'
  <2>1. /\ buying[b] = "look" /\ buying' = [buying EXCEPT ![b] = "insert"]
        /\ offer' = [offer EXCEPT ![b] = NextOffer]
        /\ UNCHANGED <<listed, offerRank, phone, buyerLock>>
    BY <1>4 DEF CountOffer, NextOffer, Ranked
  <2> QED BY <2>1, NobodyListed, NextOfferType DEF OfferIsNext
<1>5. ASSUME NEW b \in BuyerForms, BuyerFails(b) PROVE BuyerInv'
  BY <1>5, NobodyListed DEF BuyerFails, ReleaseOffer, OfferIsNext
<1>6. CASE UNCHANGED buyerVars
  BY <1>6, NobodyListed DEF buyerVars, OfferIsNext
<1> QED BY <1>1, <1>2, <1>3, <1>4, <1>5, <1>6, InsertKeepsOffers DEF BuyerNext, BuyerStep

LEMMA BuyerInvHolds == BuyerSpec => []BuyerInv
<1>1. BuyerInit => BuyerInv
  <2> SUFFICES ASSUME BuyerInit PROVE BuyerInv
    OBVIOUS
  <2>1. Ranked = {} /\ OfferRanks = {}
    BY DEF BuyerInit, Ranked, OfferRanks
  <2>2. OffersAreFirst
    BY <2>1, FS_EmptySet, OfferSpotsAssumption DEF OffersAreFirst
  <2> QED BY <2>2 DEF BuyerInit, BuyerInv, BuyerTypeOK, OfferIsNext
<1> QED BY <1>1, BuyerStepKeeps, PTL DEF BuyerSpec

\* Every buyer and every form has its type.
THEOREM BuyerTypes == BuyerSpec => []BuyerTypeOK
<1>1. BuyerInv => BuyerTypeOK
  BY DEF BuyerInv
<1> QED BY <1>1, BuyerInvHolds, PTL

\* The offer's ranks are 1, 2, ... up to at most the last spot, each of one buyer.
THEOREM OfferRanksAreDense == BuyerSpec => []OfferRanksDense
<1>1. BuyerInv => OfferRanksDense
  <2> SUFFICES ASSUME BuyerInv PROVE OfferRanksDense
    OBVIOUS
  <2>1. Cardinality(Ranked) \in Nat
    BY NextOfferType
  <2>2. \A p \in listed : offerRank[p] \in Nat /\ (offerRank[p] # 0 => p \in Ranked /\ offerRank[p] \in OfferRanks)
    BY DEF BuyerInv, BuyerTypeOK, Ranked, OfferRanks
  <2>3. \A p \in listed : offerRank[p] <= Cardinality(Ranked)
    BY <2>1, <2>2 DEF BuyerInv, OffersAreFirst
  <2>4. \A p \in listed : offerRank[p] <= OfferSpots
    BY <2>1, <2>2, <2>3, OfferSpotsAssumption DEF BuyerInv, OffersAreFirst
  <2>5. \A p \in listed : \A n \in 1 .. offerRank[p] : n \in OfferRanks
    BY <2>1, <2>2, <2>3 DEF BuyerInv, OffersAreFirst
  <2> QED BY <2>2, <2>4, <2>5 DEF BuyerInv, OffersAreFirst, OfferRanksDense
<1> QED BY <1>1, BuyerInvHolds, PTL

\* The least of the ranks that are left is the one after those that are counted.
LEMMA NextFreeIsCounted == BuyerInv => FirstBuyers!NextFree = NextOffer
<1> SUFFICES ASSUME BuyerInv PROVE FirstBuyers!NextFree = NextOffer
  OBVIOUS
<1> DEFINE k == Cardinality(Ranked)
<1> USE OfferSpotsAssumption
<1>1. k \in 0 .. OfferSpots /\ FirstBuyers!Given = 1 .. k
  BY NextOfferType DEF BuyerInv, OffersAreFirst, FirstBuyers!Given, OfferRanks
<1> HIDE DEF k
<1>2. FirstBuyers!Free = (k + 1) .. OfferSpots
  BY <1>1 DEF FirstBuyers!Free
<1>3. CASE k < OfferSpots
  <2>1. k + 1 \in FirstBuyers!Free /\ \A o \in FirstBuyers!Free : k + 1 <= o
    BY <1>1, <1>2, <1>3
  <2>2. \A s \in FirstBuyers!Free : (\A o \in FirstBuyers!Free : s <= o) => s = k + 1
    BY <1>1, <1>2, <2>1
  <2>3. (CHOOSE s \in FirstBuyers!Free : \A o \in FirstBuyers!Free : s <= o) = k + 1
    BY <2>1, <2>2
  <2>4. NextOffer = k + 1
    BY <1>3 DEF NextOffer, k
  <2> QED BY <2>1, <2>3, <2>4 DEF FirstBuyers!NextFree
<1>4. CASE k = OfferSpots
  <2>1. FirstBuyers!Free = {}
    BY <1>2, <1>4
  <2>2. NextOffer = 0
    BY <1>4 DEF NextOffer, k
  <2> QED BY <2>1, <2>2 DEF FirstBuyers!NextFree
<1> QED BY <1>1, <1>3, <1>4

\* Buyers are listed one by one, each with the next rank that is left, which it keeps and is
\* answered.
THEOREM OffersGoInTurn == BuyerSpec => OffersInTurn
<1>1. BuyerInit => FirstBuyers!Init
  BY DEF BuyerInit, FirstBuyers!Init
<1>2. BuyerInv /\ [BuyerNext]_buyerVars => [FirstBuyers!Next]_(FirstBuyers!vars)
  <2> SUFFICES ASSUME BuyerInv, [BuyerNext]_buyerVars PROVE [FirstBuyers!Next]_(FirstBuyers!vars)
    OBVIOUS
  <2>1. ASSUME NEW b \in BuyerForms, InsertBuyer(b) PROVE FirstBuyers!Next
    <3>1. /\ phone[b] \in Phones /\ phone[b] \notin listed
          /\ listed' = listed \cup {phone[b]}
          /\ offerRank' = [offerRank EXCEPT ![phone[b]] = NextOffer]
      BY <2>1 DEF InsertBuyer, BuyerInv, BuyerTypeOK, OfferIsNext
    <3>2. FirstBuyers!Register(phone[b])
      BY <3>1, NextFreeIsCounted DEF FirstBuyers!Register
    <3> QED BY <3>1, <3>2 DEF FirstBuyers!Next
  <2>2. ASSUME UNCHANGED <<listed, offerRank>> PROVE UNCHANGED FirstBuyers!vars
    BY <2>2 DEF FirstBuyers!vars
  <2> QED BY <2>1, <2>2 DEF BuyerNext, BuyerStep, BuyerSubmit, LockOffer, AlreadyListed,
            CountOffer, BuyerFails, buyerVars
<1>3. BuyerInv => AnsweredAsStored
  BY DEF BuyerInv, OfferIsNext, AnsweredAsStored
<1>4. BuyerSpec => FirstBuyers!Spec
  BY <1>1, <1>2, BuyerInvHolds, PTL DEF BuyerSpec, FirstBuyers!Spec
<1>5. BuyerSpec => []AnsweredAsStored
  BY <1>3, BuyerInvHolds, PTL
<1> QED BY <1>4, <1>5 DEF OffersInTurn

----------------------------------------------------------------------------
(* Opening hours. *)

\* The rows that a form may leave in a day, each with the save that inserted it.
HourRows == [by : Saves, row : UNION {Inserted(f) : f \in DayForms}]

OneSegment(rows) == \A o, p \in rows : o.row.segment = p.row.segment => o = p

\* A row that a save under way will leave where it is comes from a form saved meanwhile.
RestIsOfOverlap ==
    \A s \in Saves : saving[s] = "insert" =>
        \A d \in Days : \A o \in week[d] :
            \/ \E p \in found[s][d] : p.by = o.by /\ p.row.segment = o.row.segment
            \/ \E p \in overlap[s] : o.row \in ParseWeekForm(form[p][d])

\* What the saves keep of the week and of one another; a form does not change once it is sent.
SavesInv ==
    /\ week \in [Days -> SUBSET HourRows]
    /\ saving \in [Saves -> {"idle", "insert", "saved", "failed"}]
    /\ found \in [Saves -> [Days -> SUBSET HourRows]]
    /\ form \in [Saves -> [Days -> DayForms \cup {NothingEntered}]]
    /\ overlap \in [Saves -> SUBSET Saves]
    /\ \A s \in Saves : saving[s] = "insert" => \A d \in Days : form[s][d] \in DayForms
    /\ \A s \in Saves : \A p \in overlap[s] : saving[p] = "saved"
    /\ \A s \in lastSave : s \in Saves /\ saving[s] = "saved"
    /\ \A d \in Days : OneSegment(week[d])

HoursInv == SavesInv /\ RestIsOfOverlap /\ WeekIsAsSaved

\* A form gives one segment once, and what is stored of it has its times.
LEMMA InsertedRows ==
    ASSUME NEW f \in DayForms
    PROVE  /\ \A r, q \in Inserted(f) : r.segment = q.segment => r = q
           /\ \A r \in Inserted(f) : ~r.closed => r.opens \in Minutes /\ r.closes \in Minutes
<1> DEFINE row(n) == [segment |-> n, opens |-> f.opens[n], closes |-> f.closes[n], closed |-> FALSE]
           shut == [segment |-> 1, opens |-> Blank, closes |-> Blank, closed |-> TRUE]
<1>1. \A r \in ParseWeekForm(f) : IF f.closed THEN r = shut ELSE r = row(r.segment)
  <2> SUFFICES ASSUME NEW r \in ParseWeekForm(f)
               PROVE  IF f.closed THEN r = shut ELSE r = row(r.segment)
    OBVIOUS
  <2>1. CASE f.closed
    BY <2>1 DEF ParseWeekForm
  <2>2. CASE ~f.closed
    <3>1. PICK n \in 1 .. 2 : r = row(n)
      BY <2>2 DEF ParseWeekForm
    <3> QED BY <2>2, <3>1
  <2> QED BY <2>1, <2>2
<1> HIDE DEF row, shut
<1>2. \A r, q \in ParseWeekForm(f) : r.segment = q.segment => r = q
  BY <1>1
<1> QED BY <1>2 DEF Inserted, Unreadable

\* What becomes of a day: no segment comes twice, all that is read of the form is there, and the
\* rest was left by the DELETE.
LEMMA MergedDay ==
    ASSUME SavesInv, NEW s \in Saves, saving[s] = "insert", NEW d \in Days
    PROVE  /\ Merged(s, d) \subseteq HourRows /\ OneSegment(Merged(s, d))
           /\ \A r \in Inserted(form[s][d]) : \E x \in Merged(s, d) : x.row = r
           /\ \A x \in Merged(s, d) : x \in Left(s, d) \/ x.row \in Inserted(form[s][d])
<1> DEFINE rows == Inserted(form[s][d])
           Met(r) == {o \in Left(s, d) : o.row.segment = r.segment}
           Untouched(o) == \A r \in rows : o.row.segment # r.segment
           New(r) == IF Met(r) = {} THEN {[by |-> s, row |-> r]} ELSE {[o EXCEPT !.row = r] : o \in Met(r)}
<1>1. Left(s, d) \subseteq HourRows /\ OneSegment(Left(s, d))
  BY DEF SavesInv, Left, OneSegment
<1>2. /\ form[s][d] \in DayForms
      /\ \A r, q \in rows : r.segment = q.segment => r = q
  <2>1. form[s][d] \in DayForms
    BY DEF SavesInv
  <2> QED BY <2>1, InsertedRows
<1>3. \A x : x \in Merged(s, d) <=> (x \in Left(s, d) /\ Untouched(x)) \/ \E r \in rows : x \in New(r)
  BY DEF Merged
<1>4. \A r \in rows : \A x \in New(r) : x \in HourRows /\ x.row = r
  <2> SUFFICES ASSUME NEW r \in rows, NEW x \in New(r) PROVE x \in HourRows /\ x.row = r
    OBVIOUS
  <2>0. r \in UNION {Inserted(f) : f \in DayForms}
    BY <1>2
  <2> HIDE DEF rows
  <2>1. CASE Met(r) = {}
    BY <2>0, <2>1 DEF HourRows
  <2>2. CASE Met(r) # {}
    <3>1. PICK o \in Met(r) : x = [o EXCEPT !.row = r]
      BY <2>2
    <3>2. o \in HourRows
      BY <1>1
    <3> QED BY <2>0, <3>1, <3>2 DEF HourRows
  <2> QED BY <2>1, <2>2
<1>5. \A r \in rows : New(r) # {} /\ \A x, y \in New(r) : x = y
  <2> SUFFICES ASSUME NEW r \in rows PROVE New(r) # {} /\ \A x, y \in New(r) : x = y
    OBVIOUS
  <2> HIDE DEF rows
  <2>1. CASE Met(r) = {}
    BY <2>1
  <2>2. CASE Met(r) # {}
    <3>1. PICK o \in Met(r) : TRUE
      BY <2>2
    <3>2. \A p \in Met(r) : p = o
      BY <1>1, <3>1 DEF OneSegment
    <3> QED BY <2>2, <3>1, <3>2
  <2> QED BY <2>1, <2>2
<1> HIDE DEF New, Met, rows
<1>6. Merged(s, d) \subseteq HourRows
  BY <1>1, <1>3, <1>4
<1>7. ASSUME NEW x \in Merged(s, d), NEW y \in Merged(s, d), x.row.segment = y.row.segment
      PROVE  x = y
  <2>1. CASE x \in Left(s, d) /\ Untouched(x) /\ y \in Left(s, d) /\ Untouched(y)
    BY <2>1, <1>1, <1>7 DEF OneSegment
  <2>2. ASSUME NEW r \in rows, x \in New(r) PROVE x = y
    <3>1. y \in New(r)
      BY <2>2, <1>2, <1>3, <1>4, <1>7
    <3> QED BY <2>2, <3>1, <1>5
  <2>3. ASSUME NEW r \in rows, y \in New(r) PROVE x = y
    <3>1. x \in New(r)
      BY <2>3, <1>2, <1>3, <1>4, <1>7
    <3> QED BY <2>3, <3>1, <1>5
  <2> QED BY <2>1, <2>2, <2>3, <1>3
<1>8. \A r \in rows : \E x \in Merged(s, d) : x.row = r
  BY <1>3, <1>4, <1>5
<1>9. \A x \in Merged(s, d) : x \in Left(s, d) \/ x.row \in rows
  BY <1>3, <1>4
<1> QED BY <1>6, <1>7, <1>8, <1>9 DEF OneSegment, rows

LEMMA StartKeeps ==
    ASSUME HoursInv, NEW s \in Saves, NEW f \in [Days -> DayForms], StartSave(s, f)
    PROVE  HoursInv'
<1>1. /\ saving[s] = "idle" /\ form' = [form EXCEPT ![s] = f] /\ found' = [found EXCEPT ![s] = week]
      /\ saving' = [saving EXCEPT ![s] = "insert"] /\ UNCHANGED <<week, lastSave, overlap>>
  BY DEF StartSave, Found
<1>2. s \notin lastSave /\ \A o \in Saves : s \notin overlap[o]
  BY <1>1 DEF HoursInv, SavesInv
<1>3. SavesInv'
  BY <1>1, <1>2 DEF HoursInv, SavesInv, OneSegment
<1>4. \A o \in Saves : o # s => form'[o] = form[o] /\ found'[o] = found[o] /\ saving'[o] = saving[o]
  BY <1>1 DEF HoursInv, SavesInv
<1>5. RestIsOfOverlap'
  <2> SUFFICES ASSUME NEW o \in Saves, saving'[o] = "insert", NEW d \in Days, NEW x \in week'[d]
               PROVE  \/ \E p \in found'[o][d] : p.by = x.by /\ p.row.segment = x.row.segment
                      \/ \E p \in overlap'[o] : x.row \in ParseWeekForm(form'[p][d])
    BY DEF RestIsOfOverlap
  <2>1. CASE o = s
    <3>1. found'[s] = week
      BY <1>1 DEF HoursInv, SavesInv
    <3> QED BY <1>1, <2>1, <3>1
  <2>2. CASE o # s
    <3>1. \/ \E p \in found[o][d] : p.by = x.by /\ p.row.segment = x.row.segment
          \/ \E p \in overlap[o] : x.row \in ParseWeekForm(form[p][d])
      BY <1>1, <1>4, <2>2 DEF HoursInv, RestIsOfOverlap
    <3>2. \A p \in overlap[o] : p \in Saves /\ form'[p] = form[p]
      BY <1>2, <1>4 DEF HoursInv, SavesInv
    <3> QED BY <1>1, <1>4, <2>2, <3>1, <3>2
  <2> QED BY <2>1, <2>2
<1>6. WeekIsAsSaved'
  <2>1. \A o \in lastSave : o \in Saves /\ form'[o] = form[o]
    BY <1>2, <1>4 DEF HoursInv, SavesInv
  <2>2. \A o \in lastSave : \A p \in overlap[o] : form'[p] = form[p]
    BY <1>2, <1>4, <2>1 DEF HoursInv, SavesInv
  <2> QED BY <1>1, <2>1, <2>2 DEF HoursInv, WeekIsAsSaved
<1> QED BY <1>3, <1>5, <1>6 DEF HoursInv

LEMMA InsertKeeps ==
    ASSUME HoursInv, NEW s \in Saves, InsertWeek(s)
    PROVE  HoursInv'
<1>1. /\ saving[s] = "insert" /\ week' = [d \in Days |-> Merged(s, d)]
      /\ saving' = [saving EXCEPT ![s] = "saved"] /\ lastSave' = {s}
      /\ overlap' = [o \in Saves |-> IF o \in Others(s) THEN overlap[o] \cup {s} ELSE overlap[o]]
      /\ UNCHANGED <<form, found>>
  BY DEF InsertWeek
<1>2. \A d \in Days :
        /\ Merged(s, d) \subseteq HourRows /\ OneSegment(Merged(s, d))
        /\ \A r \in Inserted(form[s][d]) : \E x \in Merged(s, d) : x.row = r
        /\ \A x \in Merged(s, d) : x \in Left(s, d) \/ x.row \in Inserted(form[s][d])
  BY <1>1, MergedDay DEF HoursInv
<1>3. /\ overlap'[s] = overlap[s]
      /\ \A o \in Saves : saving'[o] = "insert" => saving[o] = "insert" /\ overlap'[o] = overlap[o] \cup {s}
  BY <1>1 DEF HoursInv, SavesInv, Others
<1>4. SavesInv'
  <2>1. week' \in [Days -> SUBSET HourRows] /\ \A d \in Days : OneSegment(week'[d])
    BY <1>1, <1>2
  <2>2. /\ saving' \in [Saves -> {"idle", "insert", "saved", "failed"}] /\ saving'[s] = "saved"
        /\ \A o \in Saves : saving[o] = "saved" => saving'[o] = "saved"
    BY <1>1 DEF HoursInv, SavesInv
  <2>3. overlap' \in [Saves -> SUBSET Saves]
    BY <1>1 DEF HoursInv, SavesInv
  <2>4. \A o \in Saves : \A p \in overlap'[o] : saving'[p] = "saved"
    <3> SUFFICES ASSUME NEW o \in Saves, NEW p \in overlap'[o] PROVE saving'[p] = "saved"
      OBVIOUS
    <3>1. p \in overlap[o] \/ p = s
      BY <1>1
    <3>2. p \in overlap[o] => p \in Saves /\ saving[p] = "saved"
      BY DEF HoursInv, SavesInv
    <3> QED BY <2>2, <3>1, <3>2
  <2>5. /\ found' \in [Saves -> [Days -> SUBSET HourRows]]
        /\ form' \in [Saves -> [Days -> DayForms \cup {NothingEntered}]]
        /\ \A o \in Saves : saving'[o] = "insert" => \A d \in Days : form'[o][d] \in DayForms
    BY <1>1, <1>3 DEF HoursInv, SavesInv
  <2> QED BY <1>1, <2>1, <2>2, <2>3, <2>4, <2>5 DEF SavesInv, OneSegment
<1>5. \A d \in Days : \A x \in Left(s, d) :
        x \in week[d] /\ \E p \in overlap[s] : x.row \in ParseWeekForm(form[p][d])
  BY <1>1 DEF HoursInv, RestIsOfOverlap, Left
<1>6. \A d \in Days : Inserted(form[s][d]) \subseteq ParseWeekForm(form[s][d])
  BY DEF Inserted
<1>7. RestIsOfOverlap'
  <2> SUFFICES ASSUME NEW o \in Saves, saving'[o] = "insert", NEW d \in Days, NEW x \in week'[d]
               PROVE  \/ \E p \in found'[o][d] : p.by = x.by /\ p.row.segment = x.row.segment
                      \/ \E p \in overlap'[o] : x.row \in ParseWeekForm(form'[p][d])
    BY DEF RestIsOfOverlap
  <2>1. x \in week[d] \/ x.row \in ParseWeekForm(form[s][d])
    BY <1>1, <1>2, <1>5, <1>6
  <2>2. CASE x \in week[d]
    <3>1. \/ \E p \in found[o][d] : p.by = x.by /\ p.row.segment = x.row.segment
          \/ \E p \in overlap[o] : x.row \in ParseWeekForm(form[p][d])
      BY <1>3, <2>2 DEF HoursInv, RestIsOfOverlap
    <3> QED BY <1>1, <1>3, <3>1
  <2>3. CASE x.row \in ParseWeekForm(form[s][d])
    BY <1>1, <1>3, <2>3
  <2> QED BY <2>1, <2>2, <2>3
<1>8. WeekIsAsSaved'
  <2>1. \A d \in Days : \A r \in ParseWeekForm(form[s][d]) : Unreadable(r) \/ \E o \in week'[d] : o.row = r
    BY <1>1, <1>2 DEF Inserted
  <2>2. \A d \in Days : \A o \in week'[d] :
          \E p \in overlap'[s] \cup {s} : o.row \in ParseWeekForm(form[p][d])
    BY <1>1, <1>2, <1>3, <1>5, <1>6
  <2>3. \A d \in Days : OneSegment(week'[d])
    BY <1>1, <1>2
  <2> QED BY <1>1, <2>1, <2>2, <2>3 DEF WeekIsAsSaved, OneSegment
<1> QED BY <1>4, <1>7, <1>8 DEF HoursInv

LEMMA HoursStepKeeps == HoursInv /\ [HoursNext]_hoursVars => HoursInv'
<1> SUFFICES ASSUME HoursInv, [HoursNext]_hoursVars PROVE HoursInv'
  OBVIOUS
<1>1. ASSUME NEW s \in Saves, SaveFails(s) PROVE HoursInv'
  <2>1. /\ saving[s] = "insert" /\ saving' = [saving EXCEPT ![s] = "failed"]
        /\ UNCHANGED <<week, form, found, lastSave, overlap>>
    BY <1>1 DEF SaveFails
  <2>2. SavesInv'
    BY <2>1 DEF HoursInv, SavesInv, OneSegment
  <2>3. RestIsOfOverlap'
    BY <2>1 DEF HoursInv, SavesInv, RestIsOfOverlap
  <2>4. WeekIsAsSaved'
    BY <2>1 DEF HoursInv, WeekIsAsSaved
  <2> QED BY <2>2, <2>3, <2>4 DEF HoursInv
<1>2. CASE UNCHANGED hoursVars
  BY <1>2 DEF hoursVars, HoursInv, SavesInv, RestIsOfOverlap, WeekIsAsSaved, OneSegment
<1> QED BY <1>1, <1>2, StartKeeps, InsertKeeps DEF HoursNext, SaveStep

LEMMA HoursInvHolds == HoursSpec => []HoursInv
<1>1. HoursInit => HoursInv
  BY DEF HoursInit, HoursInv, SavesInv, RestIsOfOverlap, WeekIsAsSaved, OneSegment
<1> QED BY <1>1, HoursStepKeeps, PTL DEF HoursSpec

\* A row is somebody's, from some form, and at most one save is the last.
THEOREM HoursTypes == HoursSpec => []HoursTypeOK
<1> DEFINE OneLast == lastSave \in SUBSET Saves /\ Cardinality(lastSave) <= 1
<1>1. HoursInit => OneLast
  BY FS_EmptySet DEF HoursInit
<1>2. OneLast /\ [HoursNext]_hoursVars => OneLast'
  <2> SUFFICES ASSUME OneLast, [HoursNext]_hoursVars PROVE OneLast'
    OBVIOUS
  <2>1. ASSUME NEW s \in Saves, InsertWeek(s) PROVE OneLast'
    <3>1. Cardinality({s}) = 1
      BY FS_Singleton
    <3> QED BY <2>1, <3>1 DEF InsertWeek
  <2>2. ASSUME UNCHANGED lastSave PROVE OneLast'
    BY <2>2
  <2> QED BY <2>1, <2>2 DEF HoursNext, SaveStep, StartSave, SaveFails, hoursVars
<1>3. HoursInv /\ OneLast => HoursTypeOK
  <2> SUFFICES ASSUME HoursInv, OneLast PROVE HoursTypeOK
    OBVIOUS
  <2>1. \A d \in Days : \A o \in week[d] : o.by \in Saves /\ \E f \in DayForms : o.row \in Inserted(f)
    BY DEF HoursInv, SavesInv, HourRows
  <2> QED BY <2>1 DEF HoursInv, SavesInv, HoursTypeOK
<1> HIDE DEF OneLast
<1> QED BY <1>1, <1>2, <1>3, HoursInvHolds, PTL DEF HoursSpec

\* Whatever the forms hold and however the saves overlap, a save that ends leaves in the week what
\* could be read of its form, and beside it nothing but segments of forms saved meanwhile.
THEOREM WeeksAreAsSaved == HoursSpec => []WeekIsAsSaved
<1>1. HoursInv => WeekIsAsSaved
  BY DEF HoursInv
<1> QED BY <1>1, HoursInvHolds, PTL

LEMMA ModSmall ==
    ASSUME NEW n \in Nat, NEW a \in Int, 0 <= a, a < n
    PROVE  a % n = a
OBVIOUS

LEMMA ModNegative ==
    ASSUME NEW n \in Nat, NEW a \in Int, -n <= a, a < 0
    PROVE  a % n = a + n
OBVIOUS

\* timeInRange agrees with the hours of the day they begin on.
LEMMA RangeIsCovered ==
    ASSUME NEW d \in Days, NEW m \in Minutes, NEW r, r.opens \in Minutes, r.closes \in Minutes
    PROVE  Covers(d, r, d, m) <=> InRange(m, r)
<1> DEFINE length == IF r.opens = r.closes THEN Midnight ELSE (r.closes - r.opens) % Midnight
           total == (LastDay + 1) * Midnight
           since == m - r.opens
<1>1. /\ Midnight \in Nat /\ Midnight > 0 /\ LastDay \in Nat /\ LastDay >= 1 /\ d \in Nat
      /\ m \in Nat /\ m < Midnight
      /\ r.opens \in Nat /\ r.opens < Midnight /\ r.closes \in Nat /\ r.closes < Midnight
  BY MidnightAssumption, LastDayAssumption DEF Days, Minutes
<1>2. total \in Nat /\ total >= 2 * Midnight
  BY <1>1
<1>3. /\ r.opens < r.closes => length = r.closes - r.opens
      /\ r.closes < r.opens => length = r.closes - r.opens + Midnight
      /\ r.opens = r.closes => length = Midnight
  BY <1>1, ModSmall, ModNegative
<1>4. /\ since >= 0 => since % total = since
      /\ since < 0 => since % total = since + total
  <2> HIDE DEF total
  <2>1. since \in Int /\ -total <= since /\ since < total
    BY <1>1, <1>2
  <2> HIDE DEF since
  <2> QED BY <2>1, <1>2, ModSmall, ModNegative
<1>5. (d * Midnight + m) - (d * Midnight + r.opens) = since
  <2>1. d * Midnight \in Int
    BY <1>1
  <2> QED BY <2>1, <1>1
<1>6. Covers(d, r, d, m) <=> since % total < length
  BY <1>5 DEF Covers
<1>7. (since % total < length) <=> InRange(m, r)
  <2> HIDE DEF total, length
  <2>1. CASE since >= 0
    BY <2>1, <1>1, <1>3, <1>4 DEF InRange, EndOf
  <2>2. CASE since < 0
    BY <2>2, <1>1, <1>2, <1>3, <1>4 DEF InRange, EndOf
  <2> QED BY <2>1, <2>2, <1>1
<1> QED BY <1>6, <1>7

\* A day's own hours are kept to the minute, those that run past midnight included; what is
\* left of the day before does not count.
THEOREM OpensAsScheduled == HoursSpec => []OpenAsScheduled
<1>1. HoursInv => OpenAsScheduled
  <2> SUFFICES ASSUME HoursInv, NEW x \in Days, NEW m \in Minutes
               PROVE  IsOpen(x, m) <=>
                        \/ x \in {d \in Days : \E o \in week[d] : ~o.row.closed /\ Covers(d, o.row, x, m)}
                        \/ week[x] = {}
    BY DEF OpenAsScheduled
  <2>1. \A o \in week[x] : \E f \in DayForms : o.row \in Inserted(f)
    BY DEF HoursInv, SavesInv, HourRows
  <2>2. \A o \in week[x] : ~o.row.closed => o.row.opens \in Minutes /\ o.row.closes \in Minutes
    BY <2>1, InsertedRows
  <2>3. \A o \in week[x] : ~o.row.closed => (Covers(x, o.row, x, m) <=> InRange(m, o.row))
    BY <2>2, RangeIsCovered
  <2> QED BY <2>3 DEF IsOpen
<1> QED BY <1>1, HoursInvHolds, PTL

\* The stored week is what could be read of the last form, with segments of forms saved at the
\* same time at most, and the plant sells when it says so, to the minute.
THEOREM HoursAreAsEntered == HoursSpec => []HoursAsEntered
<1>1. WeekIsAsSaved /\ OpenAsScheduled => HoursAsEntered
  BY DEF HoursAsEntered
<1> QED BY <1>1, WeeksAreAsSaved, OpensAsScheduled, PTL

----------------------------------------------------------------------------
(* Managers. *)

Licensed(r) == needs[r] \in flags[managerOf[r]] /\ managerOf[r] \in onDuty

\* From the question to the COMMIT, the sender has the permission or its row was written meanwhile.
LicensedOrCrossed ==
    /\ \A r \in ManagerForms : managing[r] = "write" =>
         managerOf[r] \in Managers /\ (Licensed(r) \/ crossed[r])
    /\ LicensedUnlessRace

ManagersInv == ManagersTypeOK /\ LicensedOrCrossed

\* Whoever writes the row of a manager m is noticed by every other request of m under way.
LEMMA CrossingNoticed ==
    ASSUME ManagersTypeOK, NEW m, NEW f, Crossing(m, f)
    PROVE  /\ crossed' \in [ManagerForms -> BOOLEAN]
           /\ \A q \in ManagerForms : crossed[q] => crossed'[q]
           /\ \A q \in ManagerForms :
                q # f /\ managing[q] = "write" /\ managerOf[q] = m => crossed'[q]
BY DEF ManagersTypeOK, Crossing

LEMMA AskKeeps ==
    ASSUME ManagersInv, NEW r \in ManagerForms, NEW m \in Managers, NEW p \in Permissions,
           AskPermission(r, m, p), UNCHANGED <<flags, onDuty, audited, wrote, crossed>>,
           target' \in [ManagerForms -> Managers \cup {NoManager}],
           switchOn' \in [ManagerForms -> BOOLEAN]
    PROVE  ManagersInv'
<1>1. ManagersTypeOK'
  BY DEF ManagersInv, ManagersTypeOK, AskPermission
<1>2. LicensedOrCrossed'
  BY DEF ManagersInv, ManagersTypeOK, LicensedOrCrossed, LicensedUnlessRace, Licensed, AskPermission,
       TerminalManagerCan
<1> QED BY <1>1, <1>2 DEF ManagersInv

LEMMA CommitKeeps ==
    ASSUME ManagersInv, NEW r \in ManagerForms, CommitManaged(r)
    PROVE  ManagersInv'
<1> USE DEF ManagersInv
<1>1. ManagersTypeOK'
  BY CrossingNoticed DEF ManagersTypeOK, CommitManaged
<1>2. managing[r] = "write" /\ managing' = [managing EXCEPT ![r] = "done"]
  BY DEF CommitManaged
<1>3. \A q \in ManagerForms : q # r => managing'[q] = managing[q] /\ wrote'[q] = wrote[q]
  BY <1>2 DEF ManagersTypeOK, CommitManaged
<1>4. managing'[r] = "done" /\ wrote'[r] = Licensed(r)
  BY <1>2 DEF ManagersTypeOK, CommitManaged, Licensed
<1>5. \A q \in ManagerForms : crossed[q] => crossed'[q]
  BY CrossingNoticed DEF CommitManaged
<1>6. ASSUME NEW q \in ManagerForms, managing'[q] = "write"
      PROVE  managerOf'[q] \in Managers /\ (Licensed(q)' \/ crossed'[q])
  <2>1. q # r /\ managing[q] = "write" /\ managerOf[q] \in Managers
    BY <1>3, <1>4, <1>6 DEF LicensedOrCrossed
  <2>2. UNCHANGED <<flags, managerOf, needs>>
    BY DEF CommitManaged
  <2>3. CASE managerOf[q] = target[r]
    BY <2>1, <2>2, <2>3, CrossingNoticed DEF CommitManaged
  <2>4. CASE managerOf[q] # target[r]
    <3>1. managerOf[q] \in onDuty => managerOf[q] \in onDuty'
      BY <2>4 DEF CommitManaged
    <3> QED BY <1>5, <2>1, <2>2, <3>1 DEF LicensedOrCrossed, Licensed
  <2> QED BY <2>1, <2>2, <2>3, <2>4
<1>7. LicensedUnlessRace'
  BY <1>2, <1>3, <1>4, <1>5 DEF LicensedOrCrossed, LicensedUnlessRace
<1> QED BY <1>1, <1>6, <1>7 DEF LicensedOrCrossed

LEMMA OwnerKeeps ==
    ASSUME ManagersInv, NEW m \in Managers, OwnerStep(m)
    PROVE  ManagersInv'
<1> USE NoManagerAssumption DEF ManagersInv
<1>1. /\ Crossing(m, NoManager)
      /\ UNCHANGED <<managing, managerOf, needs, target, switchOn, audited, wrote>>
      /\ flags' \in [Managers -> SUBSET Permissions] /\ onDuty' \subseteq Managers
      /\ \A n \in Managers : n # m => flags'[n] = flags[n] /\ (n \in onDuty' <=> n \in onDuty)
  BY BoxesFilledAssumption DEF ManagersTypeOK, OwnerStep, OwnerGrants, OwnerSwitches
<1>2. ManagersTypeOK'
  BY <1>1, CrossingNoticed DEF ManagersTypeOK
<1>3. LicensedUnlessRace'
  BY <1>1, CrossingNoticed DEF LicensedOrCrossed, LicensedUnlessRace
<1>4. ASSUME NEW q \in ManagerForms, managing[q] = "write"
      PROVE  managerOf[q] \in Managers /\ (Licensed(q)' \/ crossed'[q])
  <2>1. CASE managerOf[q] = m
    BY <1>1, <1>4, <2>1, CrossingNoticed DEF LicensedOrCrossed
  <2>2. CASE managerOf[q] # m
    BY <1>1, <1>4, <2>2, CrossingNoticed DEF LicensedOrCrossed, Licensed
  <2> QED BY <2>1, <2>2
<1> QED BY <1>1, <1>2, <1>3, <1>4 DEF LicensedOrCrossed

LEMMA ManagersStepKeeps == ManagersInv /\ [ManagersNext]_managerVars => ManagersInv'
<1> SUFFICES ASSUME ManagersInv, [ManagersNext]_managerVars PROVE ManagersInv'
  OBVIOUS
<1>1. ASSUME NEW r \in ManagerForms, NEW m \in Managers, TerminalSetPrice(r, m) \/ TerminalPump(r, m)
      PROVE  ManagersInv'
  <2>1. \E p \in Permissions : AskPermission(r, m, p)
    BY <1>1 DEF TerminalSetPrice, TerminalPump, Permissions
  <2>2. UNCHANGED <<flags, onDuty, target, switchOn, audited, wrote, crossed>>
    BY <1>1 DEF TerminalSetPrice, TerminalPump
  <2> QED BY <2>1, <2>2, AskKeeps DEF ManagersInv, ManagersTypeOK
<1>2. ASSUME NEW r \in ManagerForms, NEW m \in Managers, NEW n \in Managers, NEW active \in BOOLEAN,
             TerminalStaffStatus(r, m, n, active)
      PROVE  ManagersInv'
  <2>1. target' \in [ManagerForms -> Managers \cup {NoManager}] /\ switchOn' \in [ManagerForms -> BOOLEAN]
    BY <1>2 DEF TerminalStaffStatus, ManagersInv, ManagersTypeOK
  <2>2. "can_manage_staff" \in Permissions
    BY DEF Permissions
  <2> QED BY <1>2, <2>1, <2>2, AskKeeps DEF TerminalStaffStatus
<1>3. ASSUME NEW r \in ManagerForms, ManagedFails(r) PROVE ManagersInv'
  BY <1>3 DEF ManagedFails, ManagersInv, ManagersTypeOK, LicensedOrCrossed, LicensedUnlessRace, Licensed
<1>4. CASE UNCHANGED managerVars
  BY <1>4 DEF managerVars, ManagersInv, ManagersTypeOK, LicensedOrCrossed, LicensedUnlessRace, Licensed
<1> QED BY <1>1, <1>2, <1>3, <1>4, CommitKeeps, OwnerKeeps DEF ManagersNext, ManagerStep

LEMMA ManagersInvHolds == ManagersSpec => []ManagersInv
<1>1. ManagersInit => ManagersInv
  BY DEF ManagersInit, ManagersInv, ManagersTypeOK, LicensedOrCrossed, LicensedUnlessRace, Permissions
<1> QED BY <1>1, ManagersStepKeeps, PTL DEF ManagersSpec

\* Every manager and every form has its type.
THEOREM ManagersTypes == ManagersSpec => []ManagersTypeOK
<1>1. ManagersInv => ManagersTypeOK
  BY DEF ManagersInv
<1> QED BY <1>1, ManagersInvHolds, PTL

\* A manager's request is carried out only for a sender who is licensed at the COMMIT, or whose
\* row was written between the question and the COMMIT.
THEOREM ManagersLicensed == ManagersSpec => []LicensedUnlessRace
<1>1. ManagersInv => LicensedUnlessRace
  BY DEF ManagersInv, LicensedOrCrossed
<1> QED BY <1>1, ManagersInvHolds, PTL

----------------------------------------------------------------------------
(* Pages that only show. *)

LEMMA StatementsAreSequences ==
    \A v \in Views : Statements[v] \in Seq(SUBSET Tables) /\ Len(Statements[v]) \in Nat
<1>1. /\ Profile \in Seq(SUBSET Tables) /\ Money \in Seq(SUBSET Tables)
      /\ RecentTickets \in Seq(SUBSET Tables) /\ People \in Seq(SUBSET Tables)
      /\ CashBook \in Seq(SUBSET Tables) /\ PriceBook \in Seq(SUBSET Tables)
  BY DEF Profile, Money, RecentTickets, People, CashBook, PriceBook, Tables
<1>2. /\ OpeningHours \in Seq(SUBSET Tables) /\ <<PumpList>> \in Seq(SUBSET Tables)
      /\ Ratings \in Seq(SUBSET Tables) /\ Trail \in Seq(SUBSET Tables)
  BY DEF OpeningHours, PumpList, Ratings, Trail, Tables
<1>3. DashboardStatements \in Seq(SUBSET Tables)
  BY <1>1, <1>2 DEF DashboardStatements
<1>4. HomeStatements \in Seq(SUBSET Tables)
  BY <1>2 DEF HomeStatements, Tables
<1>5. TerminalStatements \in Seq(SUBSET Tables)
  BY <1>2 DEF TerminalStatements, PumpList, Tables
<1>6. ConsoleStatements \in Seq(SUBSET Tables)
  BY DEF ConsoleStatements, Tables
<1>7. PlantStatements \in Seq(SUBSET Tables)
  BY <1>2 DEF PlantStatements, Tables
<1> QED BY <1>3, <1>4, <1>5, <1>6, <1>7 DEF Views, Statements

\* What a page has, it has in the order of the commits; in a transaction, nothing comes after a
\* failure, and the dashboard is only shown without one.
PanelsInOrder ==
    /\ \A i \in DOMAIN panels : panels[i].saw <= Len(commits)
    /\ \A i, j \in DOMAIN panels : i < j => panels[i].saw <= panels[j].saw
    /\ view \in InTransaction =>
         /\ \A i \in DOMAIN panels : ~panels[i].found => aborted
         /\ \A i, j \in DOMAIN panels : i < j /\ panels[j].found => panels[i].found
    /\ drawing = "wait" => Len(panels) < Len(Statements[view])
    /\ drawing = "session" => view = "terminal"
    /\ view = "owner" /\ drawing = "shown" => ~aborted /\ Len(panels) = Len(Statements[view])

DashboardInv == DashboardTypeOK /\ PanelsInOrder

\* A statement that brings something while nothing has failed, or nothing.
LEMMA PanelKeeps ==
    ASSUME DashboardInv, NEW brought \in BOOLEAN, Brings(brought),
           Len(panels) < Len(Statements[view]), UNCHANGED <<view, commits>>,
           brought => ~aborted, aborted \in BOOLEAN, aborted' \in BOOLEAN,
           aborted => aborted',
           view \in InTransaction /\ ~brought => aborted',
           drawing' = "read", firstPump' \in {"none", "ours", "other", "there"},
           staffCookie' \in BOOLEAN
    PROVE  DashboardInv'
<1> DEFINE new == [found |-> brought, saw |-> Len(commits)]
<1> USE DashboardAssumption DEF DashboardInv
<1>1. Len(Statements[view]) \in Nat
  BY StatementsAreSequences DEF DashboardTypeOK
<1>2. new \in [found : BOOLEAN, saw : 0..MaxCommits]
  BY DEF DashboardTypeOK
<1>3. panels' = Append(panels, new) /\ panels \in Seq([found : BOOLEAN, saw : 0..MaxCommits])
  BY DEF Brings, DashboardTypeOK
<1> HIDE DEF new
<1>4. /\ panels' \in Seq([found : BOOLEAN, saw : 0..MaxCommits])
      /\ Len(panels') = Len(panels) + 1 /\ Len(panels) \in Nat
      /\ \A i \in DOMAIN panels : panels'[i] = panels[i]
      /\ panels'[Len(panels) + 1] = new
      /\ DOMAIN panels = 1..Len(panels) /\ DOMAIN panels' = 1..(Len(panels) + 1)
  BY <1>2, <1>3
<1>5. new.saw = Len(commits) /\ new.found = brought
  BY DEF new
<1>6. DashboardTypeOK'
  BY <1>1, <1>4 DEF DashboardTypeOK
<1>7. \A i \in DOMAIN panels' : i \in DOMAIN panels \/ i = Len(panels) + 1
  BY <1>4
<1>8. \A i, j \in DOMAIN panels' : i < j => i \in DOMAIN panels
  BY <1>4
<1>9. \A i \in DOMAIN panels' : panels'[i].saw <= Len(commits)
  BY <1>4, <1>5, <1>7, SMTT(30) DEF PanelsInOrder, DashboardTypeOK
<1>10. \A i, j \in DOMAIN panels' : i < j => panels'[i].saw <= panels'[j].saw
  BY <1>4, <1>5, <1>7, <1>8, SMTT(30) DEF PanelsInOrder
<1>11. view \in InTransaction => \A i \in DOMAIN panels' : ~panels'[i].found => aborted'
  BY <1>4, <1>5, <1>7 DEF PanelsInOrder
<1>12. view \in InTransaction =>
         \A i, j \in DOMAIN panels' : i < j /\ panels'[j].found => panels'[i].found
  BY <1>4, <1>5, <1>7, <1>8 DEF PanelsInOrder
<1> QED BY <1>6, <1>9, <1>10, <1>11, <1>12 DEF PanelsInOrder

\* A step that brings no panel.
LEMMA WithoutPanelKeeps ==
    ASSUME DashboardInv, UNCHANGED <<view, panels, aborted, commits>>,
           drawing' \in {"begin", "read", "wait", "session", "shown", "error", "notfound"},
           firstPump' \in {"none", "ours", "other", "there"}, staffCookie' \in BOOLEAN,
           drawing' = "wait" => Len(panels) < Len(Statements[view]),
           drawing' = "session" => view = "terminal",
           view = "owner" /\ drawing' = "shown" => ~aborted /\ Len(panels) = Len(Statements[view])
    PROVE  DashboardInv'
BY DEF DashboardInv, DashboardTypeOK, PanelsInOrder

LEMMA ElementInSet ==
    ASSUME NEW S, NEW s \in Seq(S), NEW i \in DOMAIN s
    PROVE  s[i] \in S
OBVIOUS

LEMMA SawIsNatural ==
    ASSUME DashboardTypeOK, NEW i \in DOMAIN panels
    PROVE  panels[i].saw \in Nat
<1>1. panels \in Seq([found : BOOLEAN, saw : 0..MaxCommits])
  BY DEF DashboardTypeOK
<1>2. panels[i] \in [found : BOOLEAN, saw : 0..MaxCommits]
  BY <1>1, ElementInSet
<1>3. panels[i].saw \in 0..MaxCommits
  BY <1>2
<1> QED BY <1>3, DashboardAssumption

LEMMA DashboardStepKeeps == DashboardInv /\ [DashboardNext]_dashboardVars => DashboardInv'
<1> SUFFICES ASSUME DashboardInv, [DashboardNext]_dashboardVars PROVE DashboardInv'
  OBVIOUS
<1> USE DEF DashboardInv
<1>1. ASSUME NEW tables \in Transactions, OthersCommit(tables) PROVE DashboardInv'
  <2>1. commits' = Append(commits, tables) /\ Len(commits) < MaxCommits
        /\ UNCHANGED <<view, drawing, panels, aborted, firstPump, staffCookie>>
    BY <1>1 DEF OthersCommit
  <2>2. commits' \in Seq(Transactions) /\ Len(commits') = Len(commits) + 1 /\ Len(commits) \in Nat
    BY <2>1 DEF DashboardTypeOK
  <2>3. DashboardTypeOK'
    BY <2>1, <2>2, DashboardAssumption DEF DashboardTypeOK
  <2>4. \A i \in DOMAIN panels : panels[i].saw \in Nat
    BY SawIsNatural
  <2>5. \A i \in DOMAIN panels : panels[i].saw <= Len(commits')
    BY <2>2, <2>4 DEF PanelsInOrder
  <2> QED BY <2>1, <2>3, <2>5 DEF PanelsInOrder
<1>2. CASE BeginReading \/ BeginReadingFails
  BY <1>2, WithoutPanelKeeps DEF BeginReading, BeginReadingFails, WithoutPanels, DashboardTypeOK
<1>3. CASE ReadPanel
  BY <1>3, PanelKeeps DEF ReadPanel, Reading, DashboardTypeOK
<1>4. CASE PanelFails
  <2>1. CASE view = "plant" /\ panels = <<>>
    <3>1. /\ drawing' = "notfound" /\ panels' = panels /\ aborted' \in BOOLEAN
          /\ UNCHANGED <<view, commits, firstPump, staffCookie>>
      BY <1>4, <2>1 DEF PanelFails, AfterFailure, DashboardTypeOK
    <3>2. view \notin InTransaction /\ view # "owner"
      BY <2>1 DEF InTransaction
    <3> QED BY <3>1, <3>2 DEF DashboardTypeOK, PanelsInOrder
  <2>2. CASE ~(view = "plant" /\ panels = <<>>)
    <3>1. /\ Brings(FALSE) /\ drawing' = "read" /\ Len(panels) < Len(Statements[view])
          /\ UNCHANGED <<view, commits, firstPump, staffCookie>>
          /\ aborted' = (aborted \/ view \in InTransaction)
      BY <1>4, <2>2 DEF PanelFails, AfterFailure, Reading
    <3>2. aborted' \in BOOLEAN /\ aborted \in BOOLEAN /\ (aborted => aborted')
          /\ (view \in InTransaction => aborted')
      BY <3>1 DEF DashboardTypeOK
    <3> QED BY <3>1, <3>2, PanelKeeps DEF DashboardTypeOK
  <2> QED BY <2>1, <2>2
<1>5. CASE WaitForPump
  BY <1>5, WithoutPanelKeeps DEF WaitForPump, Reading, DashboardTypeOK
<1>6. CASE OtherInsertsPump \/ OtherRollsBack
  BY <1>6, WithoutPanelKeeps DEF OtherInsertsPump, OtherRollsBack, DashboardTypeOK, PanelsInOrder
<1>7. CASE OtherPumpCommits
  <2>1. CASE drawing = "wait"
    <3>1. /\ Brings(FALSE) /\ drawing' = "read" /\ Len(panels) < Len(Statements[view])
          /\ UNCHANGED <<view, commits, staffCookie>> /\ firstPump' = "there"
          /\ aborted' = (aborted \/ view \in InTransaction)
      BY <1>7, <2>1 DEF OtherPumpCommits, AfterFailure, PanelsInOrder
    <3>2. aborted' \in BOOLEAN /\ aborted \in BOOLEAN /\ (aborted => aborted')
          /\ (view \in InTransaction => aborted')
      BY <3>1 DEF DashboardTypeOK
    <3> QED BY <3>1, <3>2, PanelKeeps DEF DashboardTypeOK
  <2>2. CASE drawing # "wait"
    BY <1>7, <2>2, WithoutPanelKeeps DEF OtherPumpCommits, DashboardTypeOK, PanelsInOrder
  <2> QED BY <2>1, <2>2
<1>8. CASE EndReading
  BY <1>8, WithoutPanelKeeps DEF EndReading, AllRead, DashboardTypeOK
<1>9. CASE CommitFails
  BY <1>9, WithoutPanelKeeps DEF CommitFails, WithoutPanels, DashboardTypeOK
<1>10. CASE ResumeSession \/ DropSession
  BY <1>10, WithoutPanelKeeps DEF ResumeSession, DropSession, DashboardTypeOK, PanelsInOrder
<1>11. CASE UNCHANGED dashboardVars
  BY <1>11 DEF dashboardVars, DashboardTypeOK, PanelsInOrder
<1> QED BY <1>1, <1>2, <1>3, <1>4, <1>5, <1>6, <1>7, <1>8, <1>9, <1>10, <1>11 DEF DashboardNext

LEMMA DashboardInvHolds == DashboardSpec => []DashboardInv
<1>1. DashboardInit => DashboardInv
  <2> SUFFICES ASSUME DashboardInit PROVE DashboardInv
    OBVIOUS
  <2>1. Len(panels) = 0 /\ DOMAIN panels = {} /\ Len(commits) = 0
    BY DEF DashboardInit
  <2>2. Len(Statements[view]) \in Nat /\ view \in Views
    BY StatementsAreSequences DEF DashboardInit
  <2>3. panels \in Seq([found : BOOLEAN, saw : 0..MaxCommits]) /\ commits \in Seq(Transactions)
    BY DEF DashboardInit
  <2>4. /\ drawing = "begin" /\ aborted = FALSE /\ staffCookie \in BOOLEAN
        /\ firstPump \in {"none", "ours", "other", "there"}
    BY DEF DashboardInit
  <2>5. 0 <= Len(Statements[view]) /\ 0 <= MaxCommits
    BY <2>2, StatementsAreSequences, DashboardAssumption
  <2>6. DashboardTypeOK
    BY <2>1, <2>2, <2>3, <2>4, <2>5 DEF DashboardTypeOK
  <2> QED BY <2>1, <2>6 DEF DashboardInit, DashboardInv, PanelsInOrder
<1> QED BY <1>1, DashboardStepKeeps, PTL DEF DashboardSpec

\* A page and what it shows have their types.
THEOREM DashboardTypes == DashboardSpec => []DashboardTypeOK
<1>1. DashboardInv => DashboardTypeOK
  BY DEF DashboardInv
<1> QED BY <1>1, DashboardInvHolds, PTL

\* However many transactions commit while a page is made and wherever it fails: a dashboard that
\* is shown is whole, a plant's page is empty from some panel on or not at all, and a later panel
\* knows of every transaction that an earlier one shows.
THEOREM PagesHoldTogether == DashboardSpec => []PageHoldsTogether
<1>1. DashboardInv => PageHoldsTogether
  <2> SUFFICES ASSUME DashboardInv PROVE PageHoldsTogether
    OBVIOUS
  <2>1. DashboardIsWhole
    <3>1. Statements["owner"] = DashboardStatements /\ "owner" \in InTransaction
      BY DEF Statements, InTransaction
    <3> QED BY <3>1 DEF DashboardInv, PanelsInOrder, DashboardIsWhole
  <2>2. MissingToTheEnd
    BY DEF DashboardInv, PanelsInOrder, MissingToTheEnd
  <2>3. LaterPanelsKnowMore
    <3>1. \A i \in DOMAIN panels : panels[i].saw \in Nat
      BY SawIsNatural DEF DashboardInv
    <3>2. \A k \in DOMAIN commits : k \in Nat
      BY DEF DashboardInv, DashboardTypeOK
    <3>3. \A i, j \in DOMAIN panels : i < j => panels[i].saw <= panels[j].saw
      BY DEF DashboardInv, PanelsInOrder
    <3> QED BY <3>1, <3>2, <3>3 DEF LaterPanelsKnowMore, PanelShows
  <2> QED BY <2>1, <2>2, <2>3 DEF PageHoldsTogether
<1> QED BY <1>1, DashboardInvHolds, PTL

----------------------------------------------------------------------------
(* The migration runner. *)

LEMMA NextFileTypes ==
    ASSUME MigrationTypeOK, NEW r \in Runners, running[r] \in {"look", "apply"}, NextFile(r)
    PROVE  /\ running' \in [Runners -> {"idle", "look", "apply", "complete", "failed"}]
           /\ at' \in [Runners -> 1 .. LastFile + 1]
           /\ \A o \in Runners : running'[o] \in {"look", "apply"} => at'[o] \in Files
<1>1. at[r] \in 1 .. LastFile /\ at[r] + 1 \in 1 .. LastFile + 1
  BY LastFileAssumption DEF MigrationTypeOK, Files
<1>2. /\ at' = [at EXCEPT ![r] = at[r] + 1]
      /\ running' = [running EXCEPT ![r] = IF at[r] = LastFile THEN "complete" ELSE "look"]
  BY DEF NextFile
<1>3. \A o \in Runners : o # r => running'[o] = running[o] /\ at'[o] = at[o]
  BY <1>2
<1>4. running'[r] \in {"look", "apply"} => at'[r] \in Files
  BY <1>1, <1>2, LastFileAssumption DEF MigrationTypeOK, Files
<1>5. \A o \in Runners : running'[o] \in {"look", "apply"} => at'[o] \in Files
  BY <1>3, <1>4 DEF MigrationTypeOK
<1> QED BY <1>1, <1>2, <1>5 DEF MigrationTypeOK

LEMMA MigrationTypesStep == MigrationTypeOK /\ [MigrationNext]_migrationVars => MigrationTypeOK'
<1> SUFFICES ASSUME MigrationTypeOK, [MigrationNext]_migrationVars PROVE MigrationTypeOK'
  OBVIOUS
<1> DEFINE
      Typed ==
        /\ recorded \subseteq Files
        /\ bodies \in [Files -> Nat]
        /\ running \in [Runners -> {"idle", "look", "apply", "complete", "failed"}]
        /\ command \in [Runners -> Commands]
        /\ at \in [Runners -> 1 .. LastFile + 1]
        /\ \A r \in Runners : running[r] \in {"look", "apply"} => at[r] \in Files
<1>0. Typed
  BY DEF MigrationTypeOK
<1>1. ASSUME NEW r \in Runners, NEW c \in Commands, StartMigrate(r, c) PROVE Typed'
  BY <1>0, <1>1, LastFileAssumption DEF StartMigrate, Files
<1>2. ASSUME NEW r \in Runners, SkipFile(r) PROVE Typed'
  BY <1>0, <1>2, NextFileTypes DEF SkipFile
<1>3. ASSUME NEW r \in Runners, LookUp(r) PROVE Typed'
  BY <1>0, <1>3 DEF LookUp
<1>4. ASSUME NEW r \in Runners, ApplyOne(r) PROVE Typed'
  <2>1. at[r] \in Files /\ bodies' = [bodies EXCEPT ![at[r]] = bodies[at[r]] + 1]
    BY <1>0, <1>4 DEF ApplyOne
  <2>2. bodies' \in [Files -> Nat] /\ recorded' \subseteq Files
    BY <1>0, <1>4, <2>1 DEF ApplyOne
  <2> QED BY <1>0, <1>4, <2>2, NextFileTypes DEF ApplyOne
<1>5. ASSUME NEW r \in Runners, MigrateFails(r) PROVE Typed'
  BY <1>0, <1>5 DEF MigrateFails
<1>6. CASE UNCHANGED migrationVars
  BY <1>6 DEF migrationVars, MigrationTypeOK
<1>7. ASSUME MigrationNext PROVE MigrationTypeOK'
  <2>1. Typed'
    BY <1>1, <1>2, <1>3, <1>4, <1>5, <1>7 DEF MigrationNext, MigrateStep
  <2>2. production' = production
    BY <1>7 DEF MigrationNext, MigrateStep, StartMigrate, SkipFile, LookUp, ApplyOne, MigrateFails
  <2> QED BY <2>1, <2>2 DEF MigrationTypeOK
<1> QED BY <1>6, <1>7

\* Every process has its type, and is at a file while it runs.
THEOREM MigrationTypes == MigrationSpec => []MigrationTypeOK
<1>1. MigrationInit => MigrationTypeOK
  BY LastFileAssumption DEF MigrationInit, MigrationTypeOK, Files, Commands
<1> QED BY <1>1, MigrationTypesStep, PTL DEF MigrationSpec

----------------------------------------------------------------------------
(* A process has behind it every file it wants; that is why it may apply   *)
(* the next one.                                                           *)

\* The files of process r's command.
Wants == [r \in Runners |-> {v \in Files : Wanted(r, v)}]

AppliesWanted == \A r \in Runners : running[r] = "apply" => at[r] \in Wants[r]

BehindIt ==
    \A r \in Runners :
        running[r] \in {"look", "apply"} => \A u \in Wants[r] : u < at[r] => u \in recorded

CompleteHasAll == \A r \in Runners : running[r] = "complete" => Wants[r] \subseteq recorded

RecordedOnce == \A v \in Files : bodies[v] = (IF v \in recorded THEN 1 ELSE 0)

RecordedInOrder == \A v \in recorded \ SeedFiles : \A u \in 1 .. v : u \in recorded \cup SeedFiles

Migrated == AppliesWanted /\ BehindIt /\ CompleteHasAll /\ RecordedOnce /\ RecordedInOrder

LEMMA FilesAreNumbers ==
    /\ \A u \in Files : u \in Nat /\ u >= 1 /\ u <= LastFile
    /\ LastFile \in Nat
    /\ \A v \in Files : \A u \in 1 .. v : u \in Files /\ u <= v
BY LastFileAssumption DEF Files

LEMMA WantsStay ==
    ASSUME command' = command
    PROVE  Wants' = Wants
BY DEF Wants, Wanted

\* Who wants a file of the schema wants all of them.
LEMMA WantsSchema ==
    ASSUME NEW r \in Runners, NEW v \in Wants[r], v \notin SeedFiles
    PROVE  Wants[r] \subseteq Files /\ Files \ SeedFiles \subseteq Wants[r]
BY DEF Wants, Wanted

\* The file r is done with, or skips, is behind it too.
LEMMA NextFileKeeps ==
    ASSUME MigrationTypeOK, AppliesWanted, BehindIt, CompleteHasAll,
           NEW r \in Runners, running[r] \in {"look", "apply"}, NextFile(r), command' = command,
           recorded \subseteq recorded', at[r] \in Wants[r] => at[r] \in recorded'
    PROVE  AppliesWanted' /\ BehindIt' /\ CompleteHasAll'
<1>1. \A o \in Runners : o # r => running'[o] = running[o] /\ at'[o] = at[o]
  BY DEF NextFile, MigrationTypeOK
<1>2. /\ at'[r] = at[r] + 1 /\ at[r] \in Files
      /\ running'[r] \in {"look", "complete"}
      /\ running'[r] = "complete" => at[r] = LastFile
  BY DEF NextFile, MigrationTypeOK
<1>3. Wants' = Wants /\ Wants[r] \subseteq Files
  BY WantsStay DEF Wants
<1>4. \A u \in Wants[r] : u < at[r] + 1 => u \in recorded'
  <2> SUFFICES ASSUME NEW u \in Wants[r], u < at[r] + 1 PROVE u \in recorded'
    OBVIOUS
  <2>1. u \in Nat /\ at[r] \in Nat
    BY <1>2, <1>3, FilesAreNumbers
  <2>2. u = at[r] \/ u < at[r]
    BY <2>1
  <2> QED BY <2>2 DEF BehindIt
<1>5. AppliesWanted'
  BY <1>1, <1>2, <1>3 DEF AppliesWanted
<1>6. BehindIt'
  BY <1>1, <1>2, <1>3, <1>4 DEF BehindIt
<1>7. CompleteHasAll'
  <2>1. running'[r] = "complete" => Wants[r] \subseteq recorded'
    BY <1>2, <1>3, <1>4, FilesAreNumbers
  <2> QED BY <2>1, <1>1, <1>3 DEF CompleteHasAll
<1> QED BY <1>5, <1>6, <1>7

LEMMA MigratedStep == MigrationTypeOK /\ Migrated /\ [MigrationNext]_migrationVars => Migrated'
<1> SUFFICES ASSUME MigrationTypeOK, Migrated, [MigrationNext]_migrationVars PROVE Migrated'
  OBVIOUS
<1> USE DEF Migrated
<1>1. ASSUME NEW r \in Runners, NEW c \in Commands, StartMigrate(r, c) PROVE Migrated'
  <2>1. /\ running'[r] = "look" /\ at'[r] = 1
        /\ \A o \in Runners : o # r => running'[o] = running[o] /\ at'[o] = at[o] /\ command'[o] = command[o]
        /\ UNCHANGED <<recorded, bodies>>
    BY <1>1 DEF StartMigrate, MigrationTypeOK
  <2>2. \A o \in Runners : o # r => Wants'[o] = Wants[o]
    BY <2>1 DEF Wants, Wanted
  <2>3. \A u \in Wants'[r] : ~(u < 1)
    BY FilesAreNumbers DEF Wants, Files
  <2>4. AppliesWanted' /\ CompleteHasAll'
    BY <2>1, <2>2 DEF AppliesWanted, CompleteHasAll
  <2>5. BehindIt'
    BY <2>1, <2>2, <2>3 DEF BehindIt
  <2> QED BY <2>1, <2>4, <2>5 DEF RecordedOnce, RecordedInOrder
<1>2. ASSUME NEW r \in Runners, SkipFile(r) PROVE Migrated'
  <2>1. /\ running[r] = "look" /\ NextFile(r)
        /\ UNCHANGED <<recorded, bodies, command>>
        /\ at[r] \in Wants[r] => at[r] \in recorded
    BY <1>2 DEF SkipFile, Wants
  <2>2. AppliesWanted' /\ BehindIt' /\ CompleteHasAll'
    BY <2>1, NextFileKeeps
  <2> QED BY <2>1, <2>2 DEF RecordedOnce, RecordedInOrder
<1>3. ASSUME NEW r \in Runners, LookUp(r) PROVE Migrated'
  <2>1. /\ running[r] = "look"
        /\ running' = [running EXCEPT ![r] = "apply"]
        /\ UNCHANGED <<recorded, bodies, command, at>>
        /\ at[r] \in Wants[r]
    BY <1>3 DEF LookUp, Wants, MigrationTypeOK
  <2>2. Wants' = Wants
    BY <2>1, WantsStay
  <2>3. AppliesWanted' /\ BehindIt' /\ CompleteHasAll'
    BY <2>1, <2>2 DEF AppliesWanted, BehindIt, CompleteHasAll, MigrationTypeOK
  <2> QED BY <2>1, <2>3 DEF RecordedOnce, RecordedInOrder
<1>4. ASSUME NEW r \in Runners, ApplyOne(r) PROVE Migrated'
  <2>1. /\ running[r] = "apply" /\ at[r] \in Files /\ at[r] \notin recorded
        /\ recorded' = recorded \cup {at[r]}
        /\ bodies' = [bodies EXCEPT ![at[r]] = bodies[at[r]] + 1]
        /\ NextFile(r) /\ command' = command
    BY <1>4 DEF ApplyOne, Recordable, MigrationTypeOK
  <2>2. AppliesWanted' /\ BehindIt' /\ CompleteHasAll'
    BY <2>1, NextFileKeeps
  <2>3. RecordedOnce'
    <3>1. \A v \in Files : v # at[r] => bodies'[v] = bodies[v]
      BY <2>1 DEF MigrationTypeOK
    <3>2. bodies'[at[r]] = bodies[at[r]] + 1
      BY <2>1 DEF MigrationTypeOK
    <3>3. bodies[at[r]] = 0
      BY <2>1 DEF RecordedOnce
    <3> QED BY <2>1, <3>1, <3>2, <3>3 DEF RecordedOnce
  <2>4. RecordedInOrder'
    <3> SUFFICES ASSUME NEW v \in recorded' \ SeedFiles, NEW u \in 1 .. v
                 PROVE  u \in recorded' \cup SeedFiles
      BY DEF RecordedInOrder
    <3>1. CASE v \in recorded
      BY <3>1, <2>1 DEF RecordedInOrder
    <3>2. CASE v = at[r]
      <4>1. u \in Files /\ (u = at[r] \/ u < at[r])
        BY <3>2, <2>1, FilesAreNumbers
      <4>2. at[r] \in Wants[r]
        BY <2>1 DEF AppliesWanted
      <4>3. u \notin SeedFiles => u \in Wants[r]
        BY <3>2, <4>1, <4>2, WantsSchema
      <4> QED BY <4>1, <4>3, <2>1 DEF BehindIt
    <3> QED BY <3>1, <3>2, <2>1
  <2> QED BY <2>2, <2>3, <2>4
<1>5. ASSUME NEW r \in Runners, MigrateFails(r) PROVE Migrated'
  <2>1. Wants' = Wants
    BY <1>5, WantsStay DEF MigrateFails
  <2>2. AppliesWanted' /\ BehindIt' /\ CompleteHasAll'
    BY <1>5, <2>1 DEF MigrateFails, AppliesWanted, BehindIt, CompleteHasAll, MigrationTypeOK
  <2> QED BY <1>5, <2>2 DEF MigrateFails, RecordedOnce, RecordedInOrder
<1>6. CASE UNCHANGED migrationVars
  BY <1>6, WantsStay DEF migrationVars, AppliesWanted, BehindIt, CompleteHasAll, RecordedOnce, RecordedInOrder
<1> QED BY <1>1, <1>2, <1>3, <1>4, <1>5, <1>6 DEF MigrationNext, MigrateStep

\* However many processes migrate and wherever they fail, schema_migrations says what is in the
\* database, in order, and "migrations complete" means all of it.
THEOREM SchemasAsRecorded == MigrationSpec => []SchemaAsRecorded
<1>1. MigrationInit => Migrated
  BY DEF MigrationInit, Migrated, AppliesWanted, BehindIt, CompleteHasAll, RecordedOnce, RecordedInOrder
<1>2. Migrated => SchemaAsRecorded
  <2> SUFFICES ASSUME Migrated PROVE SchemaAsRecorded
    OBVIOUS
  <2>1. \A v \in Files : bodies[v] = (IF v \in recorded THEN 1 ELSE 0)
    BY DEF Migrated, RecordedOnce
  <2>2. \A v \in recorded \ SeedFiles : \A u \in 1 .. v : u \in recorded \cup SeedFiles
    BY DEF Migrated, RecordedInOrder
  <2>3. \A r \in Runners : running[r] = "complete" => \A v \in Files : Wanted(r, v) => v \in recorded
    BY DEF Migrated, CompleteHasAll, Wants
  <2> QED BY <2>1, <2>2, <2>3 DEF SchemaAsRecorded
<1> QED BY <1>1, <1>2, MigratedStep, MigrationTypes, PTL DEF MigrationSpec

----------------------------------------------------------------------------
(* The composition. *)

\* A step of MCOffice is, of each part, one of the part's own steps, or leaves the part alone.
LEMMA OfficeSteps ==
    [Next]_vars => /\ [OnboardingNext]_onboardingVars /\ [BuyerNext]_buyerVars
                   /\ [AccountNext]_accountVars /\ [RosterNext]_rosterVars
                   /\ [PriceNext]_priceVars /\ [HoursNext]_hoursVars
                   /\ [ReviewsNext]_reviewsVars /\ [BankNext]_bankVars
                   /\ [MigrationNext]_migrationVars /\ [AdminsNext]_adminVars
                   /\ [LogoNext]_logoVars /\ [ManagersNext]_managerVars
                   /\ [SiteNext]_siteVars /\ [DashboardNext]_dashboardVars
<1> DEFINE Steps == /\ [OnboardingNext]_onboardingVars /\ [BuyerNext]_buyerVars
                    /\ [AccountNext]_accountVars /\ [RosterNext]_rosterVars
                    /\ [PriceNext]_priceVars /\ [HoursNext]_hoursVars
                    /\ [ReviewsNext]_reviewsVars /\ [BankNext]_bankVars
                    /\ [MigrationNext]_migrationVars /\ [AdminsNext]_adminVars
                    /\ [LogoNext]_logoVars /\ [ManagersNext]_managerVars
                    /\ [SiteNext]_siteVars /\ [DashboardNext]_dashboardVars
<1>0. CASE UNCHANGED vars
  BY <1>0 DEF vars
<1>1. CASE Part("applications", \E f \in Forms : CreateStep(f))
  <2>1. OnboardingNext
    BY <1>1, ReviewedFormsAssumption DEF Part, OnboardingNext
  <2> QED BY <1>1, <2>1 DEF Part, AtRest
<1>2. CASE Part("approvals", \E f \in ReviewedForms : CreateStep(f))
  <2>1. OnboardingNext
    BY <1>2, ReviewedFormsAssumption DEF Part, OnboardingNext
  <2> QED BY <1>2, <2>1 DEF Part, AtRest
<1>3. CASE Part("approvals", \E q \in Settlings : SettleStep(q))
  <2>1. OnboardingNext
    BY <1>3, ReviewedFormsAssumption DEF Part, OnboardingNext
  <2> QED BY <1>3, <2>1 DEF Part, AtRest
<1>4. CASE Part("approvals", \E r \in StatusForms : ReviewStep(r))
  <2>1. OnboardingNext
    BY <1>4, ReviewedFormsAssumption DEF Part, OnboardingNext
  <2> QED BY <1>4, <2>1 DEF Part, AtRest
<1>5. CASE Part("buyers", BuyerNext)
  BY <1>5 DEF Part, AtRest
<1>6. CASE Part("accounts", AccountNext)
  BY <1>6 DEF Part, AtRest
<1>7. CASE Part("roster", RosterNext)
  BY <1>7 DEF Part, AtRest
<1>8. CASE Part("prices", PriceNext)
  BY <1>8 DEF Part, AtRest
<1>9. CASE Part("hours", HoursNext)
  BY <1>9 DEF Part, AtRest
<1>10. CASE Part("reviews", ReviewsNext)
  BY <1>10 DEF Part, AtRest
<1>11. CASE Part("banks", BankNext)
  BY <1>11 DEF Part, AtRest
<1>12. CASE Part("migrations", MigrationNext)
  BY <1>12 DEF Part, AtRest
<1>13. CASE Part("admins", AdminsNext)
  BY <1>13 DEF Part, AtRest
<1>14. CASE Part("logos", LogoNext)
  BY <1>14 DEF Part, AtRest
<1>15. CASE Part("managers", ManagersNext)
  BY <1>15 DEF Part, AtRest
<1>16. CASE Part("site", SiteNext)
  BY <1>16 DEF Part, AtRest
<1>17. CASE Part("dashboard", DashboardNext)
  BY <1>17 DEF Part, AtRest
<1> QED BY <1>0, <1>1, <1>2, <1>3, <1>4, <1>5, <1>6, <1>7, <1>8, <1>9,
           <1>10, <1>11, <1>12, <1>13, <1>14, <1>15, <1>16, <1>17 DEF Next

\* What is explored together is, of each part, the part's own specification.
THEOREM OfficeCompose ==
    Spec => /\ OnboardingSpec /\ BuyerSpec /\ AccountSpec /\ RosterSpec /\ PriceSpec
            /\ HoursSpec /\ ReviewsSpec /\ BankSpec /\ MigrationSpec /\ AdminsSpec
            /\ LogoSpec /\ ManagersSpec /\ SiteSpec /\ DashboardSpec
<1>1. Init => /\ OnboardingInit /\ BuyerInit /\ AccountInit /\ RosterInit /\ PriceInit
              /\ HoursInit /\ ReviewsInit /\ BankInit /\ MigrationInit /\ AdminsInit
              /\ LogoInit /\ ManagersInit /\ SiteInit /\ DashboardInit
  BY DEF Init
<1> QED BY <1>1, OfficeSteps, PTL
        DEF Spec, OnboardingSpec, BuyerSpec, AccountSpec, RosterSpec, PriceSpec, HoursSpec,
            ReviewsSpec, BankSpec, MigrationSpec, AdminsSpec, LogoSpec, ManagersSpec, SiteSpec,
            DashboardSpec

\* Every variable of every part keeps its type.
THEOREM OfficeTypes == Spec => []OfficeTypeOK
<1>1. /\ OnboardingTypeOK /\ BuyerTypeOK /\ AccountTypeOK /\ RosterTypeOK /\ PriceTypeOK
      /\ HoursTypeOK /\ ReviewsTypeOK /\ BankTypeOK /\ MigrationTypeOK /\ AdminsTypeOK
      /\ LogoTypeOK /\ ManagersTypeOK /\ SiteTypeOK /\ DashboardTypeOK
      => OfficeTypeOK
  BY DEF OfficeTypeOK
<1> QED BY <1>1, OfficeCompose, OnboardingTypes, BuyerTypes, AccountTypes, RosterTypes,
           PriceTypes, HoursTypes, ReviewsTypes, BankTypes, MigrationTypes, AdminsTypes,
           LogosTypes, ManagersTypes, SiteTypes, DashboardTypes, PTL

\* Every part keeps what it promises when all are composed.
THEOREM OfficeKept ==
    Spec => /\ [](/\ ActiveIsSettled /\ NoticeTwiceOnlyByRace /\ PasswordsGuarded
                  /\ PINSharedOnlyByRace /\ TakesEffectUnlessRace /\ HoursAsEntered /\ ReviewKept
                  /\ ListIsRecent /\ SchemaAsRecorded /\ LastAdminStaysUnlessRace
                  /\ OneLogoUnlessRace /\ LicensedUnlessRace /\ AnsweredForACause
                  /\ PageHoldsTogether)
            /\ RanksInTurn /\ OffersInTurn /\ SessionStaysEnded
BY OfficeCompose, RanksGoInTurn, OffersGoInTurn, SessionsStayEnded, ActiveAreSettled,
   NoticesTwiceOnlyByRace, PasswordsAreGuarded, PINsSharedOnlyByRace, PricesTakeEffect,
   HoursAreAsEntered, ReviewsKept, ListsAreRecent, SchemasAsRecorded, LastAdminsStay,
   OneLogosUnlessRace, ManagersLicensed, AnswersHaveCauses, PagesHoldTogether, PTL
=============================================================================
