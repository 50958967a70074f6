----------------------------- MODULE BankCache ------------------------------
(***************************************************************************)
(* The list of banks every form with a bank shows.  BanksWithFallback      *)
(* keeps Paystack's list for a while; it looks at its cache under a mutex, *)
(* fetches WITHOUT it and stores what it got under it again, so answers of *)
(* concurrent fetches may be stored in either order.                       *)
(*                                                                         *)
(* Lists are numbered as Paystack publishes them.                          *)
(***************************************************************************)
EXTENDS Integers

CONSTANTS
    Renders,     \* pages that may be under way
    BankTTL,     \* bankListTTL, in ticks
    MaxLists     \* bound: lists Paystack publishes

ASSUME BankTTLAssumption == BankTTL \in Nat \ {0}
ASSUME MaxListsAssumption == MaxLists \in Nat \ {0}

Lists == 1 .. MaxLists
Fallback == 0

VARIABLES
    liveList,   \* the list Paystack has
    cached,     \* bankListCache, 0 for none
    age,        \* the time since bankListCachedAt, counted up to BankTTL
    rendering,  \* rendering[r]: what page r does next
    served,     \* served[r]: the list page r got last: fetched, and in the end shown
    outFor      \* history: outFor[b]: the time since Paystack replaced list b, counted up to BankTTL + 1

bankVars == <<liveList, cached, age, rendering, served, outFor>>

\* Mutant: a list once cached is good for ever.
HasCache == cached # Fallback

\* The cache holds a list, and it is not too old.
Fresh == cached # Fallback /\ age < BankTTL

Render(r) ==
    /\ rendering[r] = "idle"
    /\ rendering' = [rendering EXCEPT ![r] = IF Fresh THEN "idle" ELSE "fetch"]
    /\ served' = [served EXCEPT ![r] = IF Fresh THEN cached ELSE Fallback]
    /\ UNCHANGED <<liveList, cached, age, outFor>>

ListBanks(r) ==
    /\ rendering[r] = "fetch"
    /\ rendering' = [rendering EXCEPT ![r] = "store"]
    /\ served' = [served EXCEPT ![r] = liveList]
    /\ UNCHANGED <<liveList, cached, age, outFor>>

\* Paystack fails or answers an empty list: the page shows the built-in one, and a list that was
\* cached is not used.
ListBanksFails(r) ==
    /\ rendering[r] = "fetch"
    /\ rendering' = [rendering EXCEPT ![r] = "idle"]
    /\ UNCHANGED <<liveList, cached, age, served, outFor>>

StoreBanks(r) ==
    /\ rendering[r] = "store"
    /\ cached' = served[r]
    /\ age' = 0
    /\ rendering' = [rendering EXCEPT ![r] = "idle"]
    /\ UNCHANGED <<liveList, served, outFor>>

PublishList ==
    /\ liveList < MaxLists
    /\ liveList' = liveList + 1
    /\ UNCHANGED <<cached, age, rendering, served, outFor>>

\* One unit of time.  An answer that has come is stored before it passes; a page that has been
\* shown is forgotten.
BankTick ==
    /\ \A r \in Renders : rendering[r] # "store"
    /\ age' = IF age < BankTTL THEN age + 1 ELSE age
    /\ outFor' = [b \in Lists |-> IF b < liveList /\ outFor[b] <= BankTTL THEN outFor[b] + 1 ELSE outFor[b]]
    /\ served' = [r \in Renders |-> Fallback]
    /\ UNCHANGED <<liveList, cached, rendering>>

BankInit ==
    /\ liveList = 1
    /\ cached = Fallback
    /\ age = BankTTL
    /\ rendering = [r \in Renders |-> "idle"]
    /\ served = [r \in Renders |-> Fallback]
    /\ outFor = [b \in Lists |-> 0]

RenderStep(r) == Render(r) \/ ListBanks(r) \/ ListBanksFails(r) \/ StoreBanks(r)

BankNext ==
    \/ \E r \in Renders : RenderStep(r)
    \/ PublishList
    \/ BankTick

BankSpec == BankInit /\ [][BankNext]_bankVars

----------------------------------------------------------------------------
(* Properties. *)

BankTypeOK ==
    /\ liveList \in Lists
    /\ cached \in Lists \cup {Fallback}
    /\ age \in 0 .. BankTTL
    /\ rendering \in [Renders -> {"idle", "fetch", "store"}]
    /\ served \in [Renders -> Lists \cup {Fallback}]
    /\ outFor \in [Lists -> 0 .. BankTTL + 1]

\* "Cached in-memory for bankListTTL": a page that shows a list of Paystack's shows one that was
\* the current list at most bankListTTL ago, though an older answer may be stored over a newer.
ListIsRecent == \A r \in Renders : served[r] # Fallback => outFor[served[r]] <= BankTTL
=============================================================================
