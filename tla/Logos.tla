------------------------------- MODULE Logos --------------------------------
(***************************************************************************)
(* Logo files.  SaveLogo writes logo.<type> into the directory of a SLUG,  *)
(* over whatever is there, before the form that carries it is accepted:    *)
(* the row of a new plant, or the settings of an existing one, is written  *)
(* afterwards, and may be refused.                                         *)
(***************************************************************************)
EXTENDS Integers, FiniteSets

CONSTANTS
    LogoForms,  \* forms with a logo
    LogoSlugs,
    LogoTypes,  \* .png, .jpg, ...
    NoLogo      \* no file, no path, no slug

ASSUME NoLogoAssumption == NoLogo \notin LogoForms \cup LogoTypes \cup LogoSlugs

VARIABLES
    logoPlants,  \* the slugs that have a plant
    logoPath,    \* logoPath[s]: the type in the plant's logo_path
    files,       \* files[s][t]: the form whose logo is in the file
    logoStep,    \* logoStep[u]: what form u does next, or how it ended
    slugFor,     \* slugFor[u]: its slug
    typeFor,     \* typeFor[u]: its logo's type
    creates,     \* creates[u]: it is an administrator's form for a new plant
    mixed        \* history: the slugs two forms with a logo used at once

logoVars == <<logoPlants, logoPath, files, logoStep, slugFor, typeFor, creates, mixed>>

Writing(s) == {u \in LogoForms : logoStep[u] \in {"clear", "write"} /\ slugFor[u] = s}

\* The fields are valid and the logo is of a known type.  Nobody has looked whether the slug is
\* free.  Only an owner changes the settings of a plant.
SubmitLogo(u, s, t, new) ==
    /\ logoStep[u] = "idle"
    /\ new \/ s \in logoPlants
    /\ logoStep' = [logoStep EXCEPT ![u] = "clear"]
    /\ slugFor' = [slugFor EXCEPT ![u] = s]
    /\ typeFor' = [typeFor EXCEPT ![u] = t]
    /\ creates' = [creates EXCEPT ![u] = new]
    /\ mixed' = IF Writing(s) = {} THEN mixed ELSE mixed \cup {s}
    /\ UNCHANGED <<logoPlants, logoPath, files>>

\* Mutant: only the file of the same type is replaced.
NoneRemoved(u) == {}

\* The types whose files SaveLogo removes.
RemovedTypes(u) == LogoTypes \ {typeFor[u]}

RemoveOthers(u) ==
    /\ logoStep[u] = "clear"
    /\ files' = [files EXCEPT ![slugFor[u]] =
                   [t \in LogoTypes |-> IF t \in RemovedTypes(u) THEN NoLogo ELSE @[t]]]
    /\ logoStep' = [logoStep EXCEPT ![u] = "write"]
    /\ UNCHANGED <<logoPlants, logoPath, slugFor, typeFor, creates, mixed>>

WriteLogo(u) ==
    /\ logoStep[u] = "write"
    /\ files' = [files EXCEPT ![slugFor[u]][typeFor[u]] = u]
    /\ logoStep' = [logoStep EXCEPT ![u] = "save"]
    /\ UNCHANGED <<logoPlants, logoPath, slugFor, typeFor, creates, mixed>>

\* The disk fails, or the file turns out too large: the file it had begun to replace is removed.
WriteLogoFails(u) ==
    /\ logoStep[u] = "write"
    /\ files' = [files EXCEPT ![slugFor[u]][typeFor[u]] = NoLogo]
    /\ logoStep' = [logoStep EXCEPT ![u] = "failed"]
    /\ UNCHANGED <<logoPlants, logoPath, slugFor, typeFor, creates, mixed>>

\* The plant is created, or its settings are saved.
SavePlant(u) ==
    /\ logoStep[u] = "save"
    /\ creates[u] => slugFor[u] \notin logoPlants
    /\ logoPlants' = logoPlants \cup {slugFor[u]}
    /\ logoPath' = [logoPath EXCEPT ![slugFor[u]] = typeFor[u]]
    /\ logoStep' = [logoStep EXCEPT ![u] = "accepted"]
    /\ UNCHANGED <<files, slugFor, typeFor, creates, mixed>>

\* The slug is taken, Paystack does not know the account, or a statement fails.
SavePlantFails(u) ==
    /\ logoStep[u] = "save"
    /\ logoStep' = [logoStep EXCEPT ![u] = "failed"]
    /\ UNCHANGED <<logoPlants, logoPath, files, slugFor, typeFor, creates, mixed>>

\* Plants may have been created without a logo.
LogoInit ==
    /\ logoPlants \in SUBSET LogoSlugs
    /\ logoPath = [s \in LogoSlugs |-> NoLogo]
    /\ files = [s \in LogoSlugs |-> [t \in LogoTypes |-> NoLogo]]
    /\ logoStep = [u \in LogoForms |-> "idle"]
    /\ slugFor = [u \in LogoForms |-> NoLogo]
    /\ typeFor = [u \in LogoForms |-> NoLogo]
    /\ creates = [u \in LogoForms |-> FALSE]
    /\ mixed = {}

LogoFormStep(u) ==
    \/ \E s \in LogoSlugs, t \in LogoTypes, new \in BOOLEAN : SubmitLogo(u, s, t, new)
    \/ RemoveOthers(u)
    \/ WriteLogo(u)
    \/ WriteLogoFails(u)
    \/ SavePlant(u)
    \/ SavePlantFails(u)

LogoNext == \E u \in LogoForms : LogoFormStep(u)

LogoSpec == LogoInit /\ [][LogoNext]_logoVars

----------------------------------------------------------------------------
(* Properties. *)

LogoTypeOK ==
    /\ logoPlants \subseteq LogoSlugs
    /\ logoPath \in [LogoSlugs -> LogoTypes \cup {NoLogo}]
    /\ files \in [LogoSlugs -> [LogoTypes -> LogoForms \cup {NoLogo}]]
    /\ logoStep \in [LogoForms -> {"idle", "clear", "write", "save", "accepted", "failed"}]
    /\ slugFor \in [LogoForms -> LogoSlugs \cup {NoLogo}]
    /\ typeFor \in [LogoForms -> LogoTypes \cup {NoLogo}]
    /\ creates \in [LogoForms -> BOOLEAN]
    /\ mixed \subseteq LogoSlugs

\* "So exactly one logo file exists at a time" (uploads.SaveLogo): a slug has files of two types
\* only if two logos for it were written at once.
OneLogoUnlessRace ==
    \A s \in LogoSlugs \ mixed : Cardinality({t \in LogoTypes : files[s][t] # NoLogo}) <= 1

\* "Both are simply left orphaned -- harmless (costs nothing, references nothing)"
\* (provisionPlant): the file of a new plant's form that failed is not the one a plant's logo_path names.
OrphansReferenceNothing ==
    \A s \in logoPlants : logoPath[s] # NoLogo =>
        \A u \in LogoForms : creates[u] /\ logoStep[u] = "failed" => files[s][logoPath[s]] # u
=============================================================================
