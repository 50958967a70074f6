--------------------------- MODULE AccountsProofs ---------------------------
(***************************************************************************)
(* Proofs, for any number of links, forms and logins, of the properties of *)
(* Accounts that its run checks on small instances.                        *)
(***************************************************************************)
EXTENDS Accounts, TLAPS

USE DEF Passwords

----------------------------------------------------------------------------
(* Types. *)

\* A session is written only for a login there is.
LEMMA AccountTypesInit == AccountInit => AccountTypeOK
BY OwnerTTLAssumption DEF AccountInit, AccountTypeOK

LEMMA AccountTypesStep == AccountTypeOK /\ [AccountNext]_accountVars => AccountTypeOK'
<1> SUFFICES ASSUME AccountTypeOK, [AccountNext]_accountVars PROVE AccountTypeOK'
  OBVIOUS
<1> USE OwnerTTLAssumption, AccountFormsAssumption
<1>1. ASSUME ResetStep PROVE AccountTypeOK'
  <2>1. ASSUME NEW k \in Links, ForgotSubmit(k) PROVE AccountTypeOK'
    BY <2>1 DEF AccountTypeOK, ForgotSubmit
  <2>2. ASSUME NEW k \in Links, LinkExpires(k) PROVE AccountTypeOK'
    BY <2>2 DEF AccountTypeOK, LinkExpires
  <2>3. ASSUME NEW f \in ResetForms, NEW k \in Links, Consume(f, k) PROVE AccountTypeOK'
    BY <2>3 DEF AccountTypeOK, Consume, Consumed
  <2>4. ASSUME NEW f \in ResetForms, ResetPassword(f) PROVE AccountTypeOK'
    BY <2>4 DEF AccountTypeOK, ResetPassword, SetPassword
  <2>5. ASSUME NEW f \in ResetForms, ResetFails(f) PROVE AccountTypeOK'
    BY <2>5 DEF AccountTypeOK, ResetFails
  <2> QED BY <1>1, <2>1, <2>2, <2>3, <2>4, <2>5 DEF ResetStep
<1>2. ASSUME NEW l \in Logins, LoginStep(l) PROVE AccountTypeOK'
  BY <1>2 DEF AccountTypeOK, LoginStep, LoginSubmit, CreateSession, CreateSessionFails, Logout
<1>3. ASSUME SessionTick PROVE AccountTypeOK'
  BY <1>3 DEF AccountTypeOK, SessionTick
<1>4. ASSUME NEW c \in ChangeForms, ChangeStep(c) PROVE AccountTypeOK'
  <2>1. ASSUME NEW l \in Logins, LoadSession(c, l) PROVE AccountTypeOK'
    BY <2>1 DEF AccountTypeOK, LoadSession
  <2>2. ASSUME Touch(c) PROVE AccountTypeOK'
    BY <2>2 DEF AccountTypeOK, Touch, Touched
  <2>3. ASSUME NEW p \in Passwords, VerifyCurrent(c, p) PROVE AccountTypeOK'
    BY <2>3 DEF AccountTypeOK, VerifyCurrent
  <2>4. ASSUME ChangePassword(c) PROVE AccountTypeOK'
    BY <2>4 DEF AccountTypeOK, ChangePassword, SetPassword
  <2>5. ASSUME ChangeFails(c) PROVE AccountTypeOK'
    BY <2>5 DEF AccountTypeOK, ChangeFails
  <2> QED BY <1>4, <2>1, <2>2, <2>3, <2>4, <2>5 DEF ChangeStep
<1>5. CASE UNCHANGED accountVars
  BY <1>5 DEF AccountTypeOK, accountVars
<1> QED BY <1>1, <1>2, <1>3, <1>4, <1>5 DEF AccountNext

\* Every form, login and session has its type, and a link that lives was mailed.
THEOREM AccountTypes == AccountSpec => []AccountTypeOK
BY AccountTypesInit, AccountTypesStep, PTL DEF AccountSpec

----------------------------------------------------------------------------
(* Links. *)

LEMMA LinksStep == AccountTypeOK /\ LinkUsedOnce /\ [AccountNext]_accountVars => LinkUsedOnce'
<1> SUFFICES ASSUME AccountTypeOK, LinkUsedOnce, [AccountNext]_accountVars PROVE LinkUsedOnce'
  OBVIOUS
<1>1. ASSUME NEW k \in Links, ForgotSubmit(k) PROVE LinkUsedOnce'
  \* k was not mailed, so no form that was let through carries it.
  BY <1>1 DEF AccountTypeOK, LinkUsedOnce, ForgotSubmit
<1>2. ASSUME NEW k \in Links, LinkExpires(k) PROVE LinkUsedOnce'
  BY <1>2 DEF LinkUsedOnce, LinkExpires
<1>3. ASSUME NEW f \in ResetForms, NEW k \in Links, Consume(f, k) PROVE LinkUsedOnce'
  <2>1. \A g \in ResetForms : g # f => resetting'[g] = resetting[g] /\ carried'[g] = carried[g]
    BY <1>3 DEF AccountTypeOK, Consume
  <2>2. /\ carried'[f] = k
        /\ resetting'[f] \in {"update", "done"} => k \in links
        /\ links' = links \ {k}
        /\ mailed' = mailed
    BY <1>3 DEF AccountTypeOK, Consume, Consumed
  <2> QED BY <2>1, <2>2 DEF AccountTypeOK, LinkUsedOnce
<1>4. ASSUME NEW f \in ResetForms, ResetPassword(f) \/ ResetFails(f) PROVE LinkUsedOnce'
  BY <1>4 DEF AccountTypeOK, LinkUsedOnce, ResetPassword, ResetFails
<1>5. CASE UNCHANGED <<links, mailed, resetting, carried>>
  BY <1>5 DEF LinkUsedOnce
<1>6. ASSUME \/ \E l \in Logins : LoginStep(l)
             \/ SessionTick
             \/ \E c \in ChangeForms : ChangeStep(c)
             \/ UNCHANGED accountVars
      PROVE  UNCHANGED <<links, mailed, resetting, carried>>
  BY <1>6 DEF LoginStep, LoginSubmit, CreateSession, CreateSessionFails, Logout, SessionTick,
       ChangeStep, LoadSession, Touch, VerifyCurrent, ChangePassword, ChangeFails, accountVars
<1> QED BY <1>1, <1>2, <1>3, <1>4, <1>5, <1>6 DEF AccountNext, ResetStep

\* One mailed link changes the password at most once, however many forms carry it.
THEOREM LinksUsedOnce == AccountSpec => []LinkUsedOnce
<1>1. AccountInit => LinkUsedOnce
  BY DEF AccountInit, LinkUsedOnce
<1> QED BY <1>1, LinksStep, AccountTypes, PTL DEF AccountSpec

----------------------------------------------------------------------------
(* Changes. *)

\* From the comparison to the UPDATE, the password is the one that was typed or one set since.
KnownOrSetSince ==
    \A c \in ChangeForms :
        /\ changing[c] = "update" => password \in {typed[c]} \cup setSince[c]
        /\ changing[c] = "done" => overwrote[c] \in {typed[c]} \cup setSince[c]

\* A form that sets the password tells every other change under way.
LEMMA SetIsNoted ==
    ASSUME AccountTypeOK, NEW form, SetPassword(form)
    PROVE  \A c \in ChangeForms :
             /\ setSince[c] \subseteq setSince'[c]
             /\ changing[c] = "update" /\ c # form => password' \in setSince'[c]
BY DEF SetPassword

LEMMA ChangesStep == AccountTypeOK /\ KnownOrSetSince /\ [AccountNext]_accountVars => KnownOrSetSince'
<1> SUFFICES ASSUME AccountTypeOK, KnownOrSetSince, [AccountNext]_accountVars
             PROVE  KnownOrSetSince'
  OBVIOUS
<1>1. CASE UNCHANGED <<password, changing, typed, overwrote, setSince>>
  BY <1>1 DEF KnownOrSetSince
<1>2. ASSUME NEW f \in ResetForms, ResetPassword(f) PROVE KnownOrSetSince'
  <2>1. SetPassword(f) /\ UNCHANGED <<changing, typed, overwrote>> /\ f \notin ChangeForms
    BY <1>2, AccountFormsAssumption DEF ResetPassword
  <2> QED BY <2>1, SetIsNoted DEF KnownOrSetSince
<1>3. ASSUME NEW c \in ChangeForms, NEW l \in Logins, LoadSession(c, l) PROVE KnownOrSetSince'
  BY <1>3 DEF AccountTypeOK, KnownOrSetSince, LoadSession
<1>4. ASSUME NEW c \in ChangeForms, Touch(c) PROVE KnownOrSetSince'
  BY <1>4 DEF AccountTypeOK, KnownOrSetSince, Touch
<1>5. ASSUME NEW c \in ChangeForms, NEW p \in Passwords, VerifyCurrent(c, p) PROVE KnownOrSetSince'
  BY <1>5 DEF AccountTypeOK, KnownOrSetSince, VerifyCurrent, VerifyPassword
<1>6. ASSUME NEW c \in ChangeForms, ChangePassword(c) PROVE KnownOrSetSince'
  <2>1. /\ changing[c] = "update"
        /\ changing' = [changing EXCEPT ![c] = "done"]
        /\ overwrote' = [overwrote EXCEPT ![c] = password]
        /\ SetPassword(c)
        /\ typed' = typed
    BY <1>6 DEF ChangePassword
  <2>2. \A d \in ChangeForms : d # c => changing'[d] = changing[d] /\ overwrote'[d] = overwrote[d]
    BY <2>1 DEF AccountTypeOK
  <2>3. changing'[c] = "done" /\ overwrote'[c] = password
    BY <2>1 DEF AccountTypeOK
  <2> QED BY <2>1, <2>2, <2>3, SetIsNoted DEF KnownOrSetSince
<1>7. ASSUME NEW c \in ChangeForms, ChangeFails(c) PROVE KnownOrSetSince'
  BY <1>7 DEF AccountTypeOK, KnownOrSetSince, ChangeFails
<1>8. ASSUME \/ \E k \in Links : ForgotSubmit(k) \/ LinkExpires(k)
             \/ \E f \in ResetForms, k \in Links : Consume(f, k)
             \/ \E f \in ResetForms : ResetFails(f)
             \/ \E l \in Logins : LoginStep(l)
             \/ SessionTick
             \/ UNCHANGED accountVars
      PROVE  UNCHANGED <<password, changing, typed, overwrote, setSince>>
  BY <1>8 DEF ForgotSubmit, LinkExpires, Consume, ResetFails, LoginStep, LoginSubmit, CreateSession,
       CreateSessionFails, Logout, SessionTick, accountVars
<1> QED BY <1>1, <1>2, <1>3, <1>4, <1>5, <1>6, <1>7, <1>8 DEF AccountNext, ResetStep, ChangeStep

\* A change replaces the password its user knew, or one set while it was under way.
THEOREM ReplacedByKnowers == AccountSpec => []ReplacedByKnower
<1>1. AccountInit => KnownOrSetSince
  BY DEF AccountInit, KnownOrSetSince
<1>2. KnownOrSetSince => ReplacedByKnower
  BY DEF KnownOrSetSince, ReplacedByKnower
<1> QED BY <1>1, <1>2, ChangesStep, AccountTypes, PTL DEF AccountSpec

\* A password changes hands only by a link, once, or by somebody who knew it.
THEOREM PasswordsAreGuarded == AccountSpec => []PasswordsGuarded
<1>1. LinkUsedOnce /\ ReplacedByKnower => PasswordsGuarded
  BY DEF PasswordsGuarded
<1> QED BY <1>1, LinksUsedOnce, ReplacedByKnowers, PTL

----------------------------------------------------------------------------
(* Sessions. *)

\* No step revives a session that was opened and has ended: a login opens it once, and Touch
\* finds no key.
THEOREM SessionsStayEnded == AccountSpec => SessionStaysEnded
<1>1. AccountTypeOK /\ [AccountNext]_accountVars =>
        [\A l \in Logins : entering[l] = "in" /\ session[l] = 0 => session'[l] = 0]_accountVars
  <2> SUFFICES ASSUME AccountTypeOK, AccountNext, NEW l \in Logins, entering[l] = "in", session[l] = 0
               PROVE  session'[l] = 0
    OBVIOUS
  <2>1. CASE ResetStep
    BY <2>1 DEF ResetStep, ForgotSubmit, LinkExpires, Consume, ResetPassword, ResetFails
  <2>2. ASSUME NEW m \in Logins, LoginStep(m) PROVE session'[l] = 0
    BY <2>2 DEF AccountTypeOK, LoginStep, LoginSubmit, CreateSession, CreateSessionFails, Logout
  <2>3. CASE SessionTick
    BY <2>3 DEF SessionTick
  <2>4. ASSUME NEW c \in ChangeForms, ChangeStep(c) PROVE session'[l] = 0
    BY <2>4 DEF AccountTypeOK, ChangeStep, LoadSession, Touch, Touched, VerifyCurrent, ChangePassword, ChangeFails
  <2> QED BY <2>1, <2>2, <2>3, <2>4 DEF AccountNext
<1> QED BY <1>1, AccountTypes, PTL DEF AccountSpec, SessionStaysEnded
=============================================================================
