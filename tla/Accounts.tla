------------------------------ MODULE Accounts ------------------------------
(***************************************************************************)
(* One owner's password and sessions: the reset link of "forgot password", *)
(* the change of a password that is known, login, and the session that     *)
(* slides on with every request until it lapses or its user logs out.      *)
(*                                                                         *)
(* An administrator logs in and out by the same steps.                     *)
(*                                                                         *)
(* A password is known by the form that set it.  Nobody asks a session     *)
(* which password it was opened with: it outlives every reset.             *)
(***************************************************************************)
EXTENDS Integers

CONSTANTS
    Links,          \* reset links that may be mailed
    ResetForms,     \* submissions of the reset form
    ChangeForms,    \* submissions of the change-password form
    Logins,         \* submissions of the login form; a login is its session's token
    FirstPassword,  \* the password there is at the beginning
    NoKey,          \* no link, or no session
    OwnerTTL        \* the idle time after which a session lapses, in ticks

ASSUME OwnerTTLAssumption == OwnerTTL \in Nat \ {0}
ASSUME NoKeyAssumption == NoKey \notin Links \cup Logins
ASSUME AccountFormsAssumption ==
    /\ ResetForms \cap ChangeForms = {}
    /\ FirstPassword \notin ResetForms \cup ChangeForms
    /\ NoKey \notin Links

VARIABLES
    password,   \* password_hash: the form that set it
    links,      \* the password_reset: keys
    mailed,     \* the links ever issued
    resetting,  \* resetting[f]: what reset form f does next, or how it ended
    carried,    \* carried[f]: its link
    changing,   \* changing[c]: what change form c does next, or how it ended
    actor,      \* actor[c]: its session
    typed,      \* typed[c]: the current password its user typed
    entering,   \* entering[l]: what login l does next, or how it ended
    session,    \* session[l]: the TTL of its session: key, 0 for no key
    overwrote,  \* history: overwrote[c]: the password that form c replaced
    setSince    \* history: setSince[c]: the passwords set after c was verified

accountVars == <<password, links, mailed, resetting, carried, changing, actor, typed, entering,
                 session, overwrote, setSince>>
Passwords == {FirstPassword} \cup ResetForms \cup ChangeForms

SetPassword(form) ==
    /\ password' = form
    /\ setSince' = [c \in ChangeForms |->
                      IF changing[c] = "update" /\ c # form THEN setSince[c] \cup {form} ELSE setSince[c]]

----------------------------------------------------------------------------
(* Forgot and reset. *)

\* The owner is found and has an address.  A mail that is lost leaves the link alive.
ForgotSubmit(k) ==
    /\ k \notin mailed
    /\ mailed' = mailed \cup {k}
    /\ links' = links \cup {k}
    /\ UNCHANGED <<password, resetting, carried, changing, actor, typed, entering, session,
                   overwrote, setSince>>

LinkExpires(k) ==
    /\ k \in links
    /\ links' = links \ {k}
    /\ UNCHANGED <<password, mailed, resetting, carried, changing, actor, typed, entering, session,
                   overwrote, setSince>>

\* Mutant: the link is looked up as for the page, and deleted nowhere.
Peeked(k) == links

\* GETDEL.
Consumed(k) == links \ {k}

Consume(f, k) ==
    /\ resetting[f] = "idle"
    /\ carried' = [carried EXCEPT ![f] = k]
    /\ resetting' = [resetting EXCEPT ![f] = IF k \in links THEN "update" ELSE "refused"]
    /\ links' = Consumed(k)
    /\ UNCHANGED <<password, mailed, changing, actor, typed, entering, session, overwrote, setSince>>

ResetPassword(f) ==
    /\ resetting[f] = "update"
    /\ resetting' = [resetting EXCEPT ![f] = "done"]
    /\ SetPassword(f)
    /\ UNCHANGED <<links, mailed, carried, changing, actor, typed, entering, session, overwrote>>

\* The transaction fails, or the server dies: the link is spent, the password is not changed.
ResetFails(f) ==
    /\ resetting[f] = "update"
    /\ resetting' = [resetting EXCEPT ![f] = "failed"]
    /\ UNCHANGED <<password, links, mailed, carried, changing, actor, typed, entering, session,
                   overwrote, setSince>>

----------------------------------------------------------------------------
(* Login and sessions. *)

\* The row is read and the password compared with the hash.
LoginSubmit(l, p) ==
    /\ entering[l] = "idle"
    /\ entering' = [entering EXCEPT ![l] = IF p = password THEN "create" ELSE "refused"]
    /\ UNCHANGED <<password, links, mailed, resetting, carried, changing, actor, typed, session,
                   overwrote, setSince>>

CreateSession(l) ==
    /\ entering[l] = "create"
    /\ entering' = [entering EXCEPT ![l] = "in"]
    /\ session' = [session EXCEPT ![l] = OwnerTTL]
    /\ UNCHANGED <<password, links, mailed, resetting, carried, changing, actor, typed,
                   overwrote, setSince>>

\* Redis refuses, or the server dies.
CreateSessionFails(l) ==
    /\ entering[l] = "create"
    /\ entering' = [entering EXCEPT ![l] = "refused"]
    /\ UNCHANGED <<password, links, mailed, resetting, carried, changing, actor, typed, session,
                   overwrote, setSince>>

Logout(l) ==
    /\ session[l] > 0
    /\ session' = [session EXCEPT ![l] = 0]
    /\ UNCHANGED <<password, links, mailed, resetting, carried, changing, actor, typed, entering,
                   overwrote, setSince>>

\* One unit of time.
SessionTick ==
    /\ \E l \in Logins : session[l] > 0
    /\ session' = [l \in Logins |-> IF session[l] > 0 THEN session[l] - 1 ELSE 0]
    /\ UNCHANGED <<password, links, mailed, resetting, carried, changing, actor, typed, entering,
                   overwrote, setSince>>

----------------------------------------------------------------------------
(* Change, a request of a session. *)

LoadSession(c, l) ==
    /\ changing[c] = "idle"
    /\ session[l] > 0
    /\ changing' = [changing EXCEPT ![c] = "touch"]
    /\ actor' = [actor EXCEPT ![c] = l]
    /\ UNCHANGED <<password, links, mailed, resetting, carried, typed, entering, session,
                   overwrote, setSince>>

\* Mutant: the session that was loaded is written back, as SetShift does.
WrittenBack(ttl) == OwnerTTL

\* EXPIRE does nothing for a key that is gone.
Touched(ttl) == IF ttl = 0 THEN 0 ELSE OwnerTTL

Touch(c) ==
    /\ changing[c] = "touch"
    /\ changing' = [changing EXCEPT ![c] = "verify"]
    /\ session' = [session EXCEPT ![actor[c]] = Touched(@)]
    /\ UNCHANGED <<password, links, mailed, resetting, carried, actor, typed, entering,
                   overwrote, setSince>>

VerifyPassword(p) == p = password

VerifyCurrent(c, p) ==
    /\ changing[c] = "verify"
    /\ typed' = [typed EXCEPT ![c] = p]
    /\ changing' = [changing EXCEPT ![c] = IF VerifyPassword(p) THEN "update" ELSE "refused"]
    /\ UNCHANGED <<password, links, mailed, resetting, carried, actor, entering, session,
                   overwrote, setSince>>

\* The UPDATE names the user by id alone, and READ COMMITTED sees what was committed since.
ChangePassword(c) ==
    /\ changing[c] = "update"
    /\ changing' = [changing EXCEPT ![c] = "done"]
    /\ overwrote' = [overwrote EXCEPT ![c] = password]
    /\ SetPassword(c)
    /\ UNCHANGED <<links, mailed, resetting, carried, actor, typed, entering, session>>

ChangeFails(c) ==
    /\ changing[c] \in {"touch", "verify", "update"}
    /\ changing' = [changing EXCEPT ![c] = "failed"]
    /\ UNCHANGED <<password, links, mailed, resetting, carried, actor, typed, entering, session,
                   overwrote, setSince>>

----------------------------------------------------------------------------
AccountInit ==
    /\ password = FirstPassword
    /\ links = {}
    /\ mailed = {}
    /\ resetting = [f \in ResetForms |-> "idle"]
    /\ carried = [f \in ResetForms |-> NoKey]
    /\ changing = [c \in ChangeForms |-> "idle"]
    /\ actor = [c \in ChangeForms |-> NoKey]
    /\ typed = [c \in ChangeForms |-> FirstPassword]
    /\ entering = [l \in Logins |-> "idle"]
    /\ session = [l \in Logins |-> 0]
    /\ overwrote = [c \in ChangeForms |-> FirstPassword]
    /\ setSince = [c \in ChangeForms |-> {}]

ResetStep ==
    \/ \E k \in Links : ForgotSubmit(k) \/ LinkExpires(k)
    \/ \E f \in ResetForms, k \in Links : Consume(f, k)
    \/ \E f \in ResetForms : ResetPassword(f) \/ ResetFails(f)

LoginStep(l) ==
    \/ \E p \in Passwords : LoginSubmit(l, p)
    \/ CreateSession(l)
    \/ CreateSessionFails(l)
    \/ Logout(l)

ChangeStep(c) ==
    \/ \E l \in Logins : LoadSession(c, l)
    \/ Touch(c)
    \/ \E p \in Passwords : VerifyCurrent(c, p)
    \/ ChangePassword(c)
    \/ ChangeFails(c)

AccountNext ==
    \/ ResetStep
    \/ \E l \in Logins : LoginStep(l)
    \/ SessionTick
    \/ \E c \in ChangeForms : ChangeStep(c)

AccountSpec == AccountInit /\ [][AccountNext]_accountVars

----------------------------------------------------------------------------
(* Properties. *)

AccountTypeOK ==
    /\ password \in Passwords
    /\ links \subseteq mailed
    /\ mailed \subseteq Links
    /\ resetting \in [ResetForms -> {"idle", "update", "done", "refused", "failed"}]
    /\ carried \in [ResetForms -> Links \cup {NoKey}]
    /\ changing \in [ChangeForms -> {"idle", "touch", "verify", "update", "done", "refused", "failed"}]
    /\ actor \in [ChangeForms -> Logins \cup {NoKey}]
    /\ \A c \in ChangeForms : changing[c] = "touch" => actor[c] \in Logins
    /\ typed \in [ChangeForms -> Passwords]
    /\ entering \in [Logins -> {"idle", "create", "in", "refused"}]
    /\ session \in [Logins -> 0 .. OwnerTTL]
    /\ overwrote \in [ChangeForms -> Passwords]
    /\ setSince \in [ChangeForms -> SUBSET Passwords]

\* "So it can never be replayed" (passwordreset.Consume): one link changes the password at most
\* once, and only a link that was mailed does, however many submissions carry it.
LinkUsedOnce ==
    \A f \in ResetForms : resetting[f] \in {"update", "done"} =>
        /\ carried[f] \in mailed \ links
        /\ \A g \in ResetForms : resetting[g] \in {"update", "done"} /\ carried[g] = carried[f] => g = f

\* A change replaces the password its user typed; a password that the user did not know is lost
\* to it only if it was set while the change was under way.
ReplacedByKnower ==
    \A c \in ChangeForms : changing[c] = "done" => overwrote[c] \in {typed[c]} \cup setSince[c]

\* A password changes hands only by a link that was mailed, and then once, or by somebody who
\* knew the password that was replaced or one that was current while the form was under way.
PasswordsGuarded == LinkUsedOnce /\ ReplacedByKnower

\* A session that has ended, by logout or by lapse, is not brought back by the Touch of a request
\* that had loaded it before.
SessionStaysEnded ==
    [][\A l \in Logins : entering[l] = "in" /\ session[l] = 0 => session'[l] = 0]_accountVars
=============================================================================
