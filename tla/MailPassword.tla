----------------------------- MODULE MailPassword -----------------------------
(***************************************************************************)
(* The password of a mail app: the tab that shows the settings and makes a *)
(* new password (imap-tab.ts), its two requests (profile_routes.py), the   *)
(* operator's command (admin.py) that shares reset_imap_password with      *)
(* them, and the startup of the backend, which puts the guest's password   *)
(* back (guest_retention.py).                                              *)
(*                                                                         *)
(* A reset looks the account up and stores the hash on two connections,    *)
(* and nothing keeps two resets apart: the button stays enabled, requests  *)
(* are served in any order and their answers arrive in any order or not at *)
(* all.  The tab shows the account that was signed in when the page asked, *)
(* a request acts for the account that the cookie names when it is sent;   *)
(* other tabs share the cookie.                                            *)
(*                                                                         *)
(* A password is named by the call that generated it, 0 is the one that an *)
(* account was created with (of the guest: GUEST_USER_PASSWORD).           *)
(***************************************************************************)
EXTENDS Naturals, FiniteSets

CONSTANTS Users, Guest,
          Username, Email,  \* imap_username and provider_email of each account
          Identifiers,      \* what the operator types
          Portals,          \* accounts that this browser signs in to
          None,
          MaxCalls,         \* bound on requests and commands
          MaxEvents         \* bound on changes of the cookie and on crashes

ASSUME MailPasswordConstants ==
    /\ Guest \in Portals /\ Portals \subseteq Users /\ None \notin Users
    /\ DOMAIN Username = Users /\ DOMAIN Email = Users
    /\ \A u, v \in Users : Username[u] = Username[v] => u = v
    /\ MaxCalls \in Nat /\ MaxEvents \in Nat

VARIABLES user,               \* the tab: whose portal it is in
          requestId, passwordRequestId,
          settings,           \* currentSettings, by the request for them
          rendered,           \* whether the rows show them
          box,                \* the new password, visible; 0: none
          busy,               \* "Regenerating..." in the status line
          waiting,            \* calls whose answer the tab awaits
          jar,                \* account in the browser's cookie
          active, up,         \* enabled accounts; the backend is running
          stored,             \* whose hash is in the database
          sent, kind, stage,  \* calls: how many, what, how far
          as,                 \* account in the cookie of a request
          identifier, target, \* what reset_imap_password is given and finds
          before,             \* history: answered when the call was made
          since,              \* history: commands that ended since the startup
          cleared,            \* history: calls made before the last sign-out
          events

shownVars == <<user, requestId, passwordRequestId, settings, rendered, box, busy,
               cleared>>
callVars == <<sent, kind, stage, as, identifier, target, before>>
vars == <<shownVars, waiting, jar, active, up, stored, callVars, since, events>>

Calls == 1 .. MaxCalls
Resets == {"reset", "cli"}
Answered == {d \in Calls : kind[d] \in Resets /\ stage[d] = "ok"}

Init ==
    /\ user = None /\ requestId = 0 /\ passwordRequestId = 0
    /\ settings = 0 /\ rendered = FALSE /\ box = 0
    /\ busy = FALSE /\ waiting = {}
    /\ jar \in Portals \cup {None}
    /\ active = Users /\ up = TRUE
    /\ stored = [u \in Users |-> 0]
    /\ sent = 0
    /\ kind = [c \in Calls |-> "none"] /\ stage = [c \in Calls |-> "idle"]
    /\ as = [c \in Calls |-> None]
    /\ identifier = [c \in Calls |-> None] /\ target = [c \in Calls |-> None]
    /\ before = [c \in Calls |-> {}] /\ since = {}
    /\ cleared = 0 /\ events = 0

Start(what, who) ==
    /\ sent < MaxCalls
    /\ sent' = sent + 1
    /\ kind' = [kind EXCEPT ![sent + 1] = what]
    /\ as' = [as EXCEPT ![sent + 1] = who]
    /\ before' = [before EXCEPT ![sent + 1] = IF what \in Resets THEN Answered ELSE {}]

Request(what) ==
    /\ Start(what, jar)
    /\ stage' = [stage EXCEPT ![sent + 1] = "sent"]
    /\ UNCHANGED <<identifier, target>>
    /\ waiting' = waiting \cup {sent + 1}
    /\ UNCHANGED <<jar, active, up, stored, since, events>>

-----------------------------------------------------------------------------
(* imap-tab.ts                                                             *)

\* showPortal: setUser, then load.
ShowPortal(u) ==
    /\ user' = u
    /\ requestId' = sent + 1
    /\ Request("settings")
    /\ UNCHANGED <<passwordRequestId, settings, rendered, box, busy, cleared>>

\* Fault: a password that is still on its way is not forgotten.
ResetTabKeepingRequest ==
    /\ user' = None /\ requestId' = 0 /\ UNCHANGED passwordRequestId
    /\ settings' = 0 /\ rendered' = FALSE /\ box' = 0 /\ busy' = FALSE
    /\ cleared' = sent

\* reset
ResetTab ==
    /\ user' = None /\ requestId' = 0 /\ passwordRequestId' = 0
    /\ settings' = 0 /\ rendered' = FALSE /\ box' = 0 /\ busy' = FALSE
    /\ cleared' = sent

\* session.clear: a logout, a 401 of another tab of the page, ...
ShowLoggedOut ==
    /\ ResetTab
    /\ UNCHANGED <<waiting, jar, active, up, stored, callVars, since, events>>

\* regenerate, up to the await; the guest's page has no button for it.
Regenerate ==
    /\ user \notin {None, Guest}
    /\ busy' = TRUE /\ box' = 0
    /\ passwordRequestId' = sent + 1
    /\ Request("reset")
    /\ UNCHANGED <<user, requestId, settings, rendered, cleared>>

\* copyText: what the clipboard answers replaces what the status line says.
Copied ==
    /\ rendered
    /\ busy /\ busy' = FALSE
    /\ UNCHANGED <<user, requestId, passwordRequestId, settings, rendered, box, cleared,
                   waiting, jar, active, up, stored, callVars, since, events>>

\* The answer to c, unless the connection breaks before it is there.
Arrives(c, what) ==
    /\ c \in waiting
    /\ what \in {stage[c], "error"} \cap {"ok", "401", "error"}
    /\ waiting' = waiting \ {c}
    /\ UNCHANGED <<jar, active, up, stored, callVars, since, events>>

\* A 401 signs the page out before the tab sees it (ApiClient.onUnauthorized).
SignedOut(c) == Arrives(c, "401") /\ ResetTab

Ignored(c) ==
    /\ \E what \in {"ok", "error"} : Arrives(c, what)
    /\ UNCHANGED shownVars

ShowSettings(c) ==
    /\ c = requestId /\ Arrives(c, "ok")
    /\ settings' = c /\ rendered' = TRUE
    /\ busy' = FALSE
    /\ UNCHANGED <<user, requestId, passwordRequestId, box, cleared>>

SettingsFailed(c) ==
    /\ c = requestId /\ Arrives(c, "error")
    /\ rendered' = FALSE
    /\ busy' = FALSE
    /\ UNCHANGED <<user, requestId, passwordRequestId, settings, box, cleared>>

\* load, after the await
LoadAnswer(c) ==
    /\ kind[c] = "settings"
    /\ \/ SignedOut(c)
       \/ c # requestId /\ Ignored(c)
       \/ ShowSettings(c)
       \/ SettingsFailed(c)

\* The new password; the settings, if they are there, are rendered with its username.
ShowPassword(c) ==
    /\ c = passwordRequestId /\ Arrives(c, "ok")
    /\ box' = c /\ busy' = FALSE
    /\ rendered' = (settings # 0)
    /\ UNCHANGED <<user, requestId, passwordRequestId, settings, cleared>>

\* Fault: an error is ignored as a 401 is.
PasswordFailedSilently(c) ==
    /\ c = passwordRequestId /\ Arrives(c, "error")
    /\ UNCHANGED shownVars

PasswordFailed(c) ==
    /\ c = passwordRequestId /\ Arrives(c, "error")
    /\ busy' = FALSE
    /\ UNCHANGED <<user, requestId, passwordRequestId, settings, rendered, box, cleared>>

\* regenerate, after the await
RegenerateAnswer(c) ==
    /\ kind[c] = "reset"
    /\ \/ SignedOut(c)
       \/ c # passwordRequestId /\ Ignored(c)
       \/ ShowPassword(c)
       \/ PasswordFailed(c)

-----------------------------------------------------------------------------
(* profile_routes.py, admin.py and reset_imap_password                     *)

Moves(c, to) ==
    /\ stage' = [stage EXCEPT ![c] = to]
    /\ UNCHANGED <<shownVars, waiting, jar, active, up, sent, kind, as, before, events>>

\* current_active_user
Unauthenticated(c) == as[c] \notin active

\* GET /api/me/imap-settings
ServeSettings(c) ==
    /\ kind[c] = "settings" /\ stage[c] = "sent" /\ up
    /\ Moves(c, IF Unauthenticated(c) THEN "401" ELSE "ok")
    /\ UNCHANGED <<stored, identifier, target, since>>

\* _find_user: by username, else by e-mail address.
Found(name) ==
    LET byUsername == {u \in Users : Username[u] = name}
        byEmail == {u \in Users : Email[u] = name}
    IN  IF byUsername # {} THEN byUsername ELSE byEmail

\* Fault: one query for both, of which the first row is taken.
FindUserEither(c, name) ==
    /\ identifier' = [identifier EXCEPT ![c] = name]
    /\ \E u \in Users :
         /\ name \in {Username[u], Email[u]}
         /\ stage' = [stage EXCEPT ![c] = "found"]
         /\ target' = [target EXCEPT ![c] = u]

\* reset_imap_password up to the UPDATE: the one account, or an error.
FindUser(c, name) ==
    /\ identifier' = [identifier EXCEPT ![c] = name]
    /\ \/ \E u \in Users :
            /\ Found(name) = {u}
            /\ stage' = [stage EXCEPT ![c] = "found"]
            /\ target' = [target EXCEPT ![c] = u]
       \/ /\ \A u \in Users : Found(name) # {u}
          /\ stage' = [stage EXCEPT ![c] = "error"]
          /\ UNCHANGED target

\* POST /api/me/imap-password: 401, 403 for the guest, or a reset.
ServeRegenerate(c) ==
    /\ kind[c] = "reset" /\ stage[c] = "sent" /\ up
    /\ \/ /\ Unauthenticated(c) /\ Moves(c, "401")
          /\ UNCHANGED <<identifier, target>>
       \/ /\ ~Unauthenticated(c) /\ as[c] = Guest /\ Moves(c, "error")
          /\ UNCHANGED <<identifier, target>>
       \/ /\ ~Unauthenticated(c) /\ as[c] # Guest
          /\ FindUser(c, Username[as[c]])
          /\ UNCHANGED <<shownVars, waiting, jar, active, up, sent, kind, as, before,
                         events>>
    /\ UNCHANGED <<stored, since>>

\* admin.py reset-imap-password
Command(name) ==
    /\ Start("cli", None)
    /\ FindUser(sent + 1, name)
    /\ UNCHANGED <<shownVars, waiting, jar, active, up, stored, since, events>>

\* Fault: the connection is closed before the transaction is committed.
UpdateRolledBack(c) ==
    /\ stage[c] = "found" /\ Moves(c, "ok")
    /\ UNCHANGED <<stored, identifier, target, since>>

\* UPDATE users SET imap_password_hash; then the answer, or the printed account.
Update(c) ==
    /\ stage[c] = "found" /\ Moves(c, "ok")
    /\ stored' = [stored EXCEPT ![target[c]] = c]
    /\ since' = IF kind[c] = "cli" THEN since \cup {c} ELSE since
    /\ UNCHANGED <<identifier, target>>

-----------------------------------------------------------------------------
(* The backend's process, and the rest of the browser                      *)

Event == events < MaxEvents /\ events' = events + 1

\* Requests end with the process that serves them; commands have their own.
Crash ==
    /\ Event
    /\ up /\ up' = FALSE
    /\ stage' = [c \in Calls |->
         IF kind[c] = "reset" /\ stage[c] = "found" THEN "error"
         ELSE stage[c]]
    /\ UNCHANGED <<shownVars, waiting, jar, active, stored, sent, kind, as, identifier,
                   target, before, since>>

\* Fault: a guest account that exists is left as it is.
StartupOnlyCreates ==
    /\ ~up /\ up' = TRUE
    /\ since' = {}
    /\ UNCHANGED <<shownVars, waiting, jar, active, stored, callVars, events>>

\* ensure_guest_user, of an account that exists: set_imap_password.
Startup ==
    /\ ~up /\ up' = TRUE
    /\ stored' = [stored EXCEPT ![Guest] = 0]
    /\ since' = {}
    /\ UNCHANGED <<shownVars, waiting, jar, active, callVars, events>>

\* Another tab signs in or out, or the cookie expires.
CookieChanges(u) ==
    /\ Event
    /\ jar' = u
    /\ UNCHANGED <<shownVars, waiting, active, up, stored, callVars, since>>

Disable(u) ==
    /\ Event
    /\ active' = active \ {u}
    /\ UNCHANGED <<shownVars, waiting, jar, up, stored, callVars, since>>

Answer(c) == LoadAnswer(c) \/ RegenerateAnswer(c)

Next ==
    \/ \E u \in Portals : ShowPortal(u)
    \/ ShowLoggedOut \/ Regenerate \/ Copied
    \/ \E c \in Calls :
         \/ Answer(c)
         \/ ServeSettings(c) \/ ServeRegenerate(c) \/ Update(c)
    \/ \E name \in Identifiers : Command(name)
    \/ Crash \/ Startup
    \/ \E u \in Portals \cup {None} : CookieChanges(u)
    \/ \E u \in Portals : Disable(u)

Spec == Init /\ [][Next]_vars

\* Fairness: a request is answered, or the browser gives it up.
FairSpec == Spec /\ \A c \in Calls : WF_vars(Answer(c))

-----------------------------------------------------------------------------
(* Whoever is not signed in has an empty tab.                              *)
TabTypeOK ==
    /\ user \in Portals \cup {None}
    /\ user = None =>
         requestId = 0 /\ passwordRequestId = 0 /\ settings = 0 /\ box = 0
    /\ requestId \in 0 .. sent /\ passwordRequestId \in 0 .. sent
    /\ settings \in 0 .. sent /\ box \in 0 .. sent
    /\ rendered \in BOOLEAN /\ busy \in BOOLEAN
    /\ waiting \subseteq Calls
    /\ cleared \in 0 .. sent

CallTypeOK ==
    /\ jar \in Portals \cup {None}
    /\ active \subseteq Users /\ up \in BOOLEAN
    /\ stored \in [Users -> Calls \cup {0}]
    /\ sent \in 0 .. MaxCalls
    /\ kind \in [Calls -> {"none", "settings", "reset", "cli"}]
    /\ stage \in [Calls -> {"idle", "sent", "found", "ok", "401", "error"}]
    /\ as \in [Calls -> Portals \cup {None}]
    /\ DOMAIN identifier = Calls /\ target \in [Calls -> Users \cup {None}]
    /\ before \in [Calls -> SUBSET Calls] /\ since \subseteq Calls

TypeOK == TabTypeOK /\ CallTypeOK

(***************************************************************************)
(* A password on the page is the one that was asked for last, and nothing  *)
(* on the page was asked for before the last sign-out, although the        *)
(* answers to older requests keep arriving.                                *)
(***************************************************************************)
ShownIsOfThisSession ==
    /\ box # 0 => box = passwordRequestId /\ box > cleared /\ stage[box] = "ok"
    /\ rendered => settings > cleared

(***************************************************************************)
(* "The old password will stop working immediately": after a reset has     *)
(* been answered the account has its password, or that of a reset that     *)
(* overlapped it or came later, never one that had been given out before   *)
(* the reset was asked for.  Only the guest gets the configured one back.  *)
(***************************************************************************)
OldPasswordStops ==
    \A c \in Answered :
        LET p == stored[target[c]]
        IN  IF p = 0 THEN target[c] = Guest
            ELSE target[p] = target[c] /\ p \notin before[c]

(***************************************************************************)
(* A password was changed by the account's own request, never the guest's, *)
(* or by a command that names the account, and no other one, whatever      *)
(* else is signed in in the browser and whoever shares its address.        *)
(***************************************************************************)
Names(name, u) ==
    \/ Username[u] = name
    \/ /\ Email[u] = name
       /\ \A v \in Users \ {u} : name \notin {Username[v], Email[v]}

ChangedByItsOwner ==
    \A u \in Users :
        LET c == stored[u]
        IN  c # 0 => \/ kind[c] = "reset" /\ as[c] = u /\ u # Guest
                     \/ kind[c] = "cli" /\ Names(identifier[c], u)

(***************************************************************************)
(* While the backend runs the guest has the configured password, which the *)
(* portal displays, or one that a command has set since the startup.       *)
(***************************************************************************)
GuestPasswordReapplied == up => stored[Guest] \in since \cup {0}

(***************************************************************************)
(* "Regenerating..." does not stay, whatever becomes of the request, of    *)
(* the session and of the other requests.                                  *)
(***************************************************************************)
BusyEnds == busy ~> ~busy
=============================================================================
