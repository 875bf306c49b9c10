----------------------------- MODULE WebSession -----------------------------
(***************************************************************************)
(* The session of one browser (backend/auth_routes.py, auth_deps.py,       *)
(* oauth.py, application_routes.py).                                       *)
(*                                                                         *)
(* The server keeps no sessions: the whole session is in a signed cookie.  *)
(* A request carries the cookie of the moment at which it is sent; its     *)
(* handler works on that copy, and Starlette's SessionMiddleware sends the *)
(* copy back with the answer, changed or not.  Requests of several tabs    *)
(* overlap, and the answer that arrives last decides what the browser      *)
(* keeps.                                                                  *)
(*                                                                         *)
(* The cookie also holds a login that has been started: the `state' that   *)
(* the provider will repeat to the callback, and the page to return to.    *)
(* A login is named by the request that started it, a session by the       *)
(* request that signed in (login_nonce).                                   *)
(***************************************************************************)
EXTENDS Integers, FiniteSets

CONSTANTS Calls,          \* requests of the browser
          Inputs,         \* what each of them may be: route and parameters
          Users, Guest,   \* accounts; the guest account is one of them
          Supported,      \* SUPPORTED_PROVIDERS
          Registered,     \* those with client id and secret
          Configured,     \* those that also have a redirect URI
          AnyProvider,    \* what may stand in a URL
          Paths, Home,    \* application pages; Home is /record
          AnyPath,        \* what return_to may be
          Claims,         \* userinfo that a provider may send
          None

VARIABLES jar,       \* the session in the browser's cookie
          stage,     \* of each call: idle, sent, exchanging, exchanged, answered, over
          request,   \* what it asks for
          carried,   \* the session that it was sent with
          answer,    \* status, location, and the session that it sets
          consent,   \* what the provider did with each login
          used,      \* logins whose code was exchanged
          active,    \* users whose status is active
          ended      \* history: sessions that a logout has ended

callVars == <<stage, request, carried, answer>>
outsideVars == <<consent, used, active, ended>>
vars == <<jar, callVars, outsideVars>>

Empty == [user |-> None, nonce |-> None, path |-> None, pending |-> None]
SignedIn(user, c) ==
    [user |-> user, nonce |-> c, path |-> None, pending |-> None]
Pending(path, l) ==
    [user |-> None, nonce |-> None, path |-> path, pending |-> l]
NoRequest == [op |-> "none", provider |-> None, login |-> None, path |-> None]
NoAnswer == [code |-> "none", path |-> None, cookie |-> None]
NoConsent == [kind |-> "none", user |-> None, claims |-> None]

ASSUME SessionsTyped ==
    /\ Guest \in Users
    /\ Configured \subseteq Registered /\ Registered \subseteq Supported
    /\ Supported \subseteq AnyProvider
    /\ Home \in Paths /\ Paths \subseteq AnyPath
    /\ None \notin Calls \cup Users \cup AnyProvider \cup AnyPath
    /\ None \notin Claims /\ None # Empty
    /\ \A c \in Calls : Inputs[c] \subseteq
         [op : {"login", "callback", "logout", "guest", "api"},
          provider : AnyProvider \cup {None}, path : AnyPath \cup {None}]
    /\ \A claims \in Claims :
         claims \in [subject : BOOLEAN, email : BOOLEAN,
                    verified : {"yes", "no", "text true", "text other", "absent"}]

-----------------------------------------------------------------------------
(* application_routes.py and the checks of oauth.py                        *)

\* safe_application_return_path: a page of the application, or /record.
SafePath(path) == IF path \in Paths THEN path ELSE Home

\* _email_verified: a Boolean, a text, or whatever Microsoft leaves out.
EmailVerified(provider, claims) ==
    \/ claims.verified \in {"yes", "text true"}
    \/ claims.verified = "absent" /\ provider = "microsoft"

\* Fault: a claim that is missing counts for every provider.
AcceptableUnlessDenied(provider, claims) ==
    /\ claims # None /\ claims.subject /\ claims.email
    /\ claims.verified \notin {"no", "text other"}

\* extract_userinfo_identity does not raise, and there was a userinfo.
Acceptable(provider, claims) ==
    /\ claims # None /\ claims.subject /\ claims.email
    /\ EmailVerified(provider, claims)

-----------------------------------------------------------------------------
Init ==
    /\ jar = Empty
    /\ stage = [c \in Calls |-> "idle"]
    /\ request = [c \in Calls |-> NoRequest]
    /\ carried = [c \in Calls |-> Empty]
    /\ answer = [c \in Calls |-> NoAnswer]
    /\ consent = [c \in Calls |-> NoConsent]
    /\ used = {}
    /\ active = Users
    /\ ended = {}

InFlight(c) == stage[c] \in {"sent", "exchanging", "exchanged", "answered"}

(***************************************************************************)
(* What the browser may ask: the provider sends it back to the callback,   *)
(* again if the page is reloaded, or somebody opens the URL as it is.      *)
(***************************************************************************)
Returned(provider) ==
    {l \in Calls : /\ consent[l].kind \in {"denied", "granted"}
                   /\ request[l].provider = provider}

Send(c) ==
    /\ stage[c] = "idle"
    /\ \E input \in Inputs[c] :
       \E l \in {None} \cup IF input.op = "callback"
                          THEN Returned(input.provider) ELSE {} :
         request' = [request EXCEPT ![c] =
             [op |-> input.op, provider |-> input.provider,
              path |-> input.path, login |-> l]]
    /\ stage' = [stage EXCEPT ![c] = "sent"]
    /\ carried' = [carried EXCEPT ![c] = jar]
    /\ UNCHANGED <<jar, answer, outsideVars>>

\* The middleware sends the session, or deletes the cookie of one that was.
Cookie(before, after) ==
    IF before = Empty /\ after = Empty THEN None ELSE after

Reply(c, code, path, session) ==
    /\ stage' = [stage EXCEPT ![c] = "answered"]
    /\ answer' = [answer EXCEPT ![c] =
         [code |-> code, path |-> path, cookie |-> Cookie(carried[c], session)]]
    /\ UNCHANGED <<jar, request, carried, consent, active, ended>>

Refuse(c, code, session) == Reply(c, code, None, session) /\ UNCHANGED used

\* An exception that no handler expects passes the middleware: no cookie.
ServerError(c) ==
    /\ stage' = [stage EXCEPT ![c] = "answered"]
    /\ answer' = [answer EXCEPT ![c] =
         [code |-> "500", path |-> None, cookie |-> None]]
    /\ UNCHANGED <<jar, request, carried, consent, active, ended>>

Handles(c, op) == stage[c] = "sent" /\ request[c].op = op

\* get_oauth_client; the login, and only the login, has to build_redirect_uri.
BadProvider(c, usable) ==
    \/ request[c].provider \notin Supported /\ Refuse(c, "404", carried[c])
    \/ request[c].provider \in Supported \ usable /\ Refuse(c, "503", carried[c])

-----------------------------------------------------------------------------
\* Fault: the session is not cleared before a login: older ones stay pending.
OAuthLoginOverSession(c) ==
    /\ Handles(c, "login")
    /\ \/ BadProvider(c, Configured)
       \/ /\ request[c].provider \in Configured
          /\ Reply(c, "302", None,
               [carried[c] EXCEPT !.path = SafePath(request[c].path),
                  !.pending = IF @ = None THEN c ELSE @])
          /\ UNCHANGED used

(***************************************************************************)
(* oauth_login: a new session, with the login that now begins.  Authlib    *)
(* may fail to get the provider's metadata.                                *)
(***************************************************************************)
OAuthLogin(c) ==
    /\ Handles(c, "login")
    /\ \/ BadProvider(c, Configured)
       \/ /\ request[c].provider \in Configured
          /\ \/ Reply(c, "302", None, Pending(SafePath(request[c].path), c))
             \/ ServerError(c)
          /\ UNCHANGED used

(***************************************************************************)
(* oauth_callback up to the exchange of the code.  Authlib raises when the *)
(* provider reports an error, and when the session has not this state.     *)
(***************************************************************************)
CallbackRefused(c) ==
    /\ Handles(c, "callback")
    /\ \/ BadProvider(c, Registered)
       \/ /\ request[c].provider \in Registered
          /\ \/ request[c].login = None
             \/ /\ request[c].login # None
                /\ \/ consent[request[c].login].kind = "denied"
                   \/ carried[c].pending # request[c].login
          /\ Refuse(c, "400", carried[c])

CallbackExchanges(c) ==
    /\ Handles(c, "callback")
    /\ request[c].provider \in Registered
    /\ request[c].login # None
    /\ consent[request[c].login].kind = "granted"
    /\ carried[c].pending = request[c].login
    /\ stage' = [stage EXCEPT ![c] = "exchanging"]
    /\ UNCHANGED <<jar, request, carried, answer, outsideVars>>

\* The state is taken out of the session before the exchange.
AfterExchange(c) == [carried[c] EXCEPT !.pending = None]

\* The provider takes a code once.
CodeAccepted(c) ==
    /\ stage[c] = "exchanging"
    /\ request[c].login \notin used
    /\ used' = used \cup {request[c].login}
    /\ stage' = [stage EXCEPT ![c] = "exchanged"]
    /\ UNCHANGED <<jar, request, carried, answer, consent, active, ended>>

CodeRejected(c) ==
    /\ stage[c] = "exchanging"
    /\ request[c].login \in used
    /\ Refuse(c, "400", AfterExchange(c))

\* The network, the keys of the provider or the token it sent; after the
\* exchange also the database or the disk.
CallbackFails(c) ==
    /\ stage[c] \in {"exchanging", "exchanged"}
    /\ ServerError(c)
    /\ UNCHANGED used

\* OAuthUserInfoError or no userinfo: 400; OAuthIdentityError: 403.
IdentityRejected(c) ==
    LET identity == consent[request[c].login]
    IN  /\ stage[c] = "exchanged"
        /\ \/ /\ ~Acceptable(request[c].provider, identity.claims)
              /\ Refuse(c, "400", AfterExchange(c))
           \/ /\ Acceptable(request[c].provider, identity.claims)
              /\ identity.user \notin active
              /\ Refuse(c, "403", AfterExchange(c))

CallbackSignsIn(c) ==
    LET identity == consent[request[c].login]
    IN  /\ stage[c] = "exchanged"
        /\ Acceptable(request[c].provider, identity.claims)
        /\ identity.user \in active
        /\ Reply(c, "303", SafePath(carried[c].path), SignedIn(identity.user, c))
        /\ UNCHANGED used

-----------------------------------------------------------------------------
\* Fault: the user is taken out of the session, its nonce stays.
LogoutUser(c) ==
    /\ Handles(c, "logout")
    /\ Refuse(c, "204", [carried[c] EXCEPT !.user = None])

Logout(c) ==
    /\ Handles(c, "logout")
    /\ Refuse(c, "204", Empty)

GuestLogin(c) ==
    /\ Handles(c, "guest")
    /\ \/ Guest \in active /\ Refuse(c, "204", SignedIn(Guest, c))
       \/ Guest \notin active /\ Refuse(c, "503", carried[c])

\* Any other route: current_active_user, then the route's own work.
CurrentActiveUser(c) ==
    /\ Handles(c, "api")
    /\ \/ carried[c].user = None /\ Refuse(c, "401", carried[c])
       \/ carried[c].user \in Users \ active /\ Refuse(c, "401", Empty)
       \/ carried[c].user \in active /\ Refuse(c, "200", carried[c])

-----------------------------------------------------------------------------
\* The session of a logout is over if no other request carries it any more.
Ended(c) ==
    {n \in {carried[c].nonce} \ {None} :
        /\ request[c].op = "logout"
        /\ \A d \in Calls \ {c} : InFlight(d) => carried[d].nonce # n}

\* The request is done with; what it asked for stays on record.
Over(c) ==
    /\ stage[c] = "answered"
    /\ stage' = [stage EXCEPT ![c] = "over"]
    /\ carried' = [carried EXCEPT ![c] = Empty]
    /\ answer' = [answer EXCEPT ![c] = NoAnswer]
    /\ UNCHANGED request

\* The answer arrives; a redirect to the provider is followed.
Deliver(c) ==
    /\ Over(c)
    /\ jar' = IF answer[c].cookie = None THEN jar ELSE answer[c].cookie
    /\ consent' = IF answer[c].code = "302"
                  THEN [consent EXCEPT ![c].kind = "asked"] ELSE consent
    /\ ended' = ended \cup Ended(c)
    /\ UNCHANGED <<used, active>>

\* The connection breaks, or the page is left before the answer arrives.
Lose(c) ==
    /\ Over(c)
    /\ UNCHANGED <<jar, outsideVars>>

\* The user signs in with the provider, or gives it up there.
Consent(l) ==
    /\ consent[l].kind = "asked"
    /\ \/ consent' = [consent EXCEPT ![l].kind = "denied"]
       \/ \E user \in Users \ {Guest}, claims \in Claims \cup {None} :
            consent' = [consent EXCEPT ![l] =
                [kind |-> "granted", user |-> user, claims |-> claims]]
    /\ UNCHANGED <<jar, callVars, used, active, ended>>

\* After SESSION_MAX_AGE_SECONDS without an answer, or by hand.
CookieExpires ==
    /\ jar # Empty
    /\ jar' = Empty
    /\ UNCHANGED <<callVars, outsideVars>>

\* The operator disables an account.
Disable(user) ==
    /\ user \in active
    /\ active' = active \ {user}
    /\ UNCHANGED <<jar, callVars, consent, used, ended>>

Callback(c) ==
    \/ CallbackRefused(c) \/ CallbackExchanges(c)
    \/ CodeAccepted(c) \/ CodeRejected(c) \/ CallbackFails(c)
    \/ IdentityRejected(c) \/ CallbackSignsIn(c)

Next ==
    \/ \E c \in Calls :
         \/ Send(c) \/ Deliver(c) \/ Lose(c) \/ Consent(c)
         \/ OAuthLogin(c) \/ Callback(c)
         \/ Logout(c) \/ GuestLogin(c) \/ CurrentActiveUser(c)
    \/ CookieExpires
    \/ \E user \in Users : Disable(user)

Spec == Init /\ [][Next]_vars

-----------------------------------------------------------------------------
(***************************************************************************)
(* A session is signed in or has a login pending, never both, and keeps    *)
(* the page to return to with the login that asked for it.                 *)
(***************************************************************************)
Session(s) ==
    \/ s = Empty
    \/ \E user \in Users, c \in Calls : s = SignedIn(user, c)
    \/ \E path \in Paths, l \in Calls \cup {None} : s = Pending(path, l)

TypeOK ==
    /\ Session(jar)
    /\ active \subseteq Users /\ used \subseteq Calls /\ ended \subseteq Calls
    /\ \A c \in Calls :
         /\ stage[c] \in {"idle", "sent", "exchanging", "exchanged", "answered", "over"}
         /\ Session(carried[c])
         /\ answer[c].code \in {"none", "200", "204", "302", "303", "400", "401",
                               "403", "404", "500", "503"}
         /\ answer[c].cookie # None => Session(answer[c].cookie)
         /\ consent[c].kind \in {"none", "asked", "denied", "granted"}

(***************************************************************************)
(* Whichever tabs start and finish logins in whichever order, a login that *)
(* succeeds returns to the page it was started from.                       *)
(***************************************************************************)
LoginReturnsToItsPage ==
    \A c \in Calls : answer[c].code = "303" =>
        answer[c].path = SafePath(request[request[c].login].path)

(***************************************************************************)
(* Who is signed in has pressed the guest button, or has come back from a  *)
(* provider that was asked by this browser and vouches for the address:    *)
(* Google says so, Microsoft at least does not say otherwise.              *)
(***************************************************************************)
Vouched(provider, claims) ==
    /\ claims.subject /\ claims.email
    /\ claims.verified \notin {"no", "text other"}
    /\ provider = "google" => claims.verified # "absent"

Origin(s) ==
    LET by == s.nonce
        l == request[by].login
    IN  \/ request[by].op = "guest" /\ s.user = Guest
        \/ /\ request[by].op = "callback"
           /\ l \in used /\ request[l].op = "login"
           /\ request[l].provider = request[by].provider
           /\ s.user = consent[l].user
           /\ Vouched(request[l].provider, consent[l].claims)

SignedInByItsLogin == jar.user # None => Origin(jar)

(***************************************************************************)
(* A session that was signed out while no other request carried it does    *)
(* not come back, whatever is answered later.  (One that a request in      *)
(* flight carries does come back with its answer.)                         *)
(***************************************************************************)
LogoutIsFinal ==
    /\ jar.nonce \notin ended
    /\ \A c \in Calls : InFlight(c) => carried[c].nonce \notin ended \ {None}
=============================================================================
