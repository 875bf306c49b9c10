--------------------------- MODULE AccountService ---------------------------
(***************************************************************************)
(* What get_or_create_oauth_user, create-user and ensure_guest_user        *)
(* promise, as if each call were one step: the step at which it returns.   *)
(* Any call may fail or die instead, and is then not answered; what it     *)
(* leaves behind may make others fail, but never changes their answers.    *)
(* Module Accounts implements it with one transaction after the other.     *)
(***************************************************************************)
CONSTANTS OAuthCalls, AdminCalls, StartupCalls,
          Identities, IdentityOf,
          Users,      \* ids that an account may get
          NoUser

Calls == OAuthCalls \cup AdminCalls \cup StartupCalls

VARIABLES accounts,   \* accounts that calls have returned: usable ever after
          owner,      \* the account of each identity
          guest,      \* the guest account, if any
          everGuest,  \* accounts that are or were it
          answer      \* what each call returned

vars == <<accounts, owner, guest, everGuest, answer>>

Init ==
    /\ accounts = {}
    /\ owner = [i \in Identities |-> NoUser]
    /\ guest = {} /\ everGuest = {}
    /\ answer = [c \in Calls |-> NoUser]

Answer(c, u) ==
    /\ answer[c] = NoUser
    /\ answer' = [answer EXCEPT ![c] = u]

New(c, u) ==
    /\ u \notin accounts
    /\ accounts' = accounts \cup {u}
    /\ Answer(c, u)

\* The first login of an identity gets an account of its own.
FirstLogin(c) ==
    /\ owner[IdentityOf[c]] = NoUser
    /\ \E u \in Users :
         /\ New(c, u)
         /\ owner' = [owner EXCEPT ![IdentityOf[c]] = u]
    /\ UNCHANGED <<guest, everGuest>>

\* All others get that account.
LaterLogin(c) ==
    /\ owner[IdentityOf[c]] # NoUser
    /\ Answer(c, owner[IdentityOf[c]])
    /\ UNCHANGED <<accounts, owner, guest, everGuest>>

CreateUser(c) ==
    /\ \E u \in Users : New(c, u)
    /\ UNCHANGED <<owner, guest, everGuest>>

CreateGuest(c) ==
    /\ \E u \in Users :
         /\ New(c, u)
         /\ guest' = {u}
         /\ everGuest' = everGuest \cup {u}
    /\ UNCHANGED owner

\* A start of the backend finds the guest; another may take its place by then.
FindGuest(c) ==
    /\ \E u \in everGuest : Answer(c, u)
    /\ UNCHANGED <<accounts, owner, guest, everGuest>>

Next ==
    \/ \E c \in OAuthCalls : FirstLogin(c) \/ LaterLogin(c)
    \/ \E c \in AdminCalls : CreateUser(c)
    \/ \E c \in StartupCalls : CreateGuest(c) \/ FindGuest(c)

Spec == Init /\ [][Next]_vars
=============================================================================
