------------------------------ MODULE Accounts ------------------------------
(***************************************************************************)
(* How user rows come and go: the OAuth login of oauth_identities.py, the  *)
(* admin CLI's create-user and the guest account that every backend start  *)
(* ensures, all on top of users.py and the tables of database.py.          *)
(*                                                                         *)
(* Each element of Calls is one call, in a thread or a process of its own. *)
(* One step of a call is one SQLite transaction (or the SELECT of a        *)
(* connection that writes later) or one change of the Maildir tree;        *)
(* between two steps every other call may move.  A call creates at most    *)
(* one user, and the user is named by the call that created it, as its     *)
(* uuid would.  No code sets users.status, so every row is 'active'.       *)
(***************************************************************************)
EXTENDS Naturals, FiniteSets

CONSTANTS OAuthCalls,    \* get_or_create_oauth_user() with a verified email
          AdminCalls,    \* admin.py create-user
          StartupCalls,  \* ensure_guest_user()
          Identities,    \* (provider, provider_subject)
          Emails,        \* normalized emails
          IdentityOf,    \* identity of each OAuth call
          EmailOf,       \* provider_email that each call would store
          Suffixes,      \* size of the alias ring, 10 000 in the code
          FirstSuffix,   \* initial suffix, a hash of email and identity
          Faults,        \* subset of {"crash", "disk", "locked"}
          Serial,        \* TRUE: a call starts only when no other one runs
          NoUser

Calls == OAuthCalls \cup AdminCalls \cup StartupCalls

ASSUME CallsDisjoint ==
    /\ OAuthCalls \cap (AdminCalls \cup StartupCalls) = {}
    /\ AdminCalls \cap StartupCalls = {}
    /\ NoUser \notin Calls
ASSUME CallParameters ==
    /\ IdentityOf \in [OAuthCalls -> Identities]
    /\ EmailOf \in [Calls -> Emails]
    /\ Suffixes \in Nat \ {0}
    /\ FirstSuffix \in [OAuthCalls -> Nat]
    /\ Serial \in BOOLEAN
\* A mailbox name is an email or an alias, and an alias is a number here.
ASSUME AliasesAreNoEmails == Emails \cap Nat = {}

VARIABLES rows,      \* ids in the table users
          username,  \* imap_username of each row
          guests,    \* rows with is_guest = 1
          public,    \* rows whose password is GUEST_USER_PASSWORD
          link,      \* oauth_identities: the user of each identity
          maildir,   \* ids that have a complete Maildir
          pc,        \* where each call is
          attempt,   \* candidates the call has tried
          user,      \* the user the call is about to return or to use
          error      \* why it failed

tableVars == <<rows, username, guests, public, link>>
vars == <<tableVars, maildir, pc, attempt, user, error>>

Ended == {"done", "failed", "dead"}
Idle(c) == pc[c] = "start" \/ pc[c] \in Ended

\* _oauth_imap_usernames: the ring of aliases that share a prefix.
\* create_user has one candidate, the email.
Candidates(c) == IF c \in OAuthCalls THEN Suffixes ELSE 1
Candidate(c) ==
    IF c \in OAuthCalls
    THEN (FirstSuffix[c] + attempt[c]) % Suffixes
    ELSE EmailOf[c]

Taken(name) == \E u \in rows : username[u] = name
Linked(u) == \E i \in Identities : link[i] = u

-----------------------------------------------------------------------------
Init ==
    /\ rows = {}
    /\ username = [c \in Calls |-> NoUser]
    /\ guests = {}
    /\ public = {}
    /\ link = [i \in Identities |-> NoUser]
    /\ maildir = {}
    /\ pc = [c \in Calls |-> "start"]
    /\ attempt = [c \in Calls |-> 0]
    /\ user = [c \in Calls |-> NoUser]
    /\ error = [c \in Calls |-> "none"]

Goto(c, from, to) ==
    /\ pc[c] = from
    /\ from = "start" /\ Serial => \A d \in Calls : Idle(d)
    /\ pc' = [pc EXCEPT ![c] = to]

Return(c, from, u) ==
    /\ Goto(c, from, "done")
    /\ user' = [user EXCEPT ![c] = u]
    /\ UNCHANGED error

Raise(c, from, why) ==
    /\ Goto(c, from, "failed")
    /\ error' = [error EXCEPT ![c] = why]
    /\ UNCHANGED user

-----------------------------------------------------------------------------
(* The first transaction of each kind of call.                             *)

\* Fault: accounts are looked up by email, as before the 2026-07-21 change.
OAuthLookupByEmail(c) ==
    /\ LET found == {u \in rows : EmailOf[u] = EmailOf[c]}
       IN  \/ \E u \in found :
                /\ Return(c, "start", u)
                /\ link' = [link EXCEPT ![IdentityOf[c]] = u]
           \/ /\ found = {}
              /\ Goto(c, "start", "insert")
              /\ UNCHANGED <<user, error, link>>
    /\ UNCHANGED <<rows, username, guests, public, maildir, attempt>>

OAuthLookup(c) ==
    /\ LET owner == link[IdentityOf[c]]
       IN  \/ owner # NoUser /\ Return(c, "start", owner)
           \/ /\ owner = NoUser
              /\ Goto(c, "start", "insert")
              /\ UNCHANGED <<user, error>>
    /\ UNCHANGED <<tableVars, maildir, attempt>>

\* ensure_guest_user: get_guest_user().
GuestLookup(c) ==
    /\ \/ \E g \in guests :
            /\ Goto(c, "start", "setpassword")
            /\ user' = [user EXCEPT ![c] = g]
       \/ guests = {} /\ Goto(c, "start", "emailcheck") /\ UNCHANGED user
    /\ UNCHANGED <<tableVars, maildir, attempt, error>>

\* create_user: get_user_by_email().  A startup catches UserAlreadyExistsError.
EmailCheck(c) ==
    /\ LET from == IF c \in AdminCalls THEN "start" ELSE "emailcheck"
           exists == \E u \in rows : EmailOf[u] = EmailOf[c]
       IN  \/ ~exists /\ Goto(c, from, "insert") /\ UNCHANGED <<user, error>>
           \/ exists /\ c \in AdminCalls /\ Raise(c, from, "exists")
           \/ /\ exists /\ c \in StartupCalls
              /\ Goto(c, from, "relookup")
              /\ UNCHANGED <<user, error>>
    /\ UNCHANGED <<tableVars, maildir, attempt>>

-----------------------------------------------------------------------------
(* _create_user                                                            *)

Insert(c) ==
    /\ \/ /\ ~Taken(Candidate(c))
          /\ Goto(c, "insert", "provision")
          /\ rows' = rows \cup {c}
          /\ username' = [username EXCEPT ![c] = Candidate(c)]
          /\ public' = IF c \in StartupCalls THEN public \cup {c} ELSE public
       \/ /\ Taken(Candidate(c))
          /\ Goto(c, "insert", "collision")
          /\ UNCHANGED <<rows, username, public>>
    /\ UNCHANGED <<guests, link, maildir, attempt, user, error>>

(***************************************************************************)
(* The SELECT that follows an IntegrityError: a collision with a row that  *)
(* is still there moves on to the next candidate, any other is raised.     *)
(***************************************************************************)
Collision(c) ==
    /\ \/ /\ Taken(Candidate(c)) /\ attempt[c] + 1 < Candidates(c)
          /\ Goto(c, "collision", "insert")
          /\ attempt' = [attempt EXCEPT ![c] = @ + 1]
          /\ UNCHANGED <<user, error>>
       \/ /\ Taken(Candidate(c)) /\ attempt[c] + 1 = Candidates(c)
          /\ IF c \in StartupCalls
             THEN Goto(c, "collision", "relookup") /\ UNCHANGED <<user, error>>
             ELSE Raise(c, "collision", "exhausted")
          /\ UNCHANGED attempt
       \/ /\ ~Taken(Candidate(c))
          /\ Raise(c, "collision", "integrity")
          /\ UNCHANGED attempt
    /\ UNCHANGED <<tableVars, maildir>>

Provision(c) ==
    /\ maildir' = maildir \cup {c}
    /\ \/ c \in OAuthCalls /\ Goto(c, "provision", "find") /\ UNCHANGED <<user, error>>
       \/ c \in AdminCalls /\ Return(c, "provision", c)
       \/ c \in StartupCalls /\ Goto(c, "provision", "mark") /\ UNCHANGED <<user, error>>
    /\ UNCHANGED <<tableVars, attempt>>

\* Fault: the error is logged and the account used as it is.
ProvisionFailsUnnoticed(c) ==
    /\ "disk" \in Faults
    /\ Goto(c, "provision", IF c \in OAuthCalls THEN "find" ELSE "mark")
    /\ UNCHANGED <<tableVars, maildir, attempt, user, error>>

\* _provision_maildir raises OSError; _delete_user undoes the INSERT.
ProvisionFails(c) ==
    /\ "disk" \in Faults
    /\ Goto(c, "provision", "undo")
    /\ UNCHANGED <<tableVars, maildir, attempt, user, error>>

Undo(c) ==
    /\ Raise(c, "undo", "disk")
    /\ rows' = rows \ {c}
    /\ public' = public \ {c}
    /\ UNCHANGED <<username, guests, link, maildir, attempt>>

-----------------------------------------------------------------------------
(* get_or_create_oauth_user, once it has created its user                  *)

\* The SELECT of the connection that links.
FindWinner(c) ==
    /\ LET owner == link[IdentityOf[c]]
       IN  \/ /\ owner = NoUser
              /\ Goto(c, "find", "link")
              /\ UNCHANGED user
           \/ /\ owner # NoUser
              /\ Goto(c, "find", "discard")
              /\ user' = [user EXCEPT ![c] = owner]
    /\ UNCHANGED <<tableVars, maildir, attempt, error>>

\* Fault: INSERT OR REPLACE, so that the last login owns the identity.
LinkReplacing(c) ==
    /\ Return(c, "link", c)
    /\ link' = [link EXCEPT ![IdentityOf[c]] = c]
    /\ UNCHANGED <<rows, username, guests, public, maildir, attempt>>

\* Fault: the loser of the race returns the winner and keeps its own user.
LinkKeepingLoser(c) ==
    /\ LET owner == link[IdentityOf[c]]
       IN  \/ /\ owner = NoUser
              /\ Return(c, "link", c)
              /\ link' = [link EXCEPT ![IdentityOf[c]] = c]
           \/ /\ owner # NoUser
              /\ Return(c, "link", owner)
              /\ UNCHANGED link
    /\ UNCHANGED <<rows, username, guests, public, maildir, attempt>>

\* The INSERT; the primary key of oauth_identities decides the race.
Link(c) ==
    /\ LET owner == link[IdentityOf[c]]
       IN  \/ /\ owner = NoUser
              /\ Return(c, "link", c)
              /\ link' = [link EXCEPT ![IdentityOf[c]] = c]
           \/ /\ owner # NoUser
              /\ Goto(c, "link", "discard")
              /\ user' = [user EXCEPT ![c] = owner]
              /\ UNCHANGED <<error, link>>
    /\ UNCHANGED <<rows, username, guests, public, maildir, attempt>>

\* Fault: the arguments are swapped, the winner's row goes.
DiscardWinner(c) ==
    /\ Goto(c, "discard", "rmtree")
    /\ rows' = rows \ {user[c]}
    /\ UNCHANGED <<username, guests, public, link, maildir, attempt, user, error>>

\* delete_orphaned_user: DELETE ... AND NOT EXISTS (a linked identity).
Discard(c) ==
    /\ Goto(c, "discard", "rmtree")
    /\ rows' = {u \in rows : u # c \/ Linked(u)}
    /\ UNCHANGED <<username, guests, public, link, maildir, attempt, user, error>>

\* Fault: the loser of the race returns its own user in place of the winner.
RemoveMaildirOfReturned(c) ==
    /\ \/ maildir' = {u \in maildir : u # c \/ u \in rows}
       \/ "disk" \in Faults /\ UNCHANGED maildir
    /\ \/ user[c] # NoUser /\ Return(c, "rmtree", c)
       \/ user[c] = NoUser /\ Raise(c, "rmtree", "locked")
    /\ UNCHANGED <<tableVars, attempt>>

\* The Maildir of a deleted row follows, unless rmtree meets an error, which it
\* ignores; then the winner is returned or the error re-raised.
RemoveMaildir(c) ==
    /\ \/ maildir' = {u \in maildir : u # c \/ u \in rows}
       \/ "disk" \in Faults /\ UNCHANGED maildir
    /\ \/ user[c] # NoUser /\ Return(c, "rmtree", user[c])
       \/ user[c] = NoUser /\ Raise(c, "rmtree", "locked")
    /\ UNCHANGED <<tableVars, attempt>>

-----------------------------------------------------------------------------
(* ensure_guest_user, after create_user                                    *)

\* Fault: only the new guest is marked, an earlier one keeps its mark.
MarkAnother(c) ==
    /\ c \in rows
    /\ Return(c, "mark", c)
    /\ guests' = guests \cup {c}
    /\ UNCHANGED <<rows, username, public, link, maildir, attempt>>

\* mark_user_as_guest: one transaction moves the mark.
Mark(c) ==
    /\ c \in rows
    /\ Return(c, "mark", c)
    /\ guests' = {c}
    /\ UNCHANGED <<rows, username, public, link, maildir, attempt>>

\* After UserAlreadyExistsError: the guest may be there by now.
Relookup(c) ==
    /\ \/ \E g \in guests :
            /\ Goto(c, "relookup", "setpassword")
            /\ user' = [user EXCEPT ![c] = g]
            /\ UNCHANGED error
       \/ guests = {} /\ Raise(c, "relookup", "exists")
    /\ UNCHANGED <<tableVars, maildir, attempt>>

\* set_imap_password: the configured password is applied again.  It raises
\* when the row is gone, which no step of any call makes possible.
SetPassword(c) ==
    /\ Return(c, "setpassword", user[c])
    /\ user[c] \in rows
    /\ public' = public \cup {user[c]}
    /\ UNCHANGED <<rows, username, guests, link, maildir, attempt>>

-----------------------------------------------------------------------------
(***************************************************************************)
(* sqlite3.OperationalError, "database is locked", in place of a           *)
(* transaction.  While it links, an OAuth call discards its user first.    *)
(***************************************************************************)
DatabaseLocked(c) ==
    /\ "locked" \in Faults
    /\ \/ /\ pc[c] \in {"find", "link"}
          /\ Goto(c, pc[c], "discard")
          /\ UNCHANGED error
       \/ /\ pc[c] \in {"start", "emailcheck", "insert", "collision", "undo",
                        "discard", "mark", "relookup", "setpassword"}
          /\ Raise(c, pc[c], "locked")
    /\ UNCHANGED <<tableVars, maildir, attempt, user>>

\* The process of the call dies between two steps.
Crash(c) ==
    /\ "crash" \in Faults
    /\ ~Idle(c)
    /\ Goto(c, pc[c], "dead")
    /\ UNCHANGED <<tableVars, maildir, attempt, user, error>>

Login(c) ==
    \/ OAuthLookup(c) \/ FindWinner(c) \/ Link(c)
    \/ Discard(c) \/ RemoveMaildir(c)

Startup(c) == GuestLookup(c) \/ Mark(c) \/ Relookup(c) \/ SetPassword(c)

CreateUser(c) ==
    \/ Insert(c) \/ Collision(c)
    \/ Provision(c) \/ ProvisionFails(c) \/ Undo(c)

Next ==
    \/ \E c \in OAuthCalls : Login(c)
    \/ \E c \in StartupCalls : Startup(c)
    \/ \E c \in AdminCalls \cup StartupCalls : EmailCheck(c)
    \/ \E c \in Calls : CreateUser(c) \/ DatabaseLocked(c) \/ Crash(c)

Spec == Init /\ [][Next]_vars

-----------------------------------------------------------------------------
Labels == {"start", "emailcheck", "insert", "collision", "provision", "undo",
           "find", "link", "discard", "rmtree", "mark", "relookup",
           "setpassword"} \cup Ended

TypeOK ==
    /\ rows \subseteq Calls
    /\ username \in [Calls -> Emails \cup Nat \cup {NoUser}]
    /\ guests \subseteq rows
    /\ public \subseteq rows
    /\ link \in [Identities -> Calls \cup {NoUser}]
    /\ maildir \subseteq Calls
    /\ pc \in [Calls -> Labels]
    /\ attempt \in [Calls -> 0 .. Suffixes - 1]
    /\ user \in [Calls -> Calls \cup {NoUser}]
    /\ error \in [Calls -> {"none", "exists", "exhausted", "integrity", "disk",
                            "locked"}]

(***************************************************************************)
(* A linked identity always leads to an account that can be used: its row  *)
(* is there, its mailbox is provisioned.  Losing calls delete users while  *)
(* others link them.                                                       *)
(***************************************************************************)
LinkedAccountUsable ==
    \A i \in Identities :
        link[i] # NoUser => link[i] \in rows /\ link[i] \in maildir

(***************************************************************************)
(* What a call returned stays valid: the row and the mailbox of every user *)
(* that a login, a create-user or a startup has returned are there.        *)
(***************************************************************************)
ReturnedAccountUsable ==
    \A c \in Calls :
        pc[c] = "done" => user[c] \in rows /\ user[c] \in maildir

(***************************************************************************)
(* All logins of one identity, however they race, return one account.      *)
(***************************************************************************)
SameIdentitySameAccount ==
    \A c, d \in OAuthCalls :
        /\ pc[c] = "done" /\ pc[d] = "done"
        /\ IdentityOf[c] = IdentityOf[d]
        => user[c] = user[d]

(***************************************************************************)
(* Two identities never share an account, even with the same email: the    *)
(* identity is (provider, subject).                                        *)
(***************************************************************************)
IdentitiesIsolated ==
    \A i, j \in Identities :
        link[i] = link[j] /\ link[i] # NoUser => i = j

(***************************************************************************)
(* When all calls have ended, no OAuth user is left that nobody can log in *)
(* to: the rows of those that lost a race or could not be provisioned are  *)
(* gone, and only a crash or a locked database leaves one.  (A mailbox may *)
(* outlive its row, because rmtree ignores its errors.)                    *)
(***************************************************************************)
NoOrphans ==
    (\A c \in Calls : pc[c] \in {"done", "failed"} /\ error[c] # "locked") =>
        \A u \in OAuthCalls : u \in rows => Linked(u)

(***************************************************************************)
(* The guest account, whatever startups race, fail or die: there is only   *)
(* one, and it can be used from a mail client as the start page says, with *)
(* its mailbox there and the configured password on it.                    *)
(***************************************************************************)
GuestUsable ==
    /\ \A g, h \in guests : g = h
    /\ guests \subseteq public \cap maildir

\* The account of an identity never changes and is never deleted.
IdentityStable ==
    [][\A i \in Identities :
         link[i] # NoUser => link'[i] = link[i] /\ link[i] \in rows']_vars

(***************************************************************************)
(* guest_retention.py:33 and OPERATING.md ("The automatic creation is      *)
(* idempotent"): a startup finds the account that another startup created, *)
(* it does not fail because of it.                                         *)
(***************************************************************************)
StartupSucceeds == \A c \in StartupCalls : error[c] # "exists"

(***************************************************************************)
(* The refinement mapping: a call takes effect when it returns, and what   *)
(* counts as an account is a row with its Maildir that a call returned.    *)
(***************************************************************************)
Service == INSTANCE AccountService WITH
    Users <- Calls,
    accounts <- {u \in rows \cap maildir :
                   \E c \in Calls : pc[c] = "done" /\ user[c] = u},
    owner <- link,
    guest <- guests,
    everGuest <- {u \in StartupCalls : pc[u] = "done" /\ user[u] = u},
    answer <- [c \in Calls |-> IF pc[c] = "done" THEN user[c] ELSE NoUser]

(***************************************************************************)
(* Every login, create-user and startup, in however many transactions and  *)
(* however they race, fail or die, is answered as if it had been one step: *)
(* get_or_create_oauth_user is atomic for those who call it.               *)
(***************************************************************************)
ImplementsAccountService == Service!Spec
=============================================================================
