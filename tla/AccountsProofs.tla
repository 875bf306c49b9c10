---------------------------- MODULE AccountsProofs ----------------------------
(***************************************************************************)
(* The account protocol of Accounts.tla keeps its promises for any calls,  *)
(* identities, emails, alias rings and faults.                             *)
(*                                                                         *)
(* The argument: a user that a call has returned is settled, that is, the  *)
(* call that created it is done and the row and the mailbox are there.     *)
(* Calls only ever delete the user that they created themselves and have   *)
(* not returned, so a settled user stays settled.  Everything that refers  *)
(* to a user (a link, the guest mark, a return value, a local variable of  *)
(* a call that is about to return it) refers to a settled one.             *)
(***************************************************************************)
EXTENDS Accounts, TLAPS

Settled(u) == u \in Calls /\ pc[u] = "done" /\ u \in rows \cap maildir

\* Where the user that a call creates is, while the call goes on.
Created ==
    \A c \in Calls :
        /\ pc[c] \in {"provision", "undo", "find", "link", "mark"} => c \in rows
        /\ pc[c] \in {"find", "link", "mark"} => c \in maildir
        /\ c \in StartupCalls /\ pc[c] \in {"provision", "mark"} => c \in public

\* A link belongs to the call that made it.
Links ==
    \A i \in Identities :
        link[i] # NoUser =>
            link[i] \in OAuthCalls /\ IdentityOf[link[i]] = i /\ Settled(link[i])

Guests ==
    /\ public \subseteq StartupCalls
    /\ guests \subseteq public
    /\ \A g \in guests : Settled(g)
    /\ \A g, h \in guests : g = h

\* Where the labels of the three kinds of calls may be.
Places ==
    /\ \A c \in OAuthCalls :
         pc[c] \notin {"emailcheck", "mark", "relookup", "setpassword"}
    /\ \A c \in AdminCalls \cup StartupCalls :
         pc[c] \notin {"find", "link", "discard", "rmtree"}

\* What the variable user of a call refers to.
Users ==
    /\ \A c \in OAuthCalls :
         \/ pc[c] = "done" /\ user[c] = link[IdentityOf[c]]
         \/ user[c] \in {NoUser, link[IdentityOf[c]]} /\ pc[c] # "done"
    /\ \A c \in Calls :
         /\ pc[c] = "done" => Settled(user[c])
         /\ pc[c] = "setpassword" => user[c] \in StartupCalls /\ Settled(user[c])

AccountsInv == TypeOK /\ Created /\ Links /\ Guests /\ Places /\ Users

\* What a call of an OAuth login leaves behind, for NoOrphans.
Remains ==
    \A c \in OAuthCalls :
        /\ pc[c] \in {"start", "insert", "collision"} => c \notin rows \cup maildir
        /\ pc[c] \in {"provision", "undo"} => c \notin maildir
        /\ pc[c] = "rmtree" => c \notin rows
        /\ pc[c] = "done" => Linked(c) \/ c \notin rows
        /\ pc[c] = "failed" /\ error[c] # "locked" => c \notin rows

-----------------------------------------------------------------------------
(* AccountsInv is inductive.                                               *)

\* Nobody is there yet.
LEMMA InitInv == Init => AccountsInv /\ Remains
BY CallsDisjoint, CallParameters
DEF Init, AccountsInv, TypeOK, Created, Links, Guests, Places, Users, Calls,
    Labels, Remains

(***************************************************************************)
(* A call changes only its own row and Maildir; the one it deletes is its  *)
(* own, which nobody refers to.                                            *)
(***************************************************************************)
LEMMA StepInv == AccountsInv /\ [Next]_vars => AccountsInv'
<1> SUFFICES ASSUME AccountsInv, [Next]_vars PROVE AccountsInv'
  OBVIOUS
<1> USE CallsDisjoint, CallParameters
    DEF AccountsInv, TypeOK, Created, Links, Guests, Places, Users, Settled,
        Calls,
        Labels, Ended, tableVars
<1>1. ASSUME NEW c \in OAuthCalls, OAuthLookup(c) PROVE AccountsInv'
  BY <1>1, SMTT(60) DEF OAuthLookup, Goto, Return
<1>2. ASSUME NEW c \in StartupCalls, GuestLookup(c) PROVE AccountsInv'
  BY <1>2 DEF GuestLookup, Goto
<1>3. ASSUME NEW c \in AdminCalls \cup StartupCalls, EmailCheck(c)
      PROVE AccountsInv'
  BY <1>3 DEF EmailCheck, Goto, Raise
<1>4. ASSUME NEW c \in Calls, Insert(c) PROVE AccountsInv'
  BY <1>4 DEF Insert, Candidate, Taken, Goto
<1>5. ASSUME NEW c \in Calls, Collision(c) PROVE AccountsInv'
  BY <1>5 DEF Collision, Candidates, Goto, Raise
<1>6. ASSUME NEW c \in Calls, Provision(c) PROVE AccountsInv'
  BY <1>6 DEF Provision, Goto, Return
<1>7. ASSUME NEW c \in Calls, ProvisionFails(c) PROVE AccountsInv'
  BY <1>7 DEF ProvisionFails, Goto
<1>8. ASSUME NEW c \in Calls, Undo(c) PROVE AccountsInv'
  BY <1>8 DEF Undo, Goto, Raise
<1>9. ASSUME NEW c \in OAuthCalls, FindWinner(c) PROVE AccountsInv'
  BY <1>9 DEF FindWinner, Goto
<1>10. ASSUME NEW c \in OAuthCalls, Link(c) PROVE AccountsInv'
  BY <1>10 DEF Link, Goto, Return
<1>11. ASSUME NEW c \in OAuthCalls, Discard(c) PROVE AccountsInv'
  BY <1>11 DEF Discard, Goto
<1>12. ASSUME NEW c \in OAuthCalls, RemoveMaildir(c) PROVE AccountsInv'
  BY <1>12 DEF RemoveMaildir, Goto, Return, Raise
<1>13. ASSUME NEW c \in StartupCalls, Mark(c) PROVE AccountsInv'
  BY <1>13 DEF Mark, Goto, Return
<1>14. ASSUME NEW c \in StartupCalls, Relookup(c) PROVE AccountsInv'
  BY <1>14 DEF Relookup, Goto, Raise
<1>15. ASSUME NEW c \in StartupCalls, SetPassword(c) PROVE AccountsInv'
  BY <1>15 DEF SetPassword, Goto, Return
<1>16. ASSUME NEW c \in Calls, DatabaseLocked(c) PROVE AccountsInv'
  BY <1>16 DEF DatabaseLocked, Goto, Raise
<1>17. ASSUME NEW c \in Calls, Crash(c) PROVE AccountsInv'
  BY <1>17 DEF Crash, Idle, Goto
<1>18. CASE UNCHANGED vars
  BY <1>18 DEF vars
<1> QED
  BY <1>1, <1>2, <1>3, <1>4, <1>5, <1>6, <1>7, <1>8, <1>9, <1>10, <1>11,
    <1>12, <1>13, <1>14, <1>15, <1>16, <1>17, <1>18
  DEF Next, Login, Startup, CreateUser

(***************************************************************************)
(* What calls leave behind is inductive relative to AccountsInv.           *)
(***************************************************************************)
LEMMA StepRemains == AccountsInv /\ Remains /\ [Next]_vars => Remains'
<1> SUFFICES ASSUME AccountsInv, Remains, [Next]_vars PROVE Remains'
  OBVIOUS
<1> USE CallsDisjoint, CallParameters
    DEF AccountsInv, TypeOK, Links, Places, Settled, Calls, Ended, tableVars,
        Remains, Linked
<1>1. ASSUME NEW c \in OAuthCalls, OAuthLookup(c) PROVE Remains'
  BY <1>1 DEF OAuthLookup, Goto, Return
<1>2. ASSUME NEW c \in StartupCalls, GuestLookup(c) PROVE Remains'
  BY <1>2 DEF GuestLookup, Goto
<1>3. ASSUME NEW c \in AdminCalls \cup StartupCalls, EmailCheck(c)
      PROVE Remains'
  BY <1>3 DEF EmailCheck, Goto, Raise
<1>4. ASSUME NEW c \in Calls, Insert(c) PROVE Remains'
  BY <1>4 DEF Insert, Candidate, Taken, Goto
<1>5. ASSUME NEW c \in Calls, Collision(c) PROVE Remains'
  BY <1>5 DEF Collision, Candidates, Goto, Raise
<1>6. ASSUME NEW c \in Calls, Provision(c) PROVE Remains'
  BY <1>6 DEF Provision, Goto, Return
<1>7. ASSUME NEW c \in Calls, ProvisionFails(c) PROVE Remains'
  BY <1>7 DEF ProvisionFails, Goto
<1>8. ASSUME NEW c \in Calls, Undo(c) PROVE Remains'
  BY <1>8 DEF Undo, Goto, Raise
<1>9. ASSUME NEW c \in OAuthCalls, FindWinner(c) PROVE Remains'
  BY <1>9 DEF FindWinner, Goto
<1>10. ASSUME NEW c \in OAuthCalls, Link(c) PROVE Remains'
  BY <1>10 DEF Link, Goto, Return
<1>11. ASSUME NEW c \in OAuthCalls, Discard(c) PROVE Remains'
  BY <1>11 DEF Discard, Goto
<1>12. ASSUME NEW c \in OAuthCalls, RemoveMaildir(c) PROVE Remains'
  BY <1>12 DEF RemoveMaildir, Goto, Return, Raise
<1>13. ASSUME NEW c \in StartupCalls, Mark(c) PROVE Remains'
  BY <1>13 DEF Mark, Goto, Return
<1>14. ASSUME NEW c \in StartupCalls, Relookup(c) PROVE Remains'
  BY <1>14 DEF Relookup, Goto, Raise
<1>15. ASSUME NEW c \in StartupCalls, SetPassword(c) PROVE Remains'
  BY <1>15 DEF SetPassword, Goto, Return
<1>16. ASSUME NEW c \in Calls, DatabaseLocked(c) PROVE Remains'
  BY <1>16 DEF DatabaseLocked, Goto, Raise
<1>17. ASSUME NEW c \in Calls, Crash(c) PROVE Remains'
  BY <1>17 DEF Crash, Idle, Goto
<1>18. CASE UNCHANGED vars
  BY <1>18 DEF vars
<1> QED
  BY <1>1, <1>2, <1>3, <1>4, <1>5, <1>6, <1>7, <1>8, <1>9, <1>10, <1>11,
    <1>12, <1>13, <1>14, <1>15, <1>16, <1>17, <1>18
  DEF Next, Login, Startup, CreateUser

-----------------------------------------------------------------------------
(* Type correctness of the protocol, and the invariant that carries it.    *)
THEOREM AccountsInvariant == Spec => []AccountsInv
<1>1. Init => AccountsInv
  BY InitInv
<1> QED
  BY <1>1, StepInv, PTL DEF Spec

\* Whoever is linked can be used: row and mailbox of a linked account exist.
THEOREM LinkedAlwaysUsable == Spec => []LinkedAccountUsable
<1>1. AccountsInv => LinkedAccountUsable
  BY DEF AccountsInv, Links, Settled, LinkedAccountUsable
<1> QED
  BY <1>1, AccountsInvariant, PTL

\* What a login, a create-user or a startup returned is never taken back.
THEOREM ReturnedAlwaysUsable == Spec => []ReturnedAccountUsable
<1>1. AccountsInv => ReturnedAccountUsable
  BY DEF AccountsInv, Users, Settled, ReturnedAccountUsable
<1> QED
  BY <1>1, AccountsInvariant, PTL

\* However many logins of one identity race, they return one account.
THEOREM LoginsAgree == Spec => []SameIdentitySameAccount
<1>1. AccountsInv => SameIdentitySameAccount
  BY DEF AccountsInv, Users, SameIdentitySameAccount
<1> QED
  BY <1>1, AccountsInvariant, PTL

\* Two identities never share an account, whatever their emails are.
THEOREM IdentitiesAlwaysIsolated == Spec => []IdentitiesIsolated
<1>1. AccountsInv => IdentitiesIsolated
  BY DEF AccountsInv, Links, IdentitiesIsolated
<1> QED
  BY <1>1, AccountsInvariant, PTL

\* There is at most one guest account, and it has mailbox and password.
THEOREM GuestAlwaysUsable == Spec => []GuestUsable
<1>1. AccountsInv => GuestUsable
  BY DEF AccountsInv, Guests, Settled, GuestUsable
<1> QED
  BY <1>1, AccountsInvariant, PTL

\* A linked identity keeps its account, and no call deletes that account.
THEOREM IdentityNeverMoves == Spec => IdentityStable
<1>1. AccountsInv /\ AccountsInv' /\ [Next]_vars =>
        \A i \in Identities :
            link[i] # NoUser => link'[i] = link[i] /\ link[i] \in rows'
  <2> SUFFICES ASSUME AccountsInv, AccountsInv', [Next]_vars,
                      NEW i \in Identities, link[i] # NoUser
               PROVE  link'[i] = link[i] /\ link[i] \in rows'
    OBVIOUS
  <2>1. link' = link \/ \E c \in OAuthCalls : Link(c)
    BY DEF Next, Login, Startup, CreateUser, vars, tableVars, OAuthLookup,
           FindWinner, Discard, RemoveMaildir, GuestLookup, EmailCheck, Mark,
           Relookup, SetPassword, Insert, Collision, Provision, ProvisionFails,
           Undo, DatabaseLocked, Crash
  <2>2. link'[i] = link[i]
    BY <2>1, CallParameters DEF Link, AccountsInv, TypeOK
  <2>3. link[i] \in rows'
    BY <2>2 DEF AccountsInv, Links, Settled
  <2> QED
    BY <2>2, <2>3
<1>2. AccountsInv /\ AccountsInv' /\ [Next]_vars =>
        [\A i \in Identities :
            link[i] # NoUser => link'[i] = link[i] /\ link[i] \in rows']_vars
  BY <1>1
<1> QED
  BY <1>2, AccountsInvariant, PTL DEF Spec, IdentityStable

\* Once every call has ended, without a crash or a locked database, an OAuth
\* user whose row is left is linked, so its owner can log in to it.
THEOREM NothingOrphaned == Spec => []NoOrphans
<1>1. Init => AccountsInv /\ Remains
  BY InitInv
<1>2. AccountsInv /\ Remains /\ [Next]_vars => (AccountsInv /\ Remains)'
  BY StepInv, StepRemains
<1>3. AccountsInv /\ Remains => NoOrphans
  BY DEF Remains, NoOrphans, Calls
<1> QED
  BY <1>1, <1>2, <1>3, PTL DEF Spec

-----------------------------------------------------------------------------
(***************************************************************************)
(* Accounts implements AccountService.  A step either answers no call, and *)
(* then leaves links, guest mark and every returned account as they are,   *)
(* or it answers one call with an account that the promise allows.         *)
(***************************************************************************)

\* Whoever has or had the guest mark has returned itself.
GuestsReturned ==
    /\ \A g \in guests : user[g] = g
    /\ \A c \in StartupCalls :
         pc[c] = "setpassword" => user[user[c]] = user[c]

LEMMA StepGuestsReturned ==
    ASSUME AccountsInv, GuestsReturned, [Next]_vars PROVE GuestsReturned'
<1> USE CallsDisjoint, CallParameters
    DEF AccountsInv, TypeOK, Guests, Users, Settled, Calls, Ended, tableVars,
        GuestsReturned, Places
<1>1. ASSUME NEW c \in OAuthCalls, Login(c) PROVE GuestsReturned'
  BY <1>1 DEF Login, OAuthLookup, FindWinner, Link, Discard, RemoveMaildir, Goto,
              Return, Raise
<1>2. ASSUME NEW c \in StartupCalls, GuestLookup(c) \/ Relookup(c)
      PROVE GuestsReturned'
  BY <1>2 DEF GuestLookup, Relookup, Goto, Raise
<1>3. ASSUME NEW c \in StartupCalls, Mark(c) PROVE GuestsReturned'
  BY <1>3 DEF Mark, Goto, Return
<1>4. ASSUME NEW c \in StartupCalls, SetPassword(c) PROVE GuestsReturned'
  BY <1>4 DEF SetPassword, Goto, Return
<1>5. ASSUME NEW c \in AdminCalls \cup StartupCalls, EmailCheck(c)
      PROVE GuestsReturned'
  BY <1>5 DEF EmailCheck, Goto, Raise
<1>6. ASSUME NEW c \in Calls, CreateUser(c) PROVE GuestsReturned'
  BY <1>6 DEF CreateUser, Insert, Collision, Provision, ProvisionFails, Undo, Goto,
              Return, Raise
<1>7. ASSUME NEW c \in Calls, DatabaseLocked(c) \/ Crash(c) PROVE GuestsReturned'
  BY <1>7 DEF DatabaseLocked, Crash, Idle, Goto, Raise
<1>8. CASE UNCHANGED vars
  BY <1>8 DEF vars
<1> QED
  BY <1>1, <1>2, <1>3, <1>4, <1>5, <1>6, <1>7, <1>8 DEF Next, Startup

\* No call is answered.
Quiet ==
    /\ UNCHANGED <<link, guests>>
    /\ \A c \in Calls :
         /\ pc[c] = "done" <=> pc'[c] = "done"
         /\ pc[c] = "done" => user'[c] = user[c]

\* One call is, with the user u.
Answers(c, u) ==
    /\ pc[c] # "done" /\ pc'[c] = "done" /\ user'[c] = u
    /\ \A d \in Calls \ {c} :
         /\ pc[d] = "done" <=> pc'[d] = "done"
         /\ pc[d] = "done" => user'[d] = user[d]

AnswersAllowed(c) ==
    \/ /\ c \in OAuthCalls /\ Answers(c, c) /\ guests' = guests
       /\ link[IdentityOf[c]] = NoUser
       /\ link' = [link EXCEPT ![IdentityOf[c]] = c]
    \/ /\ c \in OAuthCalls /\ Answers(c, link[IdentityOf[c]])
       /\ link[IdentityOf[c]] # NoUser
       /\ UNCHANGED <<link, guests>>
    \/ c \in AdminCalls /\ Answers(c, c) /\ UNCHANGED <<link, guests>>
    \/ c \in StartupCalls /\ Answers(c, c) /\ link' = link /\ guests' = {c}
    \/ /\ c \in StartupCalls /\ UNCHANGED <<link, guests>>
       /\ \E u \in StartupCalls :
            u # c /\ Answers(c, u) /\ pc[u] = "done" /\ user[u] = u

LEMMA StepAnswers ==
    ASSUME AccountsInv, GuestsReturned, [Next]_vars
    PROVE  Quiet \/ \E c \in Calls : AnswersAllowed(c)
<1> DEFINE Goal == Quiet \/ \E c \in Calls : AnswersAllowed(c)
<1> USE CallsDisjoint, CallParameters
    DEF AccountsInv, TypeOK, Guests, Users, Settled, Calls, Ended, tableVars,
        GuestsReturned, Places
<1>1. ASSUME NEW c \in OAuthCalls, OAuthLookup(c) PROVE Goal
  BY <1>1 DEF OAuthLookup, Goto, Return, Quiet, Answers, AnswersAllowed
<1>2. ASSUME NEW c \in OAuthCalls, FindWinner(c) \/ Discard(c) PROVE Goal
  BY <1>2 DEF FindWinner, Discard, Goto, Quiet
<1>3. ASSUME NEW c \in OAuthCalls, Link(c) PROVE Goal
  BY <1>3 DEF Link, Goto, Return, Quiet, Answers, AnswersAllowed
<1>4. ASSUME NEW c \in OAuthCalls, RemoveMaildir(c) PROVE Goal
  BY <1>4 DEF RemoveMaildir, Goto, Return, Raise, Quiet, Answers, AnswersAllowed
<1>5. ASSUME NEW c \in StartupCalls, GuestLookup(c) \/ Relookup(c) PROVE Goal
  BY <1>5 DEF GuestLookup, Relookup, Goto, Raise, Quiet
<1>6. ASSUME NEW c \in StartupCalls, Mark(c) PROVE Goal
  BY <1>6 DEF Mark, Goto, Return, Answers, AnswersAllowed
<1>7. ASSUME NEW c \in StartupCalls, SetPassword(c) PROVE Goal
  BY <1>7 DEF SetPassword, Goto, Return, Answers, AnswersAllowed
<1>8. ASSUME NEW c \in AdminCalls \cup StartupCalls, EmailCheck(c) PROVE Goal
  BY <1>8 DEF EmailCheck, Goto, Raise, Quiet
<1>9. ASSUME NEW c \in Calls, Provision(c) PROVE Goal
  BY <1>9 DEF Provision, Goto, Return, Quiet, Answers, AnswersAllowed
<1>10. ASSUME NEW c \in Calls,
              Insert(c) \/ Collision(c) \/ ProvisionFails(c) \/ Undo(c)
       PROVE  Goal
  BY <1>10 DEF Insert, Collision, ProvisionFails, Undo, Goto, Raise, Quiet
<1>11. ASSUME NEW c \in Calls, DatabaseLocked(c) \/ Crash(c) PROVE Goal
  BY <1>11 DEF DatabaseLocked, Crash, Idle, Goto, Raise, Quiet
<1>12. CASE UNCHANGED vars
  BY <1>12 DEF vars, Quiet
<1> QED
  BY <1>1, <1>2, <1>3, <1>4, <1>5, <1>6, <1>7, <1>8, <1>9, <1>10, <1>11, <1>12
  DEF Next, Login, Startup, CreateUser

\* The state of the promise.
Returned == {u \in Calls : \E c \in Calls : pc[c] = "done" /\ user[c] = u}
EverGuest == {u \in StartupCalls : pc[u] = "done" /\ user[u] = u}
Outcome == [c \in Calls |-> IF pc[c] = "done" THEN user[c] ELSE NoUser]

ReturnedUsable ==
    {u \in rows \cap maildir : \E c \in Calls : pc[c] = "done" /\ user[c] = u}

\* What has been returned is usable, and was settled before.
LEMMA ReturnedIsUsable ==
    ASSUME AccountsInv
    PROVE  /\ ReturnedUsable = Returned
           /\ \A c \in Calls : pc[c] # "done" => c \notin Returned
BY DEF AccountsInv, Users, Settled, Returned, ReturnedUsable

LEMMA QuietStutters ==
    ASSUME Quiet
    PROVE  /\ Returned' = Returned /\ EverGuest' = EverGuest
           /\ Outcome' = Outcome
BY DEF Quiet, Returned, EverGuest, Outcome, Calls

LEMMA AnswerAdds ==
    ASSUME NEW c \in Calls, NEW u \in Calls, Answers(c, u)
    PROVE  /\ Returned' = Returned \cup {u}
           /\ Outcome[c] = NoUser
           /\ Outcome' = [Outcome EXCEPT ![c] = u]
           /\ c \in StartupCalls /\ u = c => EverGuest' = EverGuest \cup {c}
           /\ c \notin StartupCalls \/ u # c => EverGuest' = EverGuest
<1>1. Returned' = Returned \cup {u}
  BY DEF Answers, Returned
<1>2. Outcome[c] = NoUser /\ Outcome' = [Outcome EXCEPT ![c] = u]
  BY DEF Answers, Outcome
<1>3. c \in StartupCalls /\ u = c => EverGuest' = EverGuest \cup {c}
  BY DEF Answers, EverGuest, Calls
<1>4. c \notin StartupCalls \/ u # c => EverGuest' = EverGuest
  BY DEF Answers, EverGuest, Calls
<1> QED
  BY <1>1, <1>2, <1>3, <1>4

LEMMA ServiceStep ==
    ASSUME AccountsInv, AccountsInv', GuestsReturned, [Next]_vars
    PROVE  [Service!Next]_(Service!vars)
<1> USE CallsDisjoint
<1>1. /\ ReturnedUsable = Returned /\ ReturnedUsable' = Returned'
      /\ \A c \in Calls : pc[c] # "done" => c \notin Returned
  <2>1. (ReturnedUsable = Returned)'
    BY DEF AccountsInv, Users, Settled, Returned, ReturnedUsable
  <2> QED
    BY <2>1, ReturnedIsUsable
<1>2. CASE Quiet
  BY <1>1, <1>2, QuietStutters
  DEF Quiet, Service!vars, Service!Calls, Calls, ReturnedUsable, EverGuest, Outcome
<1>3. ASSUME NEW c \in Calls, AnswersAllowed(c) PROVE Service!Next
  <2> DEFINE New(u) == /\ u \notin ReturnedUsable
                       /\ ReturnedUsable' = ReturnedUsable \cup {u}
                       /\ Outcome[c] = NoUser
                       /\ Outcome' = [Outcome EXCEPT ![c] = u]
  <2>1. ASSUME Answers(c, c)
        PROVE  /\ New(c)
               /\ c \in StartupCalls => EverGuest' = EverGuest \cup {c}
               /\ c \notin StartupCalls => EverGuest' = EverGuest
    BY <1>1, <2>1, AnswerAdds DEF Answers
  <2>2. ASSUME NEW u \in Calls, Answers(c, u), u # c, u \in Returned
        PROVE  /\ Outcome[c] = NoUser
               /\ Outcome' = [Outcome EXCEPT ![c] = u]
               /\ ReturnedUsable' = ReturnedUsable /\ EverGuest' = EverGuest
    BY <1>1, <2>2, AnswerAdds
  <2>3. CASE /\ c \in OAuthCalls /\ Answers(c, c) /\ guests' = guests
             /\ link[IdentityOf[c]] = NoUser
             /\ link' = [link EXCEPT ![IdentityOf[c]] = c]
    <3>1. Service!FirstLogin(c)
      BY <2>1, <2>3
      DEF Service!FirstLogin, Service!New, Service!Answer, Service!Calls, Calls,
          ReturnedUsable, EverGuest, Outcome
    <3> QED
      BY <2>3, <3>1 DEF Service!Next
  <2>4. CASE /\ c \in OAuthCalls /\ Answers(c, link[IdentityOf[c]])
             /\ link[IdentityOf[c]] # NoUser
             /\ UNCHANGED <<link, guests>>
    <3>1. IdentityOf[c] \in Identities
      BY <2>4, CallParameters
    <3>2. Settled(link[IdentityOf[c]])
          /\ IdentityOf[link[IdentityOf[c]]] = IdentityOf[c]
          /\ link[IdentityOf[c]] \in OAuthCalls
      BY <2>4, <3>1 DEF AccountsInv, Links
    <3>3. user[link[IdentityOf[c]]] = link[IdentityOf[c]]
      BY <3>2 DEF AccountsInv, Users, Settled
    <3>4. /\ link[IdentityOf[c]] \in Returned /\ link[IdentityOf[c]] # c
          /\ link[IdentityOf[c]] \in Calls
      BY <2>4, <3>2, <3>3 DEF Returned, Settled, Answers
    <3>5. Service!LaterLogin(c)
      BY <2>2, <2>4, <3>4
      DEF Service!LaterLogin, Service!Answer, Service!Calls, Calls,
          ReturnedUsable, EverGuest, Outcome
    <3> QED
      BY <2>4, <3>5 DEF Service!Next
  <2>5. CASE c \in AdminCalls /\ Answers(c, c) /\ UNCHANGED <<link, guests>>
    <3>1. Service!CreateUser(c)
      BY <2>1, <2>5
      DEF Service!CreateUser, Service!New, Service!Answer, Service!Calls, Calls,
          ReturnedUsable, EverGuest, Outcome
    <3> QED
      BY <2>5, <3>1 DEF Service!Next
  <2>6. CASE /\ c \in StartupCalls /\ Answers(c, c) /\ link' = link
             /\ guests' = {c}
    <3>1. Service!CreateGuest(c)
      BY <2>1, <2>6
      DEF Service!CreateGuest, Service!New, Service!Answer, Service!Calls, Calls,
          ReturnedUsable, EverGuest, Outcome
    <3> QED
      BY <2>6, <3>1 DEF Service!Next
  <2>7. CASE /\ c \in StartupCalls /\ UNCHANGED <<link, guests>>
             /\ \E u \in StartupCalls :
                  u # c /\ Answers(c, u) /\ pc[u] = "done" /\ user[u] = u
    <3>1. PICK u \in StartupCalls :
            u # c /\ Answers(c, u) /\ pc[u] = "done" /\ user[u] = u
      BY <2>7
    <3>2. u \in Calls /\ u \in Returned /\ u \in EverGuest
      BY <3>1 DEF Calls, Returned, EverGuest
    <3>3. Service!FindGuest(c)
      BY <2>2, <2>7, <3>1, <3>2
      DEF Service!FindGuest, Service!Answer, Service!Calls, Calls,
          ReturnedUsable, EverGuest, Outcome
    <3> QED
      BY <2>7, <3>3 DEF Service!Next
  <2> QED
    BY <1>3, <2>3, <2>4, <2>5, <2>6, <2>7 DEF AnswersAllowed
<1> QED
  BY <1>2, <1>3, StepAnswers

(***************************************************************************)
(* Logins, create-user and startups, any number of them, in any order of   *)
(* their transactions and with any faults, are answered as if each were    *)
(* one step.                                                               *)
(***************************************************************************)
THEOREM AccountsImplementService == Spec => ImplementsAccountService
<1>1. Init => Service!Init
  BY DEF Init, Service!Init, Service!Calls, Calls
<1>2. Init => GuestsReturned
  BY DEF Init, GuestsReturned, Calls
<1>3. AccountsInv /\ GuestsReturned /\ [Next]_vars => GuestsReturned'
  BY StepGuestsReturned
<1>4. AccountsInv /\ AccountsInv' /\ GuestsReturned /\ [Next]_vars
      => [Service!Next]_(Service!vars)
  BY ServiceStep
<1> QED
  BY AccountsInvariant, <1>1, <1>2, <1>3, <1>4, PTL
  DEF Spec, ImplementsAccountService, Service!Spec
=============================================================================
