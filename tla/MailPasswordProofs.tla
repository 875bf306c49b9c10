-------------------------- MODULE MailPasswordProofs --------------------------
(***************************************************************************)
(* Proofs about MailPassword, for any accounts, identifiers and bounds.    *)
(*                                                                         *)
(* The argument has two halves.  CallsInv says what a call has learned     *)
(* when it reaches a stage: a reset that has found an account found its    *)
(* own, a command found the only one it names, and a call that began after *)
(* another was answered knows that.  TabInv says that whatever the tab     *)
(* still waits for, or shows, was asked for in this session.               *)
(***************************************************************************)
EXTENDS MailPassword, TLAPS

\* What reset_imap_password has found is whose password may be changed.
Entitled(c, u) ==
    \/ kind[c] = "reset" /\ as[c] = u /\ u # Guest
    \/ kind[c] = "cli" /\ Names(identifier[c], u)

CallOK(c) ==
    /\ stage[c] = "idle" <=> c > sent
    /\ kind[c] = "none" <=> c > sent
    /\ stage[c] = "found" => kind[c] \in Resets
    /\ stage[c] \in {"found", "ok"} /\ kind[c] \in Resets =>
         target[c] \in Users /\ Entitled(c, target[c])
    /\ before[c] \subseteq Answered
    /\ c \notin before[c]

StoredOK(u) ==
    LET c == stored[u]
    IN  c # 0 => c \in Answered /\ target[c] = u

CallsOK == \A c \in Calls : CallOK(c)

PasswordsOK == \A u \in Users : StoredOK(u)

CallsInv ==
    /\ TypeOK
    /\ CallsOK
    /\ PasswordsOK
    /\ OldPasswordStops
    /\ GuestPasswordReapplied

TabInv ==
    /\ ShownIsOfThisSession
    /\ passwordRequestId # 0 => passwordRequestId > cleared
    /\ requestId # 0 => requestId > cleared
    /\ settings # 0 => settings > cleared
    /\ rendered => settings # 0

PasswordInv == CallsInv /\ TabInv

-----------------------------------------------------------------------------
(* Looking an account up                                                   *)

\* A signed-in account that is looked up by its username is found.
LEMMA FoundByUsername ==
    ASSUME NEW u \in Users
    PROVE  Found(Username[u]) = {u}
BY MailPasswordConstants DEF Found

\* An account that is found for an identifier is the one it names.
LEMMA FoundIsNamed ==
    ASSUME NEW name, NEW u \in Users, Found(name) = {u}
    PROVE  Names(name, u)
<1>1. CASE {v \in Users : Username[v] = name} # {}
  BY <1>1 DEF Found, Names
<1>2. CASE {v \in Users : Username[v] = name} = {}
  <2>1. {v \in Users : Email[v] = name} = {u}
    BY <1>2 DEF Found
  <2>2. \A v \in Users \ {u} : Username[v] # name /\ Email[v] # name
    BY <1>2, <2>1
  <2> QED
    BY <2>1, <2>2 DEF Names
<1> QED
  BY <1>1, <1>2

-----------------------------------------------------------------------------
(* Types                                                                   *)

LEMMA TypeInit == Init => TypeOK
<1> SUFFICES ASSUME Init
             PROVE  TypeOK
  OBVIOUS
<1>1. TabTypeOK
  <2>1. 0 \in 0 .. sent
    BY DEF Init
  <2> QED
    BY <2>1, MailPasswordConstants DEF Init, TabTypeOK
<1>2. CallTypeOK
  BY MailPasswordConstants DEF Init, CallTypeOK, Calls
<1> QED
  BY <1>1, <1>2 DEF TypeOK

\* A new call has the next number.
LEMMA NextCall ==
    ASSUME TypeOK, NEW what \in {"settings", "reset", "cli"},
           NEW who \in Portals \cup {None}, Start(what, who)
    PROVE  /\ sent \in Nat /\ sent' = sent + 1 /\ sent' \in Calls
           /\ sent' \in 0 .. sent' /\ 0 .. sent \subseteq 0 .. sent'
           /\ sent' \in 0 .. MaxCalls
           /\ kind' \in [Calls -> {"none", "settings", "reset", "cli"}]
           /\ as' \in [Calls -> Portals \cup {None}]
           /\ before' \in [Calls -> SUBSET Calls]
<1> USE MailPasswordConstants DEF TypeOK, CallTypeOK, Start
<1>1. sent \in Nat /\ sent' = sent + 1 /\ sent' \in Calls /\ sent' \in 0 .. MaxCalls
  BY DEF Calls
<1>2. sent' \in 0 .. sent' /\ 0 .. sent \subseteq 0 .. sent'
  BY <1>1
<1>3. Answered \subseteq Calls
  BY DEF Answered
<1> QED
  BY <1>1, <1>2, <1>3

LEMMA TabTypeStep == TypeOK /\ [Next]_vars => TabTypeOK'
<1> SUFFICES ASSUME TypeOK, [Next]_vars
             PROVE  TabTypeOK'
  OBVIOUS
<1>a. ASSUME NEW what \in {"settings", "reset", "cli"},
             NEW who \in Portals \cup {None}, Start(what, who)
      PROVE  sent' = sent + 1 /\ sent' \in 0 .. sent' /\ 0 .. sent \subseteq 0 .. sent'
             /\ sent' \in Calls
  BY <1>a, NextCall
<1> USE MailPasswordConstants DEF TypeOK, CallTypeOK, TabTypeOK
<1>0. 0 \in 0 .. sent /\ sent \in 0 .. sent
  OBVIOUS
<1>1. ASSUME NEW u \in Portals, ShowPortal(u)
      PROVE  TabTypeOK'
  <2>1. sent' = sent + 1 /\ sent' \in Calls /\ sent' \in 0 .. sent' /\ 0 .. sent \subseteq 0 .. sent'
    BY <1>1, <1>a DEF ShowPortal, Request
  <2> QED
    BY <1>1, <2>1 DEF ShowPortal, Request
<1>2. CASE ShowLoggedOut
  BY <1>0, <1>2 DEF ShowLoggedOut, ResetTab, callVars
<1>3. CASE Regenerate
  <2>1. sent' = sent + 1 /\ sent' \in Calls /\ sent' \in 0 .. sent' /\ 0 .. sent \subseteq 0 .. sent'
    BY <1>3, <1>a DEF Regenerate, Request
  <2> QED
    BY <1>0, <1>3, <2>1 DEF Regenerate, Request
<1>4. CASE Copied
  BY <1>4 DEF Copied, callVars
<1>5. ASSUME NEW c \in Calls, Answer(c)
      PROVE  TabTypeOK'
  <2>1. CASE SignedOut(c)
    BY <1>0, <2>1 DEF SignedOut, Arrives, ResetTab, callVars
  <2>2. CASE Ignored(c)
    BY <2>2 DEF Ignored, Arrives, callVars, shownVars
  <2>3. CASE ShowSettings(c)
    BY <2>3 DEF ShowSettings, Arrives, callVars
  <2>4. CASE SettingsFailed(c)
    BY <2>4 DEF SettingsFailed, Arrives, callVars
  <2>5. CASE ShowPassword(c)
    BY <2>5 DEF ShowPassword, Arrives, callVars
  <2>6. CASE PasswordFailed(c)
    BY <2>6 DEF PasswordFailed, Arrives, callVars
  <2> QED
    BY <1>5, <2>1, <2>2, <2>3, <2>4, <2>5, <2>6 DEF Answer, LoadAnswer, RegenerateAnswer
<1>6. ASSUME NEW c \in Calls, ServeSettings(c) \/ ServeRegenerate(c) \/ Update(c)
      PROVE  TabTypeOK'
  BY <1>6 DEF ServeSettings, ServeRegenerate, Update, Moves, shownVars
<1>7. ASSUME NEW name \in Identifiers, Command(name)
      PROVE  TabTypeOK'
  BY <1>7 DEF Command, Start, shownVars
<1>8. ASSUME UNCHANGED <<shownVars, waiting, sent>>
      PROVE  TabTypeOK'
  BY <1>8 DEF shownVars
<1>9. ASSUME \/ Crash \/ Startup \/ UNCHANGED vars
             \/ \E u \in Portals \cup {None} : CookieChanges(u)
             \/ \E u \in Portals : Disable(u)
      PROVE  UNCHANGED <<shownVars, waiting, sent>>
  BY <1>9 DEF Crash, Startup, CookieChanges, Disable, vars, callVars
<1> QED
  BY <1>1, <1>2, <1>3, <1>4, <1>5, <1>6, <1>7, <1>8, <1>9 DEF Next

LEMMA CallTypeStep == TypeOK /\ [Next]_vars => CallTypeOK'
<1> SUFFICES ASSUME TypeOK, [Next]_vars
             PROVE  CallTypeOK'
  OBVIOUS
<1>a. ASSUME NEW what \in {"settings", "reset", "cli"},
             NEW who \in Portals \cup {None}, Start(what, who)
      PROVE  /\ sent' \in 0 .. MaxCalls
             /\ kind' \in [Calls -> {"none", "settings", "reset", "cli"}]
             /\ as' \in [Calls -> Portals \cup {None}]
             /\ before' \in [Calls -> SUBSET Calls]
  BY <1>a, NextCall
<1> USE MailPasswordConstants DEF TypeOK, CallTypeOK
<1>1. ASSUME NEW what \in {"settings", "reset"}, Request(what)
      PROVE  CallTypeOK'
  <2>1. /\ sent' \in 0 .. MaxCalls
        /\ kind' \in [Calls -> {"none", "settings", "reset", "cli"}]
        /\ as' \in [Calls -> Portals \cup {None}]
        /\ before' \in [Calls -> SUBSET Calls]
    BY <1>1, <1>a DEF Request
  <2> QED
    BY <1>1, <2>1 DEF Request
<1>2. ASSUME NEW u \in Portals, ShowPortal(u)
      PROVE  CallTypeOK'
  BY <1>1, <1>2 DEF ShowPortal
<1>3. CASE Regenerate
  BY <1>1, <1>3 DEF Regenerate
<1>4. ASSUME UNCHANGED <<jar, active, up, stored, callVars, since>>
      PROVE  CallTypeOK'
  BY <1>4 DEF callVars
<1>5. CASE ShowLoggedOut \/ Copied \/ (\E c \in Calls : Answer(c)) \/ UNCHANGED vars
  <2>1. UNCHANGED <<jar, active, up, stored, callVars, since>>
    BY <1>5 DEF ShowLoggedOut, Copied, Answer, LoadAnswer, RegenerateAnswer, SignedOut,
                Ignored, ShowSettings, SettingsFailed, ShowPassword, PasswordFailed,
                Arrives, vars
  <2> QED
    BY <1>4, <2>1
<1>6. ASSUME NEW c \in Calls, ServeSettings(c)
      PROVE  CallTypeOK'
  BY <1>6 DEF ServeSettings, Moves
<1>7. ASSUME NEW c \in Calls, ServeRegenerate(c)
      PROVE  CallTypeOK'
  BY <1>7 DEF ServeRegenerate, FindUser, Moves
<1>8. ASSUME NEW c \in Calls, Update(c)
      PROVE  CallTypeOK'
  BY <1>8 DEF Update, Moves
<1>9. ASSUME NEW name \in Identifiers, Command(name)
       PROVE  CallTypeOK'
  <2>1. /\ sent' \in 0 .. MaxCalls
        /\ kind' \in [Calls -> {"none", "settings", "reset", "cli"}]
        /\ as' \in [Calls -> Portals \cup {None}]
        /\ before' \in [Calls -> SUBSET Calls]
    BY <1>9, <1>a DEF Command
  <2> QED
    <3>1. FindUser(sent + 1, name) /\ UNCHANGED <<jar, active, up, stored, since>>
      BY <1>9 DEF Command
    <3>2. DOMAIN identifier' = Calls
      BY <3>1 DEF FindUser
    <3>3. /\ stage' \in [Calls -> {"idle", "sent", "found", "ok", "401", "error"}]
          /\ target' \in [Calls -> Users \cup {None}]
      BY <3>1 DEF FindUser
    <3> QED
      BY <2>1, <3>1, <3>2, <3>3
<1>10. CASE Crash
  BY <1>10 DEF Crash
<1>11. CASE Startup
  <2>1. Guest \in Users /\ 0 \in Calls \cup {0}
    OBVIOUS
  <2>2. stored' \in [Users -> Calls \cup {0}]
    BY <1>11, <2>1 DEF Startup
  <2> QED
    BY <1>11, <2>2 DEF Startup, callVars
<1>12. ASSUME NEW u \in Portals \cup {None}, CookieChanges(u)
       PROVE  CallTypeOK'
  BY <1>12 DEF CookieChanges, callVars
<1>13. ASSUME NEW u \in Portals, Disable(u)
       PROVE  CallTypeOK'
  BY <1>13 DEF Disable, callVars
<1> QED
  BY <1>2, <1>3, <1>5, <1>6, <1>7, <1>8, <1>9, <1>10, <1>11, <1>12, <1>13 DEF Next

-----------------------------------------------------------------------------
(* Calls                                                                   *)

LEMMA CallsInit == Init => CallsInv
<1> SUFFICES ASSUME Init
             PROVE  CallsInv
  OBVIOUS
<1>1. TypeOK
  BY TypeInit
<1>2. Answered = {}
  BY DEF Init, Answered, Resets
<1>3. CallsOK
  BY DEF Init, CallsOK, CallOK, Calls, Resets
<1>4. PasswordsOK
  BY DEF Init, PasswordsOK, StoredOK
<1>5. OldPasswordStops
  BY <1>2 DEF OldPasswordStops
<1>6. GuestPasswordReapplied
  BY MailPasswordConstants DEF Init, GuestPasswordReapplied
<1> QED
  BY <1>1, <1>3, <1>4, <1>5, <1>6 DEF CallsInv

\* What the tab and the browser do alone does not disturb the calls.
LEMMA CallsFrame ==
    ASSUME CallsInv, TypeOK', UNCHANGED <<callVars, stored, since, up>>
    PROVE  CallsInv'
<1>1. Answered' = Answered
  BY DEF Answered, callVars
<1>2. CallsOK'
  BY <1>1 DEF CallsInv, CallsOK, CallOK, Entitled, Names, callVars
<1>3. PasswordsOK'
  BY <1>1 DEF CallsInv, PasswordsOK, StoredOK, callVars
<1>4. OldPasswordStops' /\ GuestPasswordReapplied'
  BY <1>1 DEF CallsInv, OldPasswordStops, GuestPasswordReapplied, callVars
<1> QED
  BY <1>2, <1>3, <1>4 DEF CallsInv

\* A call that begins is not answered yet, and knows which ones are.
LEMMA CallsBegin ==
    ASSUME CallsInv, TypeOK',
           NEW n \in Calls, n = sent + 1, sent' = n,
           kind'[n] \in {"settings", "reset", "cli"},
           stage'[n] \in {"sent", "found", "error"},
           stage'[n] = "found" =>
               kind'[n] = "cli" /\ target'[n] \in Users /\ Names(identifier'[n], target'[n]),
           before'[n] \subseteq Answered,
           \A c \in Calls \ {n} :
               /\ kind'[c] = kind[c] /\ stage'[c] = stage[c] /\ as'[c] = as[c]
               /\ before'[c] = before[c] /\ target'[c] = target[c]
               /\ identifier'[c] = identifier[c],
           UNCHANGED <<stored, since, up>>
    PROVE  CallsInv'
<1>1. stage[n] = "idle" /\ n \notin Answered
  BY DEF CallsInv, CallsOK, CallOK, TypeOK, CallTypeOK, Answered, Calls
<1>2. Answered' = Answered
  BY <1>1 DEF Answered
<1>3. \A c \in Answered : c \in Calls \ {n}
  BY <1>1 DEF Answered
<1>4. CallsOK'
  <2> SUFFICES ASSUME NEW c \in Calls
               PROVE  CallOK(c)'
    BY DEF CallsOK
  <2>1. CallOK(c) /\ c \in Nat /\ sent \in Nat
    BY DEF CallsInv, CallsOK, TypeOK, CallTypeOK, Calls
  <2>2. CASE c = n
    <3>1. n > sent /\ ~(n > sent') /\ kind'[n] # "none" /\ stage'[n] # "idle"
      BY <2>1, <2>2
    <3>2. before'[n] \subseteq Answered' /\ n \notin before'[n]
      BY <1>1, <1>2
    <3>3. stage'[n] # "ok" /\ stage'[n] = "found" => kind'[n] \in Resets
      BY DEF Resets
    <3> QED
      BY <2>2, <3>1, <3>2, <3>3 DEF CallOK, Entitled, Names
  <2>3. CASE c # n
    <3>1. c > sent' <=> c > sent
      BY <2>1, <2>3
    <3> QED
      BY <1>2, <2>1, <2>3, <3>1 DEF CallOK, Entitled, Names
  <2> QED
    BY <2>2, <2>3
<1>5. PasswordsOK'
  BY <1>2, <1>3 DEF CallsInv, PasswordsOK, StoredOK
<1>6. OldPasswordStops'
  <2> SUFFICES ASSUME NEW c \in Answered
               PROVE  LET p == stored[target[c]]
                      IN  IF p = 0 THEN target[c] = Guest
                          ELSE target'[p] = target[c] /\ p \notin before[c]
    BY <1>2, <1>3 DEF OldPasswordStops
  <2>1. target[c] \in Users
    BY DEF CallsInv, CallsOK, CallOK, Answered
  <2>2. stored[target[c]] # 0 => stored[target[c]] \in Answered
    BY <2>1 DEF CallsInv, PasswordsOK, StoredOK
  <2> QED
    BY <1>3, <2>2 DEF CallsInv, OldPasswordStops
<1> QED
  BY <1>4, <1>5, <1>6 DEF CallsInv, GuestPasswordReapplied

\* A lookup has changed nothing yet; what it finds, the call is entitled to.
LEMMA CallsLookup ==
    ASSUME CallsInv, TypeOK',
           NEW d \in Calls, stage[d] \in {"sent", "found"},
           \/ stage'[d] = "ok" /\ kind[d] = "settings"
           \/ stage'[d] \in {"401", "error", stage[d]} /\ target'[d] = target[d]
              /\ identifier'[d] = identifier[d]
           \/ stage'[d] = "error"
           \/ /\ stage'[d] = "found" /\ kind[d] = "reset"
              /\ target'[d] = as[d] /\ as[d] \in Users \ {Guest},
           \A c \in Calls \ {d} :
               /\ stage'[c] = stage[c] /\ target'[c] = target[c]
               /\ identifier'[c] = identifier[c],
           UNCHANGED <<sent, kind, as, before, stored, since, up>>
    PROVE  CallsInv'
<1>1. Answered' = Answered
  <2>1. kind[d] \in Resets => stage[d] # "ok" /\ stage'[d] # "ok"
    BY DEF Resets
  <2> QED
    BY <2>1 DEF Answered
<1>2. \A c \in Answered : c \in Calls \ {d}
  BY DEF Answered
<1>3. CallsOK'
  <2> SUFFICES ASSUME NEW c \in Calls
               PROVE  CallOK(c)'
    BY DEF CallsOK
  <2>1. CallOK(c)
    BY DEF CallsInv, CallsOK
  <2>2. CASE c = d
    BY <1>1, <2>1, <2>2 DEF CallOK, Resets, Entitled
  <2>3. CASE c # d
    BY <1>1, <2>1, <2>3 DEF CallOK, Entitled, Names
  <2> QED
    BY <2>2, <2>3
<1>4. PasswordsOK'
  BY <1>1, <1>2 DEF CallsInv, PasswordsOK, StoredOK
<1>5. OldPasswordStops'
  BY <1>1, <1>2 DEF CallsInv, PasswordsOK, StoredOK, OldPasswordStops, CallsOK, CallOK,
                    Answered
<1> QED
  BY <1>3, <1>4, <1>5 DEF CallsInv, GuestPasswordReapplied

\* The hash of a reset that is stored replaces older ones only.
LEMMA CallsUpdate ==
    ASSUME CallsInv, TypeOK', NEW d \in Calls, Update(d)
    PROVE  CallsInv'
<1>1. /\ stage[d] = "found" /\ kind[d] \in Resets /\ d \notin Answered
      /\ target[d] \in Users /\ Entitled(d, target[d]) /\ d \in Nat \ {0}
  BY DEF Update, CallsInv, CallsOK, CallOK, Answered, Calls
<1>2. /\ stage'[d] = "ok" /\ \A c \in Calls \ {d} : stage'[c] = stage[c]
      /\ stored'[target[d]] = d
      /\ \A u \in Users \ {target[d]} : stored'[u] = stored[u]
      /\ UNCHANGED <<sent, kind, as, before, identifier, target, up>>
      /\ since' = IF kind[d] = "cli" THEN since \cup {d} ELSE since
  BY <1>1 DEF Update, Moves, CallsInv, TypeOK, CallTypeOK
<1>3. Answered' = Answered \cup {d}
  BY <1>1, <1>2 DEF Answered
<1>4. CallsOK'
  <2> SUFFICES ASSUME NEW c \in Calls
               PROVE  CallOK(c)'
    BY DEF CallsOK
  <2>1. CallOK(c)
    BY DEF CallsInv, CallsOK
  <2>2. CASE c = d
    BY <1>1, <1>2, <1>3, <2>1, <2>2 DEF CallOK, Entitled, Names
  <2>3. CASE c # d
    BY <1>2, <1>3, <2>1, <2>3 DEF CallOK, Entitled, Names
  <2> QED
    BY <2>2, <2>3
<1>5. PasswordsOK'
  <2> SUFFICES ASSUME NEW u \in Users
               PROVE  StoredOK(u)'
    BY DEF PasswordsOK
  <2>1. StoredOK(u)
    BY DEF CallsInv, PasswordsOK
  <2> QED
    BY <1>2, <1>3, <2>1 DEF StoredOK
<1>6. OldPasswordStops'
  <2> SUFFICES ASSUME NEW c \in Answered \cup {d}
               PROVE  LET p == stored'[target[c]]
                      IN  IF p = 0 THEN target[c] = Guest
                          ELSE target[p] = target[c] /\ p \notin before[c]
    BY <1>2, <1>3 DEF OldPasswordStops
  <2>1. c \in Calls /\ target[c] \in Users /\ before[c] \subseteq Answered
    BY <1>1 DEF CallsInv, CallsOK, CallOK, Answered
  <2>2. CASE target[c] = target[d]
    BY <1>1, <1>2, <2>1, <2>2
  <2>3. CASE target[c] # target[d]
    BY <1>2, <2>1, <2>3 DEF CallsInv, OldPasswordStops
  <2> QED
    BY <2>2, <2>3
<1>7. GuestPasswordReapplied'
  BY <1>1, <1>2, MailPasswordConstants DEF CallsInv, GuestPasswordReapplied, Entitled
<1> QED
  BY <1>4, <1>5, <1>6, <1>7 DEF CallsInv

\* A crash loses what it loses before the answer.
LEMMA CallsCrash ==
    ASSUME CallsInv, TypeOK', Crash
    PROVE  CallsInv'
<1>1. /\ \A c \in Calls : stage'[c] = stage[c] \/ (stage[c] = "found" /\ stage'[c] = "error")
      /\ UNCHANGED <<sent, kind, as, before, identifier, target, stored>> /\ up' = FALSE
  <2>1. \A c \in Calls : stage'[c] = IF kind[c] = "reset" /\ stage[c] = "found" THEN "error"
                                    ELSE stage[c]
    BY DEF Crash
  <2>2. /\ UNCHANGED <<sent, kind, as, before, identifier, target, stored>>
        /\ up' = FALSE
    BY DEF Crash
  <2>3. \A c \in Calls : stage'[c] = stage[c] \/ (stage[c] = "found" /\ stage'[c] = "error")
    BY <2>1
  <2> QED
    BY <2>2, <2>3
<1>2. Answered' = Answered
  BY <1>1 DEF Answered
<1>3. CallsOK'
  BY <1>1, <1>2 DEF CallsInv, CallsOK, CallOK, Entitled, Names
<1>4. PasswordsOK'
  BY <1>1, <1>2 DEF CallsInv, PasswordsOK, StoredOK
<1>5. OldPasswordStops' /\ GuestPasswordReapplied'
  BY <1>1, <1>2 DEF CallsInv, OldPasswordStops, GuestPasswordReapplied
<1> QED
  BY <1>3, <1>4, <1>5 DEF CallsInv

\* The startup touches the guest only.
LEMMA CallsStartup ==
    ASSUME CallsInv, TypeOK', Startup
    PROVE  CallsInv'
<1>1. /\ Guest \in Users /\ stored'[Guest] = 0
      /\ \A u \in Users \ {Guest} : stored'[u] = stored[u]
      /\ UNCHANGED callVars /\ since' = {}
  BY MailPasswordConstants DEF Startup, CallsInv, TypeOK, CallTypeOK
<1>2. Answered' = Answered
  BY <1>1 DEF Answered, callVars
<1>3. CallsOK'
  BY <1>1, <1>2 DEF CallsInv, CallsOK, CallOK, Entitled, Names, callVars
<1>4. PasswordsOK'
  BY <1>1, <1>2 DEF CallsInv, PasswordsOK, StoredOK, callVars
<1>5. OldPasswordStops'
  <2> SUFFICES ASSUME NEW c \in Answered
               PROVE  LET p == stored'[target[c]]
                      IN  IF p = 0 THEN target[c] = Guest
                          ELSE target[p] = target[c] /\ p \notin before[c]
    BY <1>1, <1>2 DEF OldPasswordStops, callVars
  <2>1. target[c] \in Users
    BY DEF CallsInv, CallsOK, CallOK, Answered
  <2> QED
    BY <1>1, <2>1 DEF CallsInv, OldPasswordStops
<1>6. GuestPasswordReapplied'
  BY <1>1 DEF GuestPasswordReapplied
<1> QED
  BY <1>3, <1>4, <1>5, <1>6 DEF CallsInv

\* Every step keeps what the calls rely on.
LEMMA CallsStep == CallsInv /\ [Next]_vars => CallsInv'
<1> SUFFICES ASSUME CallsInv, [Next]_vars
             PROVE  CallsInv'
  OBVIOUS
<1>0. TypeOK /\ TypeOK'
  BY TabTypeStep, CallTypeStep DEF CallsInv, TypeOK
<1>1. ASSUME NEW what \in {"settings", "reset"}, Request(what)
      PROVE  CallsInv'
  <2> DEFINE n == sent + 1
  <2>1. n \in Calls /\ sent' = n
    <3>1. Start(what, jar) /\ jar \in Portals \cup {None}
      BY <1>0, <1>1 DEF Request, TypeOK, CallTypeOK
    <3> QED
      BY <1>0, <3>1, NextCall
  <2>2. /\ kind'[n] = what /\ stage'[n] = "sent"
        /\ before'[n] \subseteq Answered
        /\ \A c \in Calls \ {n} :
             /\ kind'[c] = kind[c] /\ stage'[c] = stage[c] /\ as'[c] = as[c]
             /\ before'[c] = before[c] /\ target'[c] = target[c]
             /\ identifier'[c] = identifier[c]
        /\ UNCHANGED <<stored, since, up>>
    BY <1>0, <1>1, <2>1 DEF Request, Start, TypeOK, CallTypeOK
  <2> HIDE DEF n
  <2>3. n = sent + 1
    BY DEF n
  <2> QED
    BY <1>0, <2>1, <2>2, <2>3, CallsBegin
<1>2. CASE (\E u \in Portals : ShowPortal(u)) \/ Regenerate
  BY <1>1, <1>2 DEF ShowPortal, Regenerate
<1>3. CASE ShowLoggedOut \/ Copied \/ (\E c \in Calls : Answer(c)) \/ UNCHANGED vars
           \/ (\E u \in Portals \cup {None} : CookieChanges(u))
           \/ (\E u \in Portals : Disable(u))
  <2>1. UNCHANGED <<callVars, stored, since, up>>
    BY <1>3 DEF ShowLoggedOut, Copied, Answer, LoadAnswer, RegenerateAnswer, SignedOut,
                Ignored, ShowSettings, SettingsFailed, ShowPassword, PasswordFailed,
                Arrives, vars, CookieChanges, Disable
  <2> QED
    BY <1>0, <2>1, CallsFrame
<1>4. ASSUME NEW c \in Calls, ServeSettings(c)
      PROVE  CallsInv'
  <2>1. /\ stage[c] = "sent" /\ stage'[c] \in {"401", "ok"} /\ kind[c] = "settings"
        /\ UNCHANGED <<identifier, target>>
        /\ \A d \in Calls \ {c} : stage'[d] = stage[d]
        /\ UNCHANGED <<sent, kind, as, before, stored, since, up>>
    BY <1>0, <1>4 DEF ServeSettings, Moves, TypeOK, CallTypeOK
  <2> QED
    BY <1>0, <2>1, CallsLookup
<1>5. ASSUME NEW c \in Calls, ServeRegenerate(c)
      PROVE  CallsInv'
  <2>1. /\ stage[c] = "sent" /\ kind[c] = "reset" /\ as[c] \in Portals \cup {None}
        /\ UNCHANGED <<sent, kind, as, before, stored, since, up>>
    BY <1>0, <1>5 DEF ServeRegenerate, Moves, TypeOK, CallTypeOK
  <2>2. CASE ((Unauthenticated(c) /\ Moves(c, "401")) \/ Moves(c, "error"))
             /\ UNCHANGED <<identifier, target>>
    <3>1. /\ stage'[c] \in {"401", "error"}
          /\ \A d \in Calls \ {c} : stage'[d] = stage[d]
      BY <1>0, <2>2 DEF Moves, TypeOK, CallTypeOK
    <3> QED
      BY <1>0, <2>1, <2>2, <3>1, CallsLookup
  <2>3. CASE /\ ~Unauthenticated(c) /\ as[c] # Guest
             /\ FindUser(c, Username[as[c]])
    <3>1. as[c] \in Users \ {Guest}
      BY <1>0, <2>3 DEF Unauthenticated, TypeOK, CallTypeOK
    <3>2. Found(Username[as[c]]) = {as[c]}
      BY <3>1, FoundByUsername
    <3>3. /\ stage'[c] = "found" /\ target'[c] = as[c]
          /\ \A d \in Calls \ {c} :
               /\ stage'[d] = stage[d] /\ target'[d] = target[d]
               /\ identifier'[d] = identifier[d]
      <4>1. /\ stage' = [stage EXCEPT ![c] = "found"]
            /\ target' = [target EXCEPT ![c] = as[c]]
            /\ \E name : identifier' = [identifier EXCEPT ![c] = name]
        BY <2>3, <3>1, <3>2 DEF FindUser
      <4> QED
        BY <1>0, <4>1 DEF TypeOK, CallTypeOK
    <3> QED
      BY <1>0, <2>1, <3>1, <3>3, CallsLookup
  <2> QED
    BY <1>5, <2>2, <2>3 DEF ServeRegenerate
<1>6. ASSUME NEW c \in Calls, Update(c)
      PROVE  CallsInv'
  BY <1>0, <1>6, CallsUpdate
<1>7. ASSUME NEW name \in Identifiers, Command(name)
      PROVE  CallsInv'
  <2> DEFINE n == sent + 1
  <2>1. n \in Calls /\ sent' = n
    BY <1>0, <1>7, NextCall DEF Command
  <2>2. /\ kind'[n] = "cli" /\ before'[n] \subseteq Answered
        /\ \A c \in Calls \ {n} :
             /\ kind'[c] = kind[c] /\ as'[c] = as[c] /\ before'[c] = before[c]
        /\ UNCHANGED <<stored, since, up>>
    BY <1>0, <1>7, <2>1 DEF Command, Start, TypeOK, CallTypeOK
  <2>3. \A c \in Calls \ {n} :
             /\ stage'[c] = stage[c] /\ target'[c] = target[c]
             /\ identifier'[c] = identifier[c]
    BY <1>0, <1>7, <2>1 DEF Command, FindUser, TypeOK, CallTypeOK
  <2>4. \/ stage'[n] = "error"
        \/ stage'[n] = "found" /\ target'[n] \in Users /\ Names(identifier'[n], target'[n])
    <3>1. FindUser(n, name)
      BY <1>7 DEF Command
    <3> HIDE DEF n
    <3>2. identifier'[n] = name
      BY <1>0, <2>1, <3>1 DEF FindUser, TypeOK, CallTypeOK
    <3> QED
      BY <1>0, <2>1, <3>1, <3>2, FoundIsNamed DEF FindUser, TypeOK, CallTypeOK
  <2> HIDE DEF n
  <2>5. n = sent + 1
    BY DEF n
  <2> QED
    BY <1>0, <2>1, <2>2, <2>3, <2>4, <2>5, CallsBegin
<1>8. CASE Crash
  BY <1>0, <1>8, CallsCrash
<1>9. CASE Startup
  BY <1>0, <1>9, CallsStartup
<1> QED
  BY <1>2, <1>3, <1>4, <1>5, <1>6, <1>7, <1>8, <1>9 DEF Next

-----------------------------------------------------------------------------
(* The tab                                                                 *)

\* What has been answered stays so.
LEMMA AnswersStay ==
    ASSUME CallsInv, [Next]_vars
    PROVE  \A c \in Calls : stage[c] = "ok" => stage'[c] = "ok"
<1> SUFFICES ASSUME NEW c \in Calls, stage[c] = "ok"
             PROVE  stage'[c] = "ok"
  OBVIOUS
<1>0. /\ stage \in [Calls -> {"idle", "sent", "found", "ok", "401", "error"}]
      /\ c # sent + 1
  <2>1. c <= sent /\ sent \in Nat /\ c \in Nat
    BY DEF CallsInv, CallsOK, CallOK, TypeOK, CallTypeOK, Calls
  <2> QED
    BY <2>1 DEF CallsInv, TypeOK, CallTypeOK
<1>1. CASE (\E u \in Portals : ShowPortal(u)) \/ Regenerate
  BY <1>0, <1>1 DEF ShowPortal, Regenerate, Request
<1>2. CASE \E d \in Calls : ServeSettings(d) \/ ServeRegenerate(d) \/ Update(d)
  BY <1>0, <1>2 DEF ServeSettings, ServeRegenerate, Update, Moves, FindUser
<1>3. CASE \E name \in Identifiers : Command(name)
  BY <1>0, <1>3 DEF Command, FindUser
<1>4. CASE Crash
  BY <1>0, <1>4 DEF Crash
<1>5. CASE \/ ShowLoggedOut \/ Copied \/ (\E d \in Calls : Answer(d)) \/ UNCHANGED vars
           \/ Startup
           \/ (\E u \in Portals \cup {None} : CookieChanges(u))
           \/ (\E u \in Portals : Disable(u))
  BY <1>5 DEF ShowLoggedOut, Copied, Answer, LoadAnswer, RegenerateAnswer, SignedOut,
              Ignored, ShowSettings, SettingsFailed, ShowPassword, PasswordFailed,
              Arrives, vars, callVars, CookieChanges, Disable, Startup
<1> QED
  BY <1>1, <1>2, <1>3, <1>4, <1>5 DEF Next

LEMMA TabInit == Init => TabInv
BY DEF Init, TabInv, ShownIsOfThisSession

LEMMA TabStep == CallsInv /\ TabInv /\ [Next]_vars => TabInv'
<1> SUFFICES ASSUME CallsInv, TabInv, [Next]_vars
             PROVE  TabInv'
  OBVIOUS
<1>0. /\ sent \in Nat /\ cleared \in Nat /\ cleared <= sent /\ box \in Nat
      /\ box # 0 => box \in Calls
  BY MailPasswordConstants DEF CallsInv, TypeOK, TabTypeOK, CallTypeOK, Calls
<1>1. box # 0 => stage[box] = "ok" /\ stage'[box] = "ok"
  BY <1>0, AnswersStay DEF TabInv, ShownIsOfThisSession
<1> USE DEF TabInv, ShownIsOfThisSession
<1>2. ASSUME NEW u \in Portals, ShowPortal(u)
      PROVE  TabInv'
  BY <1>0, <1>1, <1>2 DEF ShowPortal
<1>3. CASE Regenerate
  BY <1>0, <1>3 DEF Regenerate
<1>4. CASE ShowLoggedOut
  BY <1>4 DEF ShowLoggedOut, ResetTab
<1>5. CASE Copied
  BY <1>1, <1>5 DEF Copied
<1>6. ASSUME NEW c \in Calls, Answer(c)
      PROVE  TabInv'
  <2>1. CASE SignedOut(c)
    BY <2>1 DEF SignedOut, ResetTab
  <2>2. CASE Ignored(c)
    BY <1>1, <2>2 DEF Ignored, shownVars
  <2>3. CASE ShowSettings(c)
    BY <1>0, <1>1, <2>3 DEF ShowSettings, Calls
  <2>4. CASE SettingsFailed(c)
    BY <1>1, <2>4 DEF SettingsFailed
  <2>5. CASE ShowPassword(c)
    <3>1. stage[c] = "ok" /\ c # 0 /\ c = passwordRequestId
      BY <2>5 DEF ShowPassword, Arrives, Calls
    <3>2. stage'[c] = "ok"
      BY <3>1, AnswersStay
    <3> QED
      BY <2>5, <3>1, <3>2 DEF ShowPassword
  <2>6. CASE PasswordFailed(c)
    BY <1>1, <2>6 DEF PasswordFailed
  <2> QED
    BY <1>6, <2>1, <2>2, <2>3, <2>4, <2>5, <2>6 DEF Answer, LoadAnswer, RegenerateAnswer
<1>7. ASSUME UNCHANGED shownVars
      PROVE  TabInv'
  BY <1>1, <1>7 DEF shownVars
<1>8. ASSUME \/ \E c \in Calls : ServeSettings(c) \/ ServeRegenerate(c) \/ Update(c)
             \/ \E name \in Identifiers : Command(name)
             \/ Crash \/ Startup \/ UNCHANGED vars
             \/ \E u \in Portals \cup {None} : CookieChanges(u)
             \/ \E u \in Portals : Disable(u)
      PROVE  UNCHANGED shownVars
  BY <1>8 DEF ServeSettings, ServeRegenerate, Update, Moves, Command, Crash, Startup,
              CookieChanges, Disable, vars
<1> QED
  BY <1>2, <1>3, <1>4, <1>5, <1>6, <1>7, <1>8 DEF Next

-----------------------------------------------------------------------------
(* Theorems                                                                *)

\* What the calls have learned and what the tab shows fit together in every state.
THEOREM PasswordInvariance == Spec => []PasswordInv
<1>1. Init => PasswordInv
  BY CallsInit, TabInit DEF PasswordInv
<1>2. PasswordInv /\ [Next]_vars => PasswordInv'
  BY CallsStep, TabStep DEF PasswordInv
<1> QED
  BY <1>1, <1>2, PTL DEF Spec

\* The state of the tab, the calls and the accounts stays well typed; a tab whose user
\* has signed out holds nothing.
THEOREM PasswordTyped == Spec => []TypeOK
<1>1. PasswordInv => TypeOK
  BY DEF PasswordInv, CallsInv
<1> QED
  BY <1>1, PasswordInvariance, PTL

\* The page never shows a password or settings that were asked for before the last
\* sign-out, nor a password of any but the last request for one.
THEOREM PageShowsThisSession == Spec => []ShownIsOfThisSession
<1>1. PasswordInv => ShownIsOfThisSession
  BY DEF PasswordInv, TabInv
<1> QED
  BY <1>1, PasswordInvariance, PTL

\* After a reset has been answered no password that had been given out before it was
\* asked for is valid.
THEOREM ResetReplacesOldPassword == Spec => []OldPasswordStops
<1>1. PasswordInv => OldPasswordStops
  BY DEF PasswordInv, CallsInv
<1> QED
  BY <1>1, PasswordInvariance, PTL

\* reset_imap_password changes the password of the account that asked, or that the
\* operator named, and of no other.
THEOREM OnlyOwnPasswordChanges == Spec => []ChangedByItsOwner
<1>1. PasswordInv => ChangedByItsOwner
  <2> SUFFICES ASSUME PasswordInv, NEW u \in Users, stored[u] # 0
               PROVE  Entitled(stored[u], u)
    BY DEF ChangedByItsOwner, Entitled
  <2>1. stored[u] \in Answered /\ target[stored[u]] = u
    BY DEF PasswordInv, CallsInv, PasswordsOK, StoredOK
  <2> QED
    BY <2>1 DEF PasswordInv, CallsInv, CallsOK, CallOK, Answered
<1> QED
  BY <1>1, PasswordInvariance, PTL

\* ensure_guest_user puts the guest's password back at every startup, and only a command
\* can change it afterwards.
THEOREM GuestPasswordIsConfigured == Spec => []GuestPasswordReapplied
<1>1. PasswordInv => GuestPasswordReapplied
  BY DEF PasswordInv, CallsInv
<1> QED
  BY <1>1, PasswordInvariance, PTL
=============================================================================
