-------------------------- MODULE WebSessionProofs --------------------------
(***************************************************************************)
(* The safety properties of WebSession, for any number of requests, users, *)
(* providers and pages.                                                    *)
(*                                                                         *)
(* Everything rests on one fact: whatever session is anywhere, in the      *)
(* cookie, with a request or in an answer, has been put together by one    *)
(* handler (Sound).  What it refers to does not change any more: a request *)
(* that was sent keeps what it asked for, and a login whose code was used  *)
(* keeps the consent it was given for.                                     *)
(***************************************************************************)
EXTENDS WebSession, TLAPS

SessionType ==
    [user : Users \cup {None}, nonce : Calls \cup {None},
     path : Paths \cup {None}, pending : Calls \cup {None}]

Typed ==
    /\ jar \in SessionType
    /\ stage \in [Calls -> {"idle", "sent", "exchanging", "exchanged",
                            "answered", "over"}]
    /\ request \in [Calls -> [op : {"none", "login", "callback", "logout",
                                    "guest", "api"},
                              provider : AnyProvider \cup {None},
                              path : AnyPath \cup {None},
                              login : Calls \cup {None}]]
    /\ carried \in [Calls -> SessionType]
    /\ answer \in [Calls -> [code : {"none", "200", "204", "302", "303", "400",
                                     "401", "403", "404", "500", "503"},
                             path : Paths \cup {None},
                             cookie : SessionType \cup {None}]]
    /\ consent \in [Calls -> [kind : {"none", "asked", "denied", "granted"},
                              user : Users \cup {None},
                              claims : Claims \cup {None}]]
    /\ used \subseteq Calls /\ active \subseteq Users /\ ended \subseteq Calls

\* A session of the right shape, whose login or origin is on record.
Sound(s) ==
    /\ Session(s)
    /\ s.pending # None =>
         /\ request[s.pending].op = "login"
         /\ s.path = SafePath(request[s.pending].path)
    /\ s.user # None => Origin(s)

\* A request refers to a login that the provider has sent back.
RequestInv(c) ==
    /\ stage[c] = "idle" <=> request[c].op = "none"
    /\ stage[c] = "idle" => carried[c] = Empty
    /\ request[c].login # None =>
         /\ request[c].op = "callback"
         /\ request[request[c].login].op = "login"
         /\ request[request[c].login].provider = request[c].provider
         /\ consent[request[c].login].kind \in {"denied", "granted"}

\* A callback that exchanges has the state of its login.
HandlerInv(c) ==
    /\ stage[c] \in {"exchanging", "exchanged"} =>
         /\ request[c].op = "callback" /\ request[c].login # None
         /\ consent[request[c].login].kind = "granted"
         /\ carried[c].pending = request[c].login
    /\ stage[c] = "exchanged" => request[c].login \in used

\* What an answer says of its request, and of the session that it sets.
GoodAnswer(c, a) ==
    /\ a.code = "302" => request[c].op = "login"
    /\ a.code = "303" => /\ request[c].login # None
                         /\ a.path = SafePath(request[request[c].login].path)
    /\ a.cookie # None =>
         /\ Sound(a.cookie)
         /\ a.cookie.nonce \in {None, c, carried[c].nonce}
    /\ request[c].op = "logout" /\ carried[c].nonce # None => a.cookie = Empty

AnswerInv(c) ==
    IF stage[c] = "answered" THEN GoodAnswer(c, answer[c])
                             ELSE answer[c] = NoAnswer

ConsentInv(l) ==
    consent[l].kind # "none" => request[l].op = "login" /\ stage[l] = "over"

CallInv ==
    \A c \in Calls : /\ RequestInv(c) /\ HandlerInv(c) /\ AnswerInv(c)
                     /\ ConsentInv(c) /\ Sound(carried[c])

\* A session is in use only after the answer that brought it.
NoncesOver ==
    /\ jar.nonce # None => stage[jar.nonce] = "over"
    /\ \A c \in Calls : carried[c].nonce # None => stage[carried[c].nonce] = "over"
    /\ \A n \in ended : stage[n] = "over"

UsedGranted == \A l \in used : consent[l].kind = "granted"

SessionInv ==
    /\ Typed /\ Sound(jar) /\ CallInv /\ UsedGranted /\ NoncesOver
    /\ LogoutIsFinal

-----------------------------------------------------------------------------
\* The constants, of which every proof needs that None is none of them.
LEMMA NoneIsNothing ==
    /\ None \notin Calls /\ None \notin Users /\ None \notin Paths
    /\ None \notin Claims /\ None # Empty /\ Guest \in Users /\ Home \in Paths
    /\ Empty \in SessionType
    /\ \A user \in Users, c \in Calls : SignedIn(user, c) \in SessionType
    /\ \A path \in Paths, l \in Calls \cup {None} : Pending(path, l) \in SessionType
    /\ \A path : SafePath(path) \in Paths
  BY SessionsTyped DEF SessionsTyped, Empty, SignedIn, Pending, SessionType, SafePath

\* The three shapes of a session.
LEMMA SessionShapes ==
    ASSUME NEW s, Session(s)
    PROVE  /\ s \in SessionType
           /\ s.user # None => s.nonce \in Calls /\ s.path = None /\ s.pending = None
           /\ s.user = None => s.nonce = None
           /\ s.pending # None => s.user = None /\ s.path \in Paths
<1>1. CASE s = Empty
  BY <1>1, NoneIsNothing DEF Empty
<1>2. CASE \E user \in Users, c \in Calls : s = SignedIn(user, c)
  BY <1>2, NoneIsNothing DEF SignedIn
<1>3. CASE \E path \in Paths, l \in Calls \cup {None} : s = Pending(path, l)
  BY <1>3, NoneIsNothing DEF Pending
<1> QED BY <1>1, <1>2, <1>3 DEF Session

\* What a session refers to: requests that were sent, codes that were used.
Grows ==
    /\ \A c \in Calls :
         /\ request[c].op # "none" => request'[c] = request[c]
         /\ consent[c].kind \in {"denied", "granted"} => consent'[c] = consent[c]
    /\ used \subseteq used'

LEMMA SoundStays ==
    ASSUME SessionInv, Grows, NEW s \in SessionType, Sound(s)
    PROVE  Sound(s)'
<1>1. Session(s)
  BY DEF Sound
<1>2. s.pending # None => /\ request'[s.pending].op = "login"
                          /\ s.path = SafePath(request'[s.pending].path)
  BY NoneIsNothing DEF Sound, Grows, SessionType
<1>3. s.user # None => Origin(s)'
  <2> SUFFICES ASSUME s.user # None PROVE Origin(s)'
    OBVIOUS
  <2>1. Origin(s) /\ s.nonce \in Calls
    BY SessionShapes DEF Sound
  <2> DEFINE c == s.nonce
             l == request[c].login
  <2>2. CASE request[c].op = "guest" /\ s.user = Guest
    <3>1. request'[c] = request[c]
      BY <2>1, <2>2 DEF Grows
    <3> QED BY <2>2, <3>1 DEF Origin
  <2>3. CASE request[c].op = "callback" /\ ~(request[c].op = "guest")
    <3>1. /\ request'[c] = request[c]
          /\ l \in used /\ l \in Calls /\ request[l].op = "login"
          /\ request[l].provider = request[c].provider
          /\ s.user = consent[l].user
          /\ Vouched(request[l].provider, consent[l].claims)
      BY <2>1, <2>3 DEF Grows, Origin, SessionInv, Typed
    <3>2. request'[l] = request[l] /\ consent'[l] = consent[l] /\ l \in used'
      BY <3>1 DEF Grows, SessionInv, UsedGranted
    <3> QED BY <2>3, <3>1, <3>2 DEF Origin, Vouched
  <2> QED BY <2>1, <2>2, <2>3 DEF Origin
<1> QED BY <1>1, <1>2, <1>3 DEF Sound, Session

\* A session that is only looked at stays sound.
LEMMA SoundKept ==
    ASSUME NEW s, UNCHANGED <<request, consent, used>>
    PROVE  Sound(s)' <=> Sound(s)
  BY DEF Sound, Session, Origin, Vouched

-----------------------------------------------------------------------------
LEMMA SessionInit == Init => SessionInv
<1> SUFFICES ASSUME Init PROVE SessionInv
  OBVIOUS
<1>1. Typed
  BY NoneIsNothing DEF Init, Typed, NoRequest, NoAnswer, NoConsent
<1>2. Sound(Empty)
  BY DEF Sound, Session, Empty
<1>3. CallInv
  BY <1>2 DEF Init, CallInv, RequestInv, HandlerInv, AnswerInv, ConsentInv,
             NoRequest, NoConsent
<1> QED
  BY <1>1, <1>2, <1>3, NoneIsNothing
  DEF Init, SessionInv, UsedGranted, NoncesOver, LogoutIsFinal, Empty, InFlight

(***************************************************************************)
(* An answer.  Each handler has to show only that what it answers is good. *)
(***************************************************************************)
AtWork(c) == stage[c] \in {"sent", "exchanging", "exchanged"}
Answered(c, a) ==
    /\ stage' = [stage EXCEPT ![c] = "answered"]
    /\ answer' = [answer EXCEPT ![c] = a]
    /\ UNCHANGED <<jar, request, carried, consent, active, ended, used>>
AnswerType ==
    [code : {"none", "200", "204", "302", "303", "400", "401", "403", "404",
             "500", "503"},
     path : Paths \cup {None}, cookie : SessionType \cup {None}]

LEMMA AnswerKeeps ==
    ASSUME SessionInv, NEW c \in Calls, AtWork(c), NEW a \in AnswerType,
           GoodAnswer(c, a), Answered(c, a)
    PROVE  SessionInv'
<1>1. Typed'
  BY DEF SessionInv, Typed, Answered, AnswerType
<1>2. /\ stage'[c] = "answered" /\ answer'[c] = a
      /\ \A d \in Calls \ {c} : stage'[d] = stage[d] /\ answer'[d] = answer[d]
  BY DEF SessionInv, Typed, Answered
<1>3. ASSUME NEW s PROVE Sound(s)' <=> Sound(s)
  BY SoundKept DEF Answered
<1>4. ASSUME NEW d \in Calls PROVE AnswerInv(d)'
  <2>1. ASSUME NEW b PROVE GoodAnswer(d, b)' <=> GoodAnswer(d, b)
    BY <1>3 DEF GoodAnswer, Answered, SafePath
  <2> QED BY <1>2, <2>1 DEF AnswerInv, SessionInv, CallInv
<1>5. CallInv'
  BY <1>2, <1>3, <1>4
  DEF SessionInv, CallInv, RequestInv, HandlerInv, ConsentInv, Answered, AtWork
<1>6. NoncesOver' /\ UsedGranted'
  BY <1>2 DEF SessionInv, NoncesOver, UsedGranted, Answered, AtWork, Typed
<1>7. LogoutIsFinal'
  BY <1>2 DEF SessionInv, LogoutIsFinal, InFlight, Answered, AtWork
<1> QED BY <1>1, <1>3, <1>5, <1>6, <1>7 DEF SessionInv, Answered

LEMMA ReplyKeeps ==
    ASSUME SessionInv, NEW c \in Calls, AtWork(c), NEW s, Sound(s),
           s.nonce \in {None, c, carried[c].nonce},
           NEW code \in {"200", "204", "302", "303", "400", "401", "403",
                         "404", "503"},
           NEW path \in Paths \cup {None},
           code = "302" => request[c].op = "login",
           code = "303" => /\ request[c].login # None
                           /\ path = SafePath(request[request[c].login].path),
           request[c].op = "logout" => s = Empty,
           Reply(c, code, path, s), UNCHANGED used
    PROVE  SessionInv'
<1> DEFINE a == [code |-> code, path |-> path, cookie |-> Cookie(carried[c], s)]
<1>1. s \in SessionType
  BY SessionShapes DEF Sound
<1>2. a \in AnswerType
  BY <1>1 DEF AnswerType, Cookie
<1>3. a.cookie # None => a.cookie = s
  BY DEF Cookie
<1>4. carried[c].nonce # None => carried[c] # Empty
  BY DEF Empty
<1>5. GoodAnswer(c, a)
  BY <1>3, <1>4 DEF GoodAnswer, Cookie
<1> QED BY <1>2, <1>5, AnswerKeeps DEF Reply, Answered

LEMMA RefuseKeeps ==
    ASSUME SessionInv, NEW c \in Calls, AtWork(c), request[c].op # "logout",
           NEW code \in {"200", "400", "401", "403", "404", "503"},
           Refuse(c, code, carried[c])
    PROVE  SessionInv'
  BY ReplyKeeps, SessionShapes DEF Refuse, SessionInv, CallInv

LEMMA ServerErrorKeeps ==
    ASSUME SessionInv, NEW c \in Calls, AtWork(c), request[c].op # "logout",
           ServerError(c), UNCHANGED used
    PROVE  SessionInv'
<1> DEFINE a == [code |-> "500", path |-> None, cookie |-> None]
<1>1. a \in AnswerType /\ GoodAnswer(c, a)
  BY DEF AnswerType, GoodAnswer
<1> QED BY <1>1, AnswerKeeps DEF ServerError, Answered

LEMMA BadProviderKeeps ==
    ASSUME SessionInv, NEW c \in Calls, AtWork(c), request[c].op # "logout",
           NEW usable, BadProvider(c, usable)
    PROVE  SessionInv'
  BY RefuseKeeps DEF BadProvider

-----------------------------------------------------------------------------
\* The handlers.
LEMMA OAuthLoginKeeps ==
    ASSUME SessionInv, NEW c \in Calls, OAuthLogin(c) PROVE SessionInv'
<1>1. AtWork(c) /\ request[c].op = "login"
  BY DEF OAuthLogin, Handles, AtWork
<1>2. CASE BadProvider(c, Configured)
  BY <1>1, <1>2, BadProviderKeeps
<1>3. CASE ServerError(c) /\ UNCHANGED used
  BY <1>1, <1>3, ServerErrorKeeps
<1>4. CASE /\ Reply(c, "302", None, Pending(SafePath(request[c].path), c))
           /\ UNCHANGED used
  <2> DEFINE s == Pending(SafePath(request[c].path), c)
  <2>1. /\ s.user = None /\ s.nonce = None /\ s.pending = c
        /\ s.path = SafePath(request[c].path)
    BY DEF Pending
  <2>2. Session(s)
    BY NoneIsNothing DEF Session
  <2>3. Sound(s)
    BY <1>1, <2>1, <2>2 DEF Sound
  <2> HIDE DEF s
  <2> QED BY <1>1, <1>4, <2>1, <2>3, ReplyKeeps DEF s
<1> QED BY <1>2, <1>3, <1>4 DEF OAuthLogin

LEMMA CallbackRefusedKeeps ==
    ASSUME SessionInv, NEW c \in Calls, CallbackRefused(c) PROVE SessionInv'
<1>1. AtWork(c) /\ request[c].op = "callback"
  BY DEF CallbackRefused, Handles, AtWork
<1>2. BadProvider(c, Registered) \/ Refuse(c, "400", carried[c])
  BY DEF CallbackRefused
<1> QED BY <1>1, <1>2, BadProviderKeeps, RefuseKeeps

\* The callback's session without its state is still a session.
LEMMA AfterExchangeSound ==
    ASSUME SessionInv, NEW c \in Calls, stage[c] \in {"exchanging", "exchanged"}
    PROVE  /\ Sound(AfterExchange(c))
           /\ AfterExchange(c).user = carried[c].user
           /\ AfterExchange(c).nonce = carried[c].nonce
           /\ AfterExchange(c).path = carried[c].path
<1>1. /\ carried[c] \in SessionType /\ Sound(carried[c])
      /\ carried[c].pending # None
  BY DEF SessionInv, CallInv, HandlerInv, Typed
<1>2. /\ carried[c].user = None /\ carried[c].nonce = None
      /\ carried[c].path \in Paths
  BY <1>1, SessionShapes DEF Sound
<1>3. AfterExchange(c) = Pending(carried[c].path, None)
  BY <1>1, <1>2 DEF AfterExchange, Pending, SessionType
<1>4. Session(AfterExchange(c))
  BY <1>2, <1>3 DEF Session
<1> QED BY <1>2, <1>3, <1>4 DEF Sound, Pending

LEMMA ExchangeFailsKeeps ==
    ASSUME SessionInv, NEW c \in Calls,
           CodeRejected(c) \/ CallbackFails(c) \/ IdentityRejected(c)
    PROVE  SessionInv'
<1>1. /\ AtWork(c) /\ request[c].op = "callback"
      /\ stage[c] \in {"exchanging", "exchanged"}
  BY DEF CodeRejected, CallbackFails, IdentityRejected, AtWork, SessionInv,
         CallInv, HandlerInv
<1>2. CASE CallbackFails(c)
  BY <1>1, <1>2, ServerErrorKeeps DEF CallbackFails
<1>3. CASE Refuse(c, "400", AfterExchange(c)) \/ Refuse(c, "403", AfterExchange(c))
  <2> DEFINE s == AfterExchange(c)
  <2>1. /\ Sound(s) /\ s.user = carried[c].user
        /\ s.nonce = carried[c].nonce /\ s.path = carried[c].path
    BY <1>1, AfterExchangeSound
  <2> HIDE DEF s
  <2> QED BY <1>1, <1>3, <2>1, ReplyKeeps DEF s, Refuse
<1> QED BY <1>2, <1>3 DEF CodeRejected, IdentityRejected

\* Who is signed in by a callback, and where the browser is sent.
LEMMA CallbackSignsInKeeps ==
    ASSUME SessionInv, NEW c \in Calls, CallbackSignsIn(c) PROVE SessionInv'
<1> DEFINE l == request[c].login
           identity == consent[l]
           s == SignedIn(identity.user, c)
<1>1. /\ stage[c] = "exchanged" /\ AtWork(c)
      /\ Acceptable(request[c].provider, identity.claims)
      /\ identity.user \in Users
      /\ Reply(c, "303", SafePath(carried[c].path), s) /\ UNCHANGED used
  BY DEF CallbackSignsIn, AtWork, SessionInv, Typed
<1>2. /\ request[c].op = "callback" /\ l \in Calls /\ l # None /\ l \in used
      /\ carried[c].pending = l /\ request[l].op = "login"
      /\ request[l].provider = request[c].provider
      /\ carried[c].path = SafePath(request[l].path)
  BY <1>1 DEF SessionInv, CallInv, RequestInv, HandlerInv, Sound, Typed
<1>3. Vouched(request[l].provider, identity.claims)
  <2>1. identity.claims \in Claims
    BY <1>1, <1>2 DEF Acceptable, SessionInv, Typed
  <2> QED
    BY <1>1, <1>2, <2>1, SessionsTyped
    DEF Acceptable, EmailVerified, Vouched, SessionsTyped
<1>4. /\ s.user = identity.user /\ s.nonce = c /\ s.pending = None
      /\ Session(s)
  BY <1>1 DEF SignedIn, Session
<1>5. Sound(s)
  BY <1>2, <1>3, <1>4 DEF Sound, Origin
<1>6. SafePath(carried[c].path) = SafePath(request[l].path)
  BY <1>2, NoneIsNothing DEF SafePath
<1>7. SafePath(carried[c].path) \in Paths
  BY NoneIsNothing
<1> HIDE DEF s, identity
<1> QED BY <1>1, <1>2, <1>4, <1>5, <1>6, <1>7, ReplyKeeps

LEMMA EmptySound == Sound(Empty) /\ Empty.nonce = None
  BY DEF Sound, Session, Empty

LEMMA LogoutKeeps ==
    ASSUME SessionInv, NEW c \in Calls, Logout(c) PROVE SessionInv'
  BY EmptySound, ReplyKeeps DEF Logout, Handles, AtWork, Refuse

LEMMA GuestLoginKeeps ==
    ASSUME SessionInv, NEW c \in Calls, GuestLogin(c) PROVE SessionInv'
<1>1. AtWork(c) /\ request[c].op = "guest"
  BY DEF GuestLogin, Handles, AtWork
<1>2. CASE Refuse(c, "503", carried[c])
  BY <1>1, <1>2, RefuseKeeps
<1>3. CASE Refuse(c, "204", SignedIn(Guest, c))
  <2> DEFINE s == SignedIn(Guest, c)
  <2>1. s.user = Guest /\ s.nonce = c /\ s.pending = None /\ Session(s)
    BY NoneIsNothing DEF SignedIn, Session
  <2>2. Sound(s)
    BY <1>1, <2>1 DEF Sound, Origin
  <2> HIDE DEF s
  <2> QED BY <1>1, <1>3, <2>1, <2>2, ReplyKeeps DEF s, Refuse
<1> QED BY <1>2, <1>3 DEF GuestLogin

LEMMA CurrentActiveUserKeeps ==
    ASSUME SessionInv, NEW c \in Calls, CurrentActiveUser(c) PROVE SessionInv'
<1>1. AtWork(c) /\ request[c].op = "api"
  BY DEF CurrentActiveUser, Handles, AtWork
<1>2. CASE Refuse(c, "401", carried[c]) \/ Refuse(c, "200", carried[c])
  BY <1>1, <1>2, RefuseKeeps
<1>3. CASE Refuse(c, "401", Empty)
  BY <1>1, <1>3, EmptySound, ReplyKeeps DEF Refuse
<1> QED BY <1>2, <1>3 DEF CurrentActiveUser

-----------------------------------------------------------------------------
\* Steps that answer nothing.
LEMMA SendKeeps ==
    ASSUME SessionInv, NEW c \in Calls, Send(c) PROVE SessionInv'
<1>1. PICK input \in Inputs[c] :
      \E l \in {None} \cup IF input.op = "callback"
                           THEN Returned(input.provider) ELSE {} :
         request' = [request EXCEPT ![c] =
             [op |-> input.op, provider |-> input.provider,
              path |-> input.path, login |-> l]]
  BY DEF Send
<1>2. PICK l \in {None} \cup IF input.op = "callback"
                             THEN Returned(input.provider) ELSE {} :
         request' = [request EXCEPT ![c] =
             [op |-> input.op, provider |-> input.provider,
              path |-> input.path, login |-> l]]
  BY <1>1
<1>3. /\ input \in [op : {"login", "callback", "logout", "guest", "api"},
                    provider : AnyProvider \cup {None}, path : AnyPath \cup {None}]
      /\ l \in Calls \cup {None}
  BY SessionsTyped DEF SessionsTyped, Returned
<1>4. /\ stage[c] = "idle" /\ request[c].op = "none"
      /\ request'[c] = [op |-> input.op, provider |-> input.provider,
                        path |-> input.path, login |-> l]
      /\ stage'[c] = "sent" /\ carried'[c] = jar
      /\ \A d \in Calls \ {c} : /\ request'[d] = request[d]
                                /\ stage'[d] = stage[d]
                                /\ carried'[d] = carried[d]
      /\ UNCHANGED <<jar, answer, consent, used, active, ended>>
  BY <1>2 DEF Send, outsideVars, SessionInv, Typed, CallInv, RequestInv
<1>5. Typed'
  BY <1>2, <1>3 DEF Send, outsideVars, SessionInv, Typed
<1>6. Grows
  BY <1>4 DEF Grows
<1>12. ASSUME NEW s \in SessionType, Sound(s) PROVE Sound(s)'
  BY <1>6, <1>12, SoundStays
<1>7. l # None => /\ input.op = "callback" /\ l # c
                  /\ request'[l].op = "login"
                  /\ request'[l].provider = input.provider
                  /\ consent'[l].kind \in {"denied", "granted"}
  BY <1>3, <1>4 DEF Returned, SessionInv, CallInv, ConsentInv
<1>8. Sound(jar)' /\ \A d \in Calls : Sound(carried[d])'
  BY <1>4, <1>5, <1>12 DEF SessionInv, Typed, CallInv
<1>9. ASSUME NEW d \in Calls PROVE AnswerInv(d)'
  <2>1. CASE d = c
    BY <1>4, <2>1 DEF AnswerInv, SessionInv, CallInv
  <2>2. CASE d # c /\ stage[d] = "answered"
    <3>1. GoodAnswer(d, answer[d])
      BY <2>2 DEF AnswerInv, SessionInv, CallInv
    <3>2. request[d].login # None => request[d].login # c
      BY <1>4 DEF SessionInv, CallInv, RequestInv, Typed
    <3>4. answer[d].cookie # None => Sound(answer[d].cookie)'
      BY <1>4, <1>12, <3>1 DEF GoodAnswer, SessionInv, Typed
    <3>5. request[d].login # None =>
            request'[request[d].login] = request[request[d].login]
      BY <1>4, <3>2 DEF SessionInv, Typed
    <3> QED BY <1>4, <2>2, <3>1, <3>4, <3>5 DEF AnswerInv, GoodAnswer, SafePath
  <2>3. CASE d # c /\ stage[d] # "answered"
    BY <1>4, <2>3 DEF AnswerInv, SessionInv, CallInv
  <2> QED BY <2>1, <2>2, <2>3
<1>10. ASSUME NEW d \in Calls PROVE RequestInv(d)' /\ HandlerInv(d)' /\ ConsentInv(d)'
  <2>1. CASE d = c
    BY <1>3, <1>4, <1>7, <2>1 DEF SessionInv, CallInv, RequestInv, HandlerInv, ConsentInv
  <2>2. CASE d # c
    <3>1. request[d].login # None => /\ request[d].login # c
                                     /\ request[d].login \in Calls
      BY <1>4 DEF SessionInv, CallInv, RequestInv, Typed
    <3> QED BY <1>4, <2>2, <3>1 DEF SessionInv, CallInv, RequestInv, HandlerInv, ConsentInv
  <2> QED BY <2>1, <2>2
<1>11. NoncesOver' /\ UsedGranted' /\ LogoutIsFinal'
  <2>1. NoncesOver'
    BY <1>4 DEF SessionInv, NoncesOver, Typed, SessionType
  <2>2. UsedGranted'
    BY <1>4 DEF SessionInv, UsedGranted
  <2>3. LogoutIsFinal'
    BY <1>4 DEF SessionInv, LogoutIsFinal, InFlight, Typed, SessionType
  <2> QED BY <2>1, <2>2, <2>3
<1> QED BY <1>5, <1>8, <1>9, <1>10, <1>11 DEF SessionInv, CallInv

LEMMA ExchangeKeeps ==
    ASSUME SessionInv, NEW c \in Calls, CallbackExchanges(c) \/ CodeAccepted(c)
    PROVE  SessionInv'
<1>1. /\ AtWork(c) /\ request[c].op = "callback" /\ request[c].login \in Calls
      /\ request[c].login # None
      /\ consent[request[c].login].kind = "granted"
      /\ carried[c].pending = request[c].login
  BY DEF CallbackExchanges, CodeAccepted, Handles, AtWork, SessionInv, CallInv,
         HandlerInv, Typed
<1>2. /\ stage'[c] \in {"exchanging", "exchanged"}
      /\ stage'[c] = "exchanged" => request[c].login \in used'
      /\ \A d \in Calls \ {c} : stage'[d] = stage[d]
      /\ used \subseteq used' /\ used' \subseteq used \cup {request[c].login}
      /\ UNCHANGED <<jar, request, carried, answer, consent, active, ended>>
  BY DEF CallbackExchanges, CodeAccepted, outsideVars, SessionInv, Typed
<1>3. Typed'
  BY <1>1, <1>2 DEF CallbackExchanges, CodeAccepted, SessionInv, Typed
<1>4. Grows
  BY <1>2 DEF Grows
<1>9. ASSUME NEW s \in SessionType, Sound(s) PROVE Sound(s)'
  BY <1>4, <1>9, SoundStays
<1>5. Sound(jar)' /\ \A d \in Calls : Sound(carried[d])'
  BY <1>2, <1>9 DEF SessionInv, Typed, CallInv
<1>6. ASSUME NEW d \in Calls PROVE AnswerInv(d)'
  <2>1. CASE stage[d] = "answered"
    <3>1. GoodAnswer(d, answer[d]) /\ d # c
      BY <1>1, <2>1 DEF AnswerInv, SessionInv, CallInv, AtWork
    <3>2. answer[d].cookie # None => Sound(answer[d].cookie)'
      BY <1>2, <1>9, <3>1 DEF GoodAnswer, SessionInv, Typed
    <3> QED BY <1>2, <2>1, <3>1, <3>2 DEF AnswerInv, GoodAnswer, SafePath
  <2>2. CASE stage[d] # "answered"
    BY <1>2, <2>2 DEF AnswerInv, SessionInv, CallInv
  <2> QED BY <2>1, <2>2
<1>7. ASSUME NEW d \in Calls PROVE RequestInv(d)' /\ HandlerInv(d)' /\ ConsentInv(d)'
  BY <1>1, <1>2 DEF SessionInv, CallInv, RequestInv, HandlerInv, ConsentInv, AtWork
<1>8. NoncesOver' /\ UsedGranted' /\ LogoutIsFinal'
  BY <1>1, <1>2 DEF SessionInv, NoncesOver, UsedGranted, LogoutIsFinal, InFlight,
                    AtWork, Typed, SessionType
<1> QED BY <1>3, <1>5, <1>6, <1>7, <1>8 DEF SessionInv, CallInv

\* An answer that arrives, or does not.
LEMMA OverKeeps ==
    ASSUME SessionInv, NEW c \in Calls, Deliver(c) \/ Lose(c)
    PROVE  SessionInv'
<1>1. /\ stage[c] = "answered" /\ request[c].op # "none"
      /\ GoodAnswer(c, answer[c])
      /\ answer[c] \in AnswerType /\ consent[c].kind = "none"
  BY DEF Deliver, Lose, Over, SessionInv, Typed, AnswerType, CallInv, AnswerInv,
         ConsentInv, RequestInv
<1>2. /\ stage'[c] = "over" /\ carried'[c] = Empty /\ answer'[c] = NoAnswer
      /\ \A d \in Calls \ {c} : /\ stage'[d] = stage[d]
                                /\ carried'[d] = carried[d]
                                /\ answer'[d] = answer[d]
      /\ UNCHANGED <<request, used, active>>
  BY DEF Deliver, Lose, Over, outsideVars, SessionInv, Typed
<1>3. /\ jar' = jar \/ (answer[c].cookie # None /\ jar' = answer[c].cookie)
      /\ request[c].op = "logout" /\ carried[c].nonce # None => jar' = Empty \/ ended' = ended
      /\ \A d \in Calls \ {c} : consent'[d] = consent[d]
      /\ consent'[c] = consent[c] \/ request[c].op = "login"
      /\ ended \subseteq ended'
      /\ \A n \in ended' \ ended :
           /\ request[c].op = "logout" /\ n = carried[c].nonce /\ n # None
           /\ \A d \in Calls \ {c} : InFlight(d) => carried[d].nonce # n
  BY <1>1, NoneIsNothing
  DEF Deliver, Lose, outsideVars, Ended, GoodAnswer, SessionInv, Typed
<1>4. Typed'
  <2>1. jar' \in SessionType
    BY <1>1, <1>3 DEF SessionInv, Typed, AnswerType
  <2>2. ended' \subseteq Calls
    BY <1>3 DEF SessionInv, Typed, SessionType
  <2>3. consent' = consent \/ consent' = [consent EXCEPT ![c].kind = "asked"]
    BY DEF Deliver, Lose, outsideVars
  <2>4. /\ stage' = [stage EXCEPT ![c] = "over"]
        /\ carried' = [carried EXCEPT ![c] = Empty]
        /\ answer' = [answer EXCEPT ![c] = NoAnswer]
    BY DEF Deliver, Lose, Over
  <2>5. NoAnswer \in AnswerType
    BY DEF NoAnswer, AnswerType
  <2>6. consent' \in [Calls -> [kind : {"none", "asked", "denied", "granted"},
                                user : Users \cup {None},
                                claims : Claims \cup {None}]]
    <3>1. consent[c] \in [kind : {"none", "asked", "denied", "granted"},
                          user : Users \cup {None}, claims : Claims \cup {None}]
      BY DEF SessionInv, Typed
    <3>2. CASE consent' = [consent EXCEPT ![c].kind = "asked"]
      <4>1. [consent[c] EXCEPT !.kind = "asked"] \in
              [kind : {"none", "asked", "denied", "granted"},
               user : Users \cup {None}, claims : Claims \cup {None}]
        BY <3>1
      <4>2. consent' = [consent EXCEPT ![c] = [consent[c] EXCEPT !.kind = "asked"]]
        BY <3>2
      <4> QED BY <4>1, <4>2 DEF SessionInv, Typed
    <3> QED BY <2>3, <3>2 DEF SessionInv, Typed
  <2>7. carried' \in [Calls -> SessionType]
    BY <2>4, NoneIsNothing DEF SessionInv, Typed
  <2>8. answer' \in [Calls -> AnswerType]
    BY <2>4, <2>5 DEF SessionInv, Typed, AnswerType
  <2>9. stage' \in [Calls -> {"idle", "sent", "exchanging", "exchanged",
                              "answered", "over"}]
    BY <2>4 DEF SessionInv, Typed
  <2> QED BY <1>2, <2>1, <2>2, <2>6, <2>7, <2>8, <2>9
          DEF SessionInv, Typed, AnswerType
<1>5. Grows
  BY <1>1, <1>2, <1>3 DEF Grows
<1>6. ASSUME NEW s \in SessionType, Sound(s) PROVE Sound(s)'
  BY <1>5, <1>6, SoundStays
<1>7. Sound(jar)'
  BY <1>1, <1>3, <1>6 DEF SessionInv, Typed, AnswerType, GoodAnswer
<1>8. \A d \in Calls : Sound(carried[d])'
  BY <1>2, <1>6, EmptySound, NoneIsNothing DEF SessionInv, Typed, CallInv
<1>9. ASSUME NEW d \in Calls PROVE AnswerInv(d)'
  <2>1. CASE d # c /\ stage[d] = "answered"
    <3>1. GoodAnswer(d, answer[d])
      BY <2>1 DEF AnswerInv, SessionInv, CallInv
    <3>2. answer[d].cookie # None => Sound(answer[d].cookie)'
      BY <1>2, <1>6, <2>1, <3>1 DEF GoodAnswer, SessionInv, Typed
    <3> QED BY <1>2, <2>1, <3>1, <3>2 DEF AnswerInv, GoodAnswer, SafePath
  <2>2. CASE d = c \/ stage[d] # "answered"
    BY <1>2, <2>2 DEF AnswerInv, SessionInv, CallInv
  <2> QED BY <2>1, <2>2
<1>10. ASSUME NEW d \in Calls PROVE RequestInv(d)' /\ HandlerInv(d)' /\ ConsentInv(d)'
  <2>1. consent[d].kind # "none" => consent'[d] = consent[d]
    BY <1>1, <1>3
  <2>2. request[d].login # None =>
          /\ consent[request[d].login].kind # "none"
          /\ consent'[request[d].login] = consent[request[d].login]
    BY <1>1, <1>3 DEF SessionInv, CallInv, RequestInv, Typed
  <2>3. RequestInv(d)'
    BY <1>1, <1>2, <2>2 DEF SessionInv, CallInv, RequestInv
  <2>4. HandlerInv(d)'
    BY <1>1, <1>2, <2>2 DEF SessionInv, CallInv, HandlerInv
  <2>5. ConsentInv(d)'
    BY <1>1, <1>2, <1>3 DEF SessionInv, CallInv, ConsentInv
  <2> QED BY <2>3, <2>4, <2>5
<1>11. UsedGranted'
  BY <1>1, <1>2, <1>3 DEF SessionInv, UsedGranted, Typed
<1>12. NoncesOver'
  <2>1. jar'.nonce # None => stage'[jar'.nonce] = "over"
    BY <1>1, <1>2, <1>3 DEF SessionInv, NoncesOver, GoodAnswer, Typed, SessionType, AnswerType
  <2>2. \A d \in Calls : carried'[d].nonce # None => stage'[carried'[d].nonce] = "over"
    BY <1>1, <1>2, EmptySound DEF SessionInv, NoncesOver, Typed, SessionType
  <2>3. \A n \in ended' : stage'[n] = "over"
    <3>1. ASSUME NEW n \in ended' \ ended PROVE stage'[n] = "over"
      BY <1>1, <1>2, <1>3, <3>1 DEF SessionInv, NoncesOver, Typed, SessionType
    <3> QED BY <1>1, <1>2, <3>1 DEF SessionInv, NoncesOver, Typed
  <2> QED BY <2>1, <2>2, <2>3 DEF NoncesOver
<1>13. LogoutIsFinal'
  <2>1. jar'.nonce \notin ended'
    <3>1. CASE ended' = ended
      <4>1. c \notin ended
        BY <1>1 DEF SessionInv, NoncesOver
      <4>2. InFlight(c)
        BY <1>1 DEF InFlight
      <4>3. answer[c].cookie # None => answer[c].cookie.nonce \notin ended
        BY <1>1, <4>1, <4>2, NoneIsNothing
        DEF GoodAnswer, SessionInv, LogoutIsFinal, Typed
      <4> QED BY <1>3, <3>1, <4>3 DEF SessionInv, LogoutIsFinal
    <3>2. CASE ended' # ended
      <4>1. PICK n \in ended' : n \notin ended
        BY <1>3, <3>2
      <4>2. jar' = Empty
        BY <1>3, <3>2, <4>1
      <4> QED BY <1>4, <4>2, EmptySound, NoneIsNothing DEF Typed
    <3> QED BY <3>1, <3>2
  <2>2. ASSUME NEW d \in Calls, InFlight(d)'
        PROVE  carried'[d].nonce \notin ended' \ {None}
    <3>1. d # c /\ InFlight(d) /\ carried'[d] = carried[d]
      BY <1>2, <2>2 DEF InFlight
    <3> QED BY <1>3, <3>1 DEF SessionInv, LogoutIsFinal
  <2> QED BY <2>1, <2>2 DEF LogoutIsFinal
<1> QED BY <1>4, <1>7, <1>8, <1>9, <1>10, <1>11, <1>12, <1>13
        DEF SessionInv, CallInv

\* What happens elsewhere.
LEMMA OutsideKeeps ==
    ASSUME SessionInv,
           \/ \E l \in Calls : Consent(l)
           \/ CookieExpires
           \/ \E user \in Users : Disable(user)
           \/ UNCHANGED vars
    PROVE  SessionInv'
<1>1. /\ UNCHANGED <<callVars, used, ended>>
      /\ active' \subseteq active
      /\ jar' = jar \/ jar' = Empty
      /\ \A l \in Calls : \/ consent'[l] = consent[l]
                          \/ /\ consent[l].kind = "asked"
                             /\ consent'[l].kind \in {"denied", "granted"}
      /\ consent' \in [Calls -> [kind : {"none", "asked", "denied", "granted"},
                                 user : Users \cup {None},
                                 claims : Claims \cup {None}]]
  <2>1. CASE \E l \in Calls : Consent(l)
    <3>1. PICK l \in Calls : Consent(l)
      BY <2>1
    <3> DEFINE records == [kind : {"none", "asked", "denied", "granted"},
                           user : Users \cup {None},
                           claims : Claims \cup {None}]
    <3>2. consent \in [Calls -> records]
      BY DEF SessionInv, Typed
    <3>3. PICK r \in records : /\ consent' = [consent EXCEPT ![l] = r]
                               /\ r.kind \in {"denied", "granted"}
      <4>1. CASE consent' = [consent EXCEPT ![l].kind = "denied"]
        <5>1. [consent[l] EXCEPT !.kind = "denied"] \in records
          BY <3>2
        <5>2. [consent[l] EXCEPT !.kind = "denied"].kind = "denied"
          BY <3>2
        <5> QED BY <4>1, <5>1, <5>2
      <4>2. CASE \E user \in Users \ {Guest}, claims \in Claims \cup {None} :
                   consent' = [consent EXCEPT ![l] =
                     [kind |-> "granted", user |-> user, claims |-> claims]]
        <5>1. PICK user \in Users \ {Guest}, claims \in Claims \cup {None} :
                consent' = [consent EXCEPT ![l] =
                  [kind |-> "granted", user |-> user, claims |-> claims]]
          BY <4>2
        <5> DEFINE r == [kind |-> "granted", user |-> user, claims |-> claims]
        <5>2. r \in records /\ r.kind = "granted"
          OBVIOUS
        <5>3. consent' = [consent EXCEPT ![l] = r]
          BY <5>1
        <5> HIDE DEF r, records
        <5> QED BY <5>2, <5>3
      <4> QED BY <3>1, <4>1, <4>2 DEF Consent
    <3> HIDE DEF records
    <3>4. /\ consent' \in [Calls -> records]
          /\ consent'[l] = r
          /\ \A d \in Calls \ {l} : consent'[d] = consent[d]
      BY <3>2, <3>3
    <3>5. /\ UNCHANGED <<callVars, used, ended, active, jar>>
          /\ consent[l].kind = "asked"
      BY <3>1 DEF Consent
    <3> QED BY <3>3, <3>4, <3>5 DEF records
  <2>2. CASE CookieExpires
    BY <2>2 DEF CookieExpires, outsideVars, SessionInv, Typed
  <2>3. CASE \E user \in Users : Disable(user)
    BY <2>3 DEF Disable, SessionInv, Typed
  <2>4. CASE UNCHANGED vars
    BY <2>4 DEF vars, outsideVars, SessionInv, Typed
  <2> QED BY <2>1, <2>2, <2>3, <2>4
<1>2. Typed'
  BY <1>1, NoneIsNothing DEF callVars, SessionInv, Typed
<1>3. Grows
  BY <1>1 DEF callVars, Grows
<1>4. ASSUME NEW s \in SessionType, Sound(s) PROVE Sound(s)'
  BY <1>3, <1>4, SoundStays
<1>5. Sound(jar)' /\ \A d \in Calls : Sound(carried[d])'
  BY <1>1, <1>4, EmptySound, NoneIsNothing DEF callVars, SessionInv, Typed, CallInv
<1>6. ASSUME NEW d \in Calls PROVE AnswerInv(d)'
  <2>1. CASE stage[d] = "answered"
    <3>1. GoodAnswer(d, answer[d])
      BY <2>1 DEF AnswerInv, SessionInv, CallInv
    <3>2. answer[d].cookie # None => Sound(answer[d].cookie)'
      BY <1>1, <1>4, <3>1 DEF callVars, GoodAnswer, SessionInv, Typed
    <3> QED BY <1>1, <2>1, <3>1, <3>2 DEF callVars, AnswerInv, GoodAnswer, SafePath
  <2>2. CASE stage[d] # "answered"
    BY <1>1, <2>2 DEF callVars, AnswerInv, SessionInv, CallInv
  <2> QED BY <2>1, <2>2
<1>7. ASSUME NEW d \in Calls PROVE RequestInv(d)' /\ HandlerInv(d)' /\ ConsentInv(d)'
  BY <1>1 DEF callVars, SessionInv, CallInv, RequestInv, HandlerInv, ConsentInv, Typed
<1>8. UsedGranted' /\ NoncesOver' /\ LogoutIsFinal'
  BY <1>1, EmptySound, NoneIsNothing
  DEF callVars, SessionInv, UsedGranted, NoncesOver, LogoutIsFinal, InFlight, Typed
<1> QED BY <1>2, <1>5, <1>6, <1>7, <1>8 DEF SessionInv, CallInv

-----------------------------------------------------------------------------
LEMMA SessionStep == SessionInv /\ [Next]_vars => SessionInv'
<1> SUFFICES ASSUME SessionInv, [Next]_vars PROVE SessionInv'
  OBVIOUS
<1>1. ASSUME NEW c \in Calls,
             \/ Send(c) \/ Deliver(c) \/ Lose(c)
             \/ OAuthLogin(c) \/ Callback(c)
             \/ Logout(c) \/ GuestLogin(c) \/ CurrentActiveUser(c)
      PROVE  SessionInv'
  BY <1>1, SendKeeps, OverKeeps, OAuthLoginKeeps, CallbackRefusedKeeps,
     ExchangeKeeps, ExchangeFailsKeeps, CallbackSignsInKeeps, LogoutKeeps,
     GuestLoginKeeps, CurrentActiveUserKeeps
  DEF Callback
<1> QED BY <1>1, OutsideKeeps DEF Next

(***************************************************************************)
(* Every session that is anywhere was put together by one handler.         *)
(***************************************************************************)
THEOREM SessionInvariance == Spec => []SessionInv
  BY SessionInit, SessionStep, PTL DEF Spec

(***************************************************************************)
(* A session is signed in or has a login pending, never both               *)
(* (auth_routes.py:46, 101, 125: session.clear() before anything is set).  *)
(***************************************************************************)
THEOREM SessionTyped == Spec => []TypeOK
<1>1. SessionInv => TypeOK
  <2> SUFFICES ASSUME SessionInv PROVE TypeOK
    OBVIOUS
  <2>1. ASSUME NEW c \in Calls, answer[c].cookie # None
        PROVE  Session(answer[c].cookie)
    BY <2>1 DEF SessionInv, CallInv, AnswerInv, GoodAnswer, Sound, NoAnswer
  <2>2. ASSUME NEW c \in Calls PROVE Session(carried[c])
    BY DEF SessionInv, CallInv, Sound
  <2> QED BY <2>1, <2>2 DEF TypeOK, SessionInv, Typed, Sound
<1> QED BY <1>1, SessionInvariance, PTL

(***************************************************************************)
(* A login returns to the page it was started from, however many tabs      *)
(* start others meanwhile (auth_routes.py:53, 110).                        *)
(***************************************************************************)
THEOREM LoginsReturn == Spec => []LoginReturnsToItsPage
<1>1. SessionInv => LoginReturnsToItsPage
  BY DEF SessionInv, CallInv, AnswerInv, GoodAnswer, NoAnswer, LoginReturnsToItsPage
<1> QED BY <1>1, SessionInvariance, PTL

(***************************************************************************)
(* Whoever is signed in is the guest or was vouched for by the provider    *)
(* that this login was started with (auth_routes.py:62, oauth.py:36).      *)
(***************************************************************************)
THEOREM SignedInByLogin == Spec => []SignedInByItsLogin
<1>1. SessionInv => SignedInByItsLogin
  BY DEF SessionInv, Sound, SignedInByItsLogin
<1> QED BY <1>1, SessionInvariance, PTL

(***************************************************************************)
(* A session that was signed out while nothing else carried it never       *)
(* comes back (auth_routes.py:113).                                        *)
(***************************************************************************)
THEOREM LogoutsAreFinal == Spec => []LogoutIsFinal
<1>1. SessionInv => LogoutIsFinal
  BY DEF SessionInv
<1> QED BY <1>1, SessionInvariance, PTL
=============================================================================
