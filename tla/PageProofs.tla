------------------------------ MODULE PageProofs ------------------------------
(***************************************************************************)
(* What the page does: proofs about Portal, for any messages and any       *)
(* number of clicks, and about RecordTab, for any attempts and sessions.   *)
(*                                                                         *)
(* Of the portal: the identifier of a request is the time at which it was  *)
(* sent.  Only the answer to the newest list request is rendered, and when *)
(* a deletion is told to the session that asked for it a newer request     *)
(* takes its place, because that session is still signed in.  An older     *)
(* request that has been served before the deletion can therefore not be   *)
(* the newest one any more.                                                *)
(***************************************************************************)
EXTENDS Portal, RecordTab, TLAPS

CallType ==
    [kind : Kinds, id : Nat, sid : Nat, from : Nat, msg : Messages \cup {NoMessage},
     linked : BOOLEAN, answer : {"none", "ok", "401", "error"}, keys : SUBSET Messages]

ListType ==
    [id : Nat, keys : SUBSET Messages, deletable : BOOLEAN, pressed : SUBSET Messages]

Typed ==
    /\ status \in Statuses /\ path \in Paths
    /\ sid \in Nat /\ sent \in Nat /\ requestId \in Nat /\ cleared \in Nat
    /\ mail \subseteq Messages /\ deleted \subseteq Messages
    /\ clicks \in 0 .. MaxClicks

Switches ==
    /\ canDelete \in BOOLEAN /\ notice \in BOOLEAN
    /\ text \in {"", "busy", "error"}

\* Requests are numbered in the order in which they are sent.
Numbered ==
    /\ requestId <= sent /\ cleared <= sent /\ list.id <= requestId
    /\ \A c \in calls : 1 <= c.id /\ c.id <= sent /\ c.sid <= sid
    /\ \A c, d \in calls : c.id = d.id => c = d
    /\ requestId # 0 => requestId > cleared
    /\ list.id # 0 => list.id > cleared

\* Neither what is rendered nor what will be holds a deleted message.
Rendered ==
    /\ list.pressed \subseteq list.keys
    /\ list.pressed # {} => list.deletable
    /\ list.id = requestId => list.keys \cap deleted = {}
    /\ \A c \in calls :
         c.kind = "list" /\ c.id = requestId /\ c.answer = "ok" =>
             c.keys \cap deleted = {}

\* A session that has asked for a deletion is signed in until it is cleared.
Deletions ==
    /\ mail \cap deleted = {}
    /\ \A c \in calls :
         c.kind = "delete" =>
             /\ c.msg \in Messages
             /\ c.answer = "ok" => c.msg \notin mail
             /\ c.id > cleared => status = "authenticated"

\* A tab that is behind waits for an answer that will bring it up to date.
Renews(c) == c.kind = "delete" \/ (c.kind = "list" /\ c.id = requestId)

Current ==
    TabVisible /\ text # "error" => list.id = requestId \/ \E c \in calls : Renews(c)

PortalInv ==
    /\ list \in ListType /\ calls \subseteq CallType
    /\ Typed /\ Switches /\ Numbered /\ Rendered /\ Deletions /\ Current

-----------------------------------------------------------------------------
(* What handlers are made of                                               *)

\* A new request is well typed.
LEMMA RequestType ==
    ASSUME PortalInv, NEW kind \in Kinds
    PROVE  Request(kind) \in CallType
<1>1. sent + 1 \in Nat
  BY PortalConstants DEF PortalInv, Typed
<1>2. (path = "/messages/:key") \in BOOLEAN
  OBVIOUS
<1> QED
  BY <1>1, <1>2 DEF Request, CallType

\* What holds of every request and of the list.
LEMMA CallFacts ==
    ASSUME PortalInv
    PROVE  /\ sent \in Nat /\ sid \in Nat /\ requestId \in Nat /\ cleared \in Nat
           /\ requestId <= sent /\ cleared <= sent
           /\ list.id \in Nat /\ list.id <= requestId
           /\ \A c \in calls : /\ c.id \in Nat /\ 1 <= c.id /\ c.id <= sent
                               /\ c.sid \in Nat /\ c.sid <= sid
<1>1. list.id \in Nat
  BY DEF PortalInv, ListType
<1>2. \A c \in calls : c.id \in Nat /\ c.sid \in Nat
  BY DEF PortalInv, CallType
<1> QED
  BY <1>1, <1>2 DEF PortalInv, Typed, Numbered

\* A load makes every older list request obsolete.
LEMMA LoadKeeps ==
    ASSUME PortalInv, NEW rest \in SUBSET calls, NEW p, Load(rest, p),
           path' \in Paths, status' \in {status, "authenticated"}, sid' \in Nat,
           sid' >= sid, canDelete' \in BOOLEAN, clicks' \in 0 .. MaxClicks,
           deleted' \subseteq Messages, deleted' \cap mail = {},
           UNCHANGED <<mail, cleared>>
    PROVE  PortalInv'
<1> DEFINE r == [Request("list") EXCEPT !.linked = p = "/messages/:key"]
<1>1. /\ requestId' = sent + 1 /\ sent' = sent + 1 /\ calls' = rest \cup {r}
      /\ text' = "busy" /\ UNCHANGED <<list, notice>>
  BY DEF Load, Send
<1>2. /\ r \in CallType /\ r.kind = "list" /\ r.id = sent + 1 /\ r.answer = "none"
      /\ r.sid = 0
  <2>1. Request("list") \in CallType
    BY RequestType DEF Kinds
  <2>2. (p = "/messages/:key") \in BOOLEAN
    OBVIOUS
  <2>3. r \in CallType
    BY <2>1, <2>2 DEF CallType
  <2> QED
    BY <2>3 DEF Request
<1> HIDE DEF r
<1>3. list' \in ListType /\ calls' \subseteq CallType /\ Typed' /\ Switches'
  <2>1. list' \in ListType /\ calls' \subseteq CallType
    BY <1>1, <1>2 DEF PortalInv
  <2>2. Switches'
    BY <1>1 DEF PortalInv, Switches
  <2> QED
    BY <1>1, <2>1, <2>2, CallFacts, PortalConstants DEF PortalInv, Typed, Statuses
<1>6. Numbered'
  BY <1>1, <1>2, CallFacts, PortalConstants DEF PortalInv, Numbered
<1>7. Rendered'
  BY <1>1, <1>2, CallFacts, PortalConstants DEF PortalInv, Rendered
<1>8. Deletions'
  BY <1>1, <1>2 DEF PortalInv, Deletions
<1>9. Current'
  BY <1>1, <1>2 DEF Current, Renews
<1> QED
  BY <1>3, <1>6, <1>7, <1>8, <1>9 DEF PortalInv

\* A session that is cleared leaves an empty tab that waits for nothing.
LEMMA ClearKeeps ==
    ASSUME PortalInv, NEW rest \in SUBSET calls, Clear(rest),
           sid' \in Nat, sid' >= sid, clicks' \in 0 .. MaxClicks
    PROVE  PortalInv'
<1>1. /\ status' = "anonymous" /\ requestId' = 0 /\ list' = Empty
      /\ calls' = rest /\ cleared' = sent /\ UNCHANGED <<sent, path, mail, deleted>>
  BY DEF Clear, Reset
<1>2. /\ list' \in ListType /\ list'.id = 0 /\ list'.keys = {} /\ list'.pressed = {}
  BY <1>1 DEF Empty, ListType
<1>3. list' \in ListType /\ calls' \subseteq CallType /\ Typed' /\ Switches'
  <2>1. list' \in ListType /\ calls' \subseteq CallType
    BY <1>1, <1>2 DEF PortalInv
  <2>2. Switches'
    BY DEF Clear, Reset, Switches
  <2> QED
    BY <1>1, <2>1, <2>2, CallFacts, PortalConstants DEF PortalInv, Typed, Statuses
<1>6. Numbered'
  BY <1>1, <1>2, CallFacts, PortalConstants DEF PortalInv, Numbered
<1>7. Rendered'
  BY <1>1, <1>2, CallFacts, PortalConstants DEF PortalInv, Rendered
<1>8. Deletions'
  BY <1>1, CallFacts, PortalConstants DEF PortalInv, Deletions
<1>9. Current'
  BY <1>1 DEF Current, TabVisible
<1> QED
  BY <1>3, <1>6, <1>7, <1>8, <1>9 DEF PortalInv

\* Requests of the session come and go; a visible tab keeps what it waits for.
LEMMA SessionKeeps ==
    ASSUME PortalInv, NEW rest \in SUBSET calls,
           \/ calls' = rest /\ sent' = sent
           \/ \E r \in CallType :
                /\ calls' = rest \cup {r} /\ sent' = sent + 1
                /\ r.id = sent + 1 /\ r.kind \in {"me", "guest", "logout"}
                /\ r.sid <= sid',
           TabVisible' => /\ UNCHANGED <<status, path>>
                          /\ \A c \in calls : Renews(c) => c \in rest,
           path' \in Paths, status' \in {status, "authenticated"}, sid' \in Nat,
           sid' >= sid, canDelete' \in BOOLEAN, clicks' \in 0 .. MaxClicks,
           UNCHANGED <<requestId, list, text, notice, mail, deleted, cleared>>
    PROVE  PortalInv'
<1>1. calls' \subseteq CallType /\ sent' \in Nat
  BY CallFacts DEF PortalInv
<1>2. list' \in ListType /\ calls' \subseteq CallType /\ Typed' /\ Switches'
  BY <1>1 DEF PortalInv, Typed, Switches, Statuses
<1>3. Numbered'
  BY CallFacts, PortalConstants DEF PortalInv, Numbered
<1>4. Rendered'
  BY DEF PortalInv, Rendered
<1>5. Deletions'
  BY DEF PortalInv, Deletions
<1>6. Current'
  BY DEF PortalInv, Current, Renews, TabVisible
<1> QED
  BY <1>2, <1>3, <1>4, <1>5, <1>6 DEF PortalInv

\* The server answers a request; what it answers is true of the mailbox.
LEMMA ServedKeeps ==
    ASSUME PortalInv, NEW c \in calls, NEW d \in CallType, Served(c, d),
           d.kind = c.kind, d.id = c.id, d.sid = c.sid, d.msg = c.msg,
           mail' \subseteq mail,
           c.kind = "list" /\ d.answer = "ok" => d.keys \subseteq mail,
           c.kind = "delete" /\ d.answer = "ok" => c.msg \notin mail',
           UNCHANGED <<status, sid, path, tab, sent, history, clicks>>
    PROVE  PortalInv'
<1>1. /\ calls' = (calls \ {c}) \cup {d}
      /\ UNCHANGED <<status, sid, path, requestId, list, sent, deleted, cleared, clicks>>
  BY DEF Served, tab, history
<1>2. list' \in ListType /\ calls' \subseteq CallType /\ Typed'
  BY <1>1 DEF PortalInv, Typed
<1>3. Switches'
  BY DEF PortalInv, Switches, tab
<1>4. Numbered'
  BY <1>1, CallFacts DEF PortalInv, Numbered
<1>5. Rendered'
  BY <1>1 DEF PortalInv, Rendered, Deletions
<1>6. Deletions'
  BY <1>1 DEF PortalInv, Deletions
<1>7. Current'
  <2>1. ASSUME NEW e \in calls, Renews(e)
        PROVE  \E f \in calls' : Renews(f)'
    BY <1>1, <2>1 DEF Renews
  <2>2. text' = text
    BY DEF tab
  <2> QED
    BY <1>1, <2>1, <2>2 DEF PortalInv, Current, TabVisible
<1> QED
  BY <1>2, <1>3, <1>4, <1>5, <1>6, <1>7 DEF PortalInv

-----------------------------------------------------------------------------
(* The session                                                             *)

LEMMA NewRequest ==
    ASSUME PortalInv, NEW kind \in Kinds
    PROVE  /\ Request(kind) \in CallType
           /\ Request(kind).id = sent + 1 /\ Request(kind).kind = kind
           /\ Request(kind).sid = 0 /\ Request(kind).answer = "none"
BY RequestType DEF Request

LEMMA SessionRequestKeeps ==
    ASSUME PortalInv, NEW rest \in SUBSET calls, NEW kind \in {"guest", "logout"},
           Send(rest, Request(kind)),
           \A c \in calls : Renews(c) => c \in rest,
           sid' \in Nat, sid' >= sid, clicks' \in 0 .. MaxClicks,
           UNCHANGED <<status, path, tab, mail, history>>
    PROVE  PortalInv'
<1>1. kind \in Kinds
  BY DEF Kinds
<1>2. calls' = rest \cup {Request(kind)} /\ sent' = sent + 1
  BY DEF Send
<1>3. /\ UNCHANGED <<status, path, requestId, list, text, notice, mail, deleted, cleared>>
      /\ canDelete' \in BOOLEAN
  BY DEF tab, history, PortalInv, Switches
<1>4. path' \in Paths /\ 0 <= sid'
  BY <1>3, CallFacts DEF PortalInv, Typed
<1> QED
  BY <1>1, <1>2, <1>3, <1>4, NewRequest, SessionKeeps

LEMMA GuestClickKeeps == ASSUME PortalInv, GuestClick PROVE PortalInv'
BY CallFacts, SessionRequestKeeps, PortalConstants
   DEF GuestClick, Click, PortalInv, Typed

LEMMA LogoutClickKeeps == ASSUME PortalInv, LogoutClick PROVE PortalInv'
BY CallFacts, SessionRequestKeeps, PortalConstants
   DEF LogoutClick, Click, PortalInv, Typed

LEMMA GuestAnswerKeeps ==
    ASSUME PortalInv, NEW c \in calls, GuestAnswer(c) PROVE PortalInv'
<1>1. c.kind = "guest" /\ calls \ {c} \in SUBSET calls /\ ~Renews(c)
  BY DEF GuestAnswer, Renews
<1>2. clicks' \in 0 .. MaxClicks
  BY DEF GuestAnswer, PortalInv, Typed
<1>3. CASE Clear(calls \ {c}) /\ UNCHANGED sid
  BY <1>1, <1>2, <1>3, CallFacts, ClearKeeps
<1>4. CASE /\ sid' = sid + 1
           /\ Send(calls \ {c}, [Request("me") EXCEPT !.sid = sid + 1])
           /\ UNCHANGED <<status, path, tab, mail, history>>
  <2> DEFINE r == [Request("me") EXCEPT !.sid = sid + 1]
  <2>1. r \in CallType /\ r.id = sent + 1 /\ r.kind = "me" /\ r.sid = sid + 1
    <3>1. Request("me") \in CallType
      BY RequestType DEF Kinds
    <3>2. sid + 1 \in Nat
      BY CallFacts
    <3>3. r \in CallType
      BY <3>1, <3>2 DEF CallType
    <3> QED
      BY <3>3 DEF Request
  <2>2. calls' = (calls \ {c}) \cup {r} /\ sent' = sent + 1
    BY <1>4 DEF Send
  <2> HIDE DEF r
  <2>3. /\ UNCHANGED <<status, path, requestId, list, text, notice, mail, deleted, cleared>>
        /\ canDelete' \in BOOLEAN
    BY <1>4 DEF tab, history, PortalInv, Switches
  <2>4. path' \in Paths /\ sid' \in Nat /\ sid' >= sid /\ r.sid <= sid'
    BY <1>4, <2>1, <2>3, CallFacts DEF PortalInv, Typed
  <2>5. \A e \in calls : Renews(e) => e \in calls \ {c}
    BY <1>1
  <2> QED
    BY <1>1, <1>2, <2>1, <2>2, <2>3, <2>4, <2>5, SessionKeeps
<1> QED
  BY <1>3, <1>4 DEF GuestAnswer

LEMMA LogoutAnswerKeeps ==
    ASSUME PortalInv, NEW c \in calls, LogoutAnswer(c) PROVE PortalInv'
<1>1. clicks' \in 0 .. MaxClicks /\ calls \ {c} \in SUBSET calls
  BY DEF LogoutAnswer, PortalInv, Typed
<1> QED
  BY <1>1, CallFacts, ClearKeeps DEF LogoutAnswer

\* A 401 clears the session and makes answers to its requests for it obsolete.
LEMMA UnauthorizedKeeps ==
    ASSUME PortalInv, NEW rest \in SUBSET calls, Unauthorized(rest),
           clicks' \in 0 .. MaxClicks
    PROVE  PortalInv'
BY CallFacts, ClearKeeps DEF Unauthorized

LEMMA ExpiredKeeps == ASSUME PortalInv, Expired PROVE PortalInv'
BY UnauthorizedKeeps, PortalConstants DEF Expired, Click, PortalInv, Typed

\* Selecting a tab loads the messages if they are what it shows.
LEMMA RouteKeeps ==
    ASSUME PortalInv, NEW rest \in SUBSET calls, NEW p \in Paths,
           NEW st \in {status, "authenticated"}, ApplyRoute(rest, p, st),
           path' = p, status' = st, canDelete' \in BOOLEAN, UNCHANGED <<sid, mail, cleared>>,
           clicks' \in 0 .. MaxClicks,
           \/ UNCHANGED deleted
           \/ /\ st = "authenticated" /\ OnMessages(p)
              /\ deleted' \subseteq Messages /\ deleted' \cap mail = {}
    PROVE  PortalInv'
<1>1. sid' \in Nat /\ sid' >= sid
  BY CallFacts
<1>2. deleted' \subseteq Messages /\ deleted' \cap mail = {}
  BY DEF PortalInv, Typed, Deletions
<1>3. CASE st = "authenticated" /\ OnMessages(p) /\ Load(rest, p)
  BY <1>1, <1>2, <1>3, LoadKeeps
<1>4. CASE /\ st # "authenticated" \/ ~OnMessages(p)
           /\ calls' = rest
           /\ UNCHANGED <<requestId, list, text, notice, sent>>
  <2>1. ~TabVisible' /\ UNCHANGED deleted
    BY <1>4 DEF TabVisible
  <2> QED
    BY <1>1, <1>4, <2>1, SessionKeeps
<1> QED
  BY <1>3, <1>4 DEF ApplyRoute

LEMMA SessionAnswerKeeps ==
    ASSUME PortalInv, NEW c \in calls, SessionAnswer(c) PROVE PortalInv'
<1>1. /\ c.kind = "me" /\ calls \ {c} \in SUBSET calls /\ ~Renews(c)
      /\ clicks' \in 0 .. MaxClicks /\ sid' = sid
  BY DEF SessionAnswer, PortalInv, Typed, Renews
<1>2. CASE /\ calls' = calls \ {c}
           /\ UNCHANGED <<status, path, tab, sent, mail, history>>
  <2>1. UNCHANGED <<requestId, list, text, notice, mail, deleted, cleared>>
        /\ canDelete' \in BOOLEAN /\ path' \in Paths
    BY <1>2 DEF tab, history, PortalInv, Switches, Typed
  <2>2. \A e \in calls : Renews(e) => e \in calls \ {c}
    BY <1>1
  <2> QED
    BY <1>1, <1>2, <2>1, <2>2, CallFacts, SessionKeeps
<1>3. CASE /\ status' = "authenticated" /\ canDelete' \in BOOLEAN
           /\ ApplyRoute(calls \ {c}, path, "authenticated")
           /\ UNCHANGED <<path, mail, history>>
  <2>1. UNCHANGED <<deleted, cleared>> /\ path \in Paths
    BY <1>3 DEF history, PortalInv, Typed
  <2> QED
    BY <1>1, <1>3, <2>1, RouteKeeps
<1>4. CASE Clear(calls \ {c})
  BY <1>1, <1>4, CallFacts, ClearKeeps
<1> QED
  BY <1>2, <1>3, <1>4 DEF SessionAnswer

LEMMA NavigateKeeps ==
    ASSUME PortalInv, NEW p \in Paths, Navigate(p) PROVE PortalInv'
<1>1. clicks' \in 0 .. MaxClicks
  BY PortalConstants DEF Navigate, Click, PortalInv, Typed
<1>2. canDelete' \in BOOLEAN /\ UNCHANGED <<sid, mail, deleted, cleared, status>>
  BY DEF Navigate, history, PortalInv, Switches
<1>3. path' = p /\ ApplyRoute(calls, p, status)
  BY DEF Navigate
<1> QED
  BY <1>1, <1>2, <1>3, RouteKeeps

-----------------------------------------------------------------------------
(* The messages tab                                                        *)

LEMMA ReloadClickKeeps == ASSUME PortalInv, ReloadClick PROVE PortalInv'
<1>1. clicks' \in 0 .. MaxClicks
  BY PortalConstants DEF ReloadClick, Click, PortalInv, Typed
<1>2. /\ canDelete' \in BOOLEAN /\ path' \in Paths /\ sid' = sid
      /\ deleted' \subseteq Messages /\ deleted' \cap mail = {}
      /\ UNCHANGED <<mail, cleared, status>>
  BY DEF ReloadClick, history, PortalInv, Switches, Typed, Deletions
<1>3. Load(calls, path)
  BY DEF ReloadClick
<1> QED
  BY <1>1, <1>2, <1>3, CallFacts, LoadKeeps

\* The newest list is rendered.
LEMMA RenderKeeps ==
    ASSUME PortalInv, NEW c \in calls, c.kind = "list", c.answer = "ok", c.id = requestId,
           list' = [id |-> c.id, keys |-> c.keys, deletable |-> canDelete, pressed |-> {}],
           Switches', calls' = calls \ {c},
           UNCHANGED <<status, sid, path, requestId, canDelete, sent, mail, history,
                       clicks>>
    PROVE  PortalInv'
<1>1. /\ list' \in ListType /\ list'.id = requestId /\ list'.keys = c.keys
      /\ list'.pressed = {}
  BY DEF PortalInv, CallType, ListType, Switches
<1>2. UNCHANGED <<status, sid, path, requestId, sent, mail, deleted, cleared, clicks>>
  BY DEF history
<1>3. calls' \subseteq CallType /\ Typed'
  BY <1>2 DEF PortalInv, Typed
<1>5. Numbered'
  <2>1. calls' = calls \ {c}
    OBVIOUS
  <2> QED
    BY <1>1, <1>2, <2>1, CallFacts DEF PortalInv, Numbered
<1>6. Rendered'
  <2>1. c.keys \cap deleted = {} /\ calls' \subseteq calls
    BY DEF PortalInv, Rendered
  <2> QED
    BY <1>1, <1>2, <2>1 DEF PortalInv, Rendered
<1>7. Deletions'
  BY <1>2 DEF PortalInv, Deletions
<1>8. Current'
  BY <1>1, <1>2 DEF Current
<1> QED
  BY <1>1, <1>3, <1>5, <1>6, <1>7, <1>8 DEF PortalInv

\* An error is shown; of the list at most a button changes.
LEMMA FailureKeeps ==
    ASSUME PortalInv, NEW c \in calls, text' = "error", calls' = calls \ {c},
           \/ UNCHANGED list
           \/ \E m \in Messages : list' = [list EXCEPT !.pressed = @ \ {m}],
           UNCHANGED <<status, sid, path, requestId, canDelete, notice, sent, mail,
                       history, clicks>>
    PROVE  PortalInv'
<1>1. UNCHANGED <<status, sid, path, requestId, sent, mail, deleted, cleared, clicks>>
  BY DEF history
<1>2. /\ list' \in ListType /\ list'.id = list.id /\ list'.keys = list.keys
      /\ list'.pressed \subseteq list.pressed /\ list'.deletable = list.deletable
  BY DEF PortalInv, ListType
<1>3. calls' \subseteq CallType /\ Typed'
  BY <1>1 DEF PortalInv, Typed
<1>4. Switches'
  BY DEF PortalInv, Switches
<1>5. Numbered'
  BY <1>1, <1>2, CallFacts DEF PortalInv, Numbered
<1>6. Rendered'
  BY <1>1, <1>2 DEF PortalInv, Rendered
<1>7. Deletions'
  BY <1>1 DEF PortalInv, Deletions
<1>8. Current'
  BY DEF Current
<1> QED
  BY <1>2, <1>3, <1>4, <1>5, <1>6, <1>7, <1>8 DEF PortalInv

LEMMA ListAnswerKeeps ==
    ASSUME PortalInv, NEW c \in calls, ListAnswer(c) PROVE PortalInv'
<1>0. calls \ {c} \in SUBSET calls /\ clicks' \in 0 .. MaxClicks /\ clicks' = clicks
      /\ c.kind = "list"
  BY DEF ListAnswer, PortalInv, Typed
<1>1. CASE Unauthorized(calls \ {c})
  BY <1>0, <1>1, UnauthorizedKeeps
<1>2. CASE /\ c.id # requestId /\ calls' = calls \ {c}
           /\ UNCHANGED <<status, sid, path, tab, sent, mail, history>>
  <2>1. UNCHANGED <<requestId, list, text, notice, mail, deleted, cleared>>
        /\ canDelete' \in BOOLEAN /\ path' \in Paths
    BY <1>2 DEF tab, history, PortalInv, Switches, Typed
  <2>2. \A e \in calls : Renews(e) => e \in calls \ {c}
    BY <1>0, <1>2 DEF Renews
  <2> QED
    BY <1>0, <1>2, <2>1, <2>2, CallFacts, SessionKeeps
<1>3. CASE /\ c.answer = "ok" /\ c.id = requestId
           /\ list' = [id |-> c.id, keys |-> c.keys, deletable |-> canDelete,
                       pressed |-> {}]
           /\ notice' = (path = "/messages/:key" /\ ~(c.linked /\ Linked \in c.keys))
           /\ text' = ""
           /\ calls' = calls \ {c}
           /\ UNCHANGED <<status, sid, path, requestId, canDelete, sent, mail, history>>
  <2>1. Switches'
    BY <1>3 DEF PortalInv, Switches
  <2> QED
    BY <1>0, <1>3, <2>1, RenderKeeps
<1>4. CASE /\ c.answer = "error" /\ text' = "error" /\ calls' = calls \ {c}
           /\ UNCHANGED <<status, sid, path, requestId, canDelete, list, notice, sent,
                          mail, history>>
  BY <1>0, <1>4, FailureKeeps
<1> QED
  BY <1>1, <1>2, <1>3, <1>4 DEF ListAnswer

LEMMA DeleteClickKeeps ==
    ASSUME PortalInv, NEW m \in Messages, DeleteClick(m) PROVE PortalInv'
<1> DEFINE r == [Request("delete") EXCEPT !.msg = m, !.from = list.id]
<1>1. /\ r \in CallType /\ r.kind = "delete" /\ r.id = sent + 1 /\ r.sid = 0
      /\ r.answer = "none" /\ r.msg = m
  <2>1. Request("delete") \in CallType /\ list.id \in Nat
    BY RequestType, CallFacts DEF Kinds
  <2>2. r \in CallType
    BY <2>1 DEF CallType
  <2> QED
    BY <2>2 DEF Request
<1>2. /\ status = "authenticated" /\ calls' = calls \cup {r} /\ sent' = sent + 1
      /\ text' = "busy" /\ list.deletable /\ m \in list.keys
      /\ list' = [list EXCEPT !.pressed = @ \cup {m}]
      /\ UNCHANGED <<status, sid, path, requestId, canDelete, notice, mail, deleted,
                     cleared>>
  BY DEF DeleteClick, TabVisible, Send, history
<1> HIDE DEF r
<1>3. clicks' \in 0 .. MaxClicks
  BY PortalConstants DEF DeleteClick, Click, PortalInv, Typed
<1>4. /\ list' \in ListType /\ list'.id = list.id /\ list'.keys = list.keys
      /\ list'.pressed = list.pressed \cup {m} /\ list'.deletable
  BY <1>2 DEF PortalInv, ListType
<1>5. calls' \subseteq CallType /\ Typed'
  <2>1. sent' \in Nat
    BY <1>2, CallFacts
  <2> QED
    BY <1>1, <1>2, <1>3, <2>1 DEF PortalInv, Typed
<1>6. Switches'
  BY <1>2 DEF PortalInv, Switches
<1>7. Numbered'
  BY <1>1, <1>2, <1>4, CallFacts DEF PortalInv, Numbered
<1>8. Rendered'
  BY <1>1, <1>2, <1>4 DEF PortalInv, Rendered
<1>9. Deletions'
  BY <1>1, <1>2 DEF PortalInv, Deletions
<1>10. Current'
  BY <1>1, <1>2 DEF Current, Renews
<1> QED
  BY <1>4, <1>5, <1>6, <1>7, <1>8, <1>9, <1>10 DEF PortalInv

LEMMA DeleteAnswerKeeps ==
    ASSUME PortalInv, NEW c \in calls, DeleteAnswer(c) PROVE PortalInv'
<1>0. /\ calls \ {c} \in SUBSET calls /\ clicks' \in 0 .. MaxClicks /\ clicks' = clicks
      /\ c.kind = "delete" /\ c.msg \in Messages
  BY DEF DeleteAnswer, PortalInv, Typed, Deletions
<1>1. CASE Unauthorized(calls \ {c})
  BY <1>0, <1>1, UnauthorizedKeeps
<1>2. CASE /\ c.answer = "ok" /\ Confirmed(c)
           /\ \/ /\ path = "/messages/:key" /\ Linked = c.msg
                 /\ path' = "/messages"
                 /\ ApplyRoute(calls \ {c}, "/messages", status)
              \/ /\ path # "/messages/:key" \/ Linked # c.msg
                 /\ Load(calls \ {c}, path)
                 /\ UNCHANGED path
           /\ UNCHANGED <<status, sid, canDelete, mail, cleared>>
  <2>1. deleted' \subseteq Messages /\ deleted' \cap mail = {}
    BY <1>0, <1>2 DEF Confirmed, PortalInv, Typed, Deletions
  <2>2. deleted' = deleted \/ status = "authenticated"
    BY <1>0, <1>2 DEF Confirmed, PortalInv, Deletions
  <2>3. canDelete' \in BOOLEAN /\ path \in Paths /\ sid' = sid
    BY <1>2 DEF PortalInv, Switches, Typed
  <2>4. "/messages" \in Paths /\ OnMessages("/messages")
    BY DEF Paths, OnMessages
  <2>5. CASE path' = "/messages" /\ ApplyRoute(calls \ {c}, "/messages", status)
    BY <1>0, <1>2, <2>1, <2>2, <2>3, <2>4, <2>5, RouteKeeps
  <2>6. CASE Load(calls \ {c}, path) /\ UNCHANGED path
    BY <1>0, <1>2, <2>1, <2>3, <2>6, CallFacts, LoadKeeps
  <2> QED
    BY <1>2, <2>5, <2>6
<1>3. CASE /\ c.answer = "error"
           /\ list' = IF list.id = c.from
                      THEN [list EXCEPT !.pressed = @ \ {c.msg}] ELSE list
           /\ text' = "error"
           /\ calls' = calls \ {c}
           /\ UNCHANGED <<status, sid, path, requestId, canDelete, notice, sent, mail,
                          history>>
  BY <1>0, <1>3, FailureKeeps
<1> QED
  BY <1>1, <1>2, <1>3 DEF DeleteAnswer

-----------------------------------------------------------------------------
(* The server                                                              *)

LEMMA ServeListKeeps ==
    ASSUME PortalInv, NEW c \in calls, ServeList(c) PROVE PortalInv'
<1>1. /\ c \in CallType /\ c.kind = "list" /\ mail \subseteq Messages
      /\ UNCHANGED <<status, sid, path, tab, sent, history, clicks>>
  BY DEF ServeList, PortalInv, Typed
<1>2. CASE /\ Served(c, [c EXCEPT !.answer = "ok", !.keys = mail])
           /\ UNCHANGED mail
  <2> DEFINE d == [c EXCEPT !.answer = "ok", !.keys = mail]
  <2>1. /\ d \in CallType /\ d.kind = c.kind /\ d.id = c.id /\ d.sid = c.sid
        /\ d.msg = c.msg /\ d.keys = mail
    BY <1>1 DEF CallType
  <2> HIDE DEF d
  <2>2. Served(c, d) /\ mail' = mail
    BY <1>2 DEF d
  <2> QED
    BY <1>1, <2>1, <2>2, ServedKeeps
<1>3. ASSUME NEW why \in {"401", "error"}, Served(c, [c EXCEPT !.answer = why]),
             UNCHANGED mail
      PROVE  PortalInv'
  <2> DEFINE d == [c EXCEPT !.answer = why]
  <2>1. /\ d \in CallType /\ d.kind = c.kind /\ d.id = c.id /\ d.sid = c.sid
        /\ d.msg = c.msg /\ d.answer # "ok"
    BY <1>1 DEF CallType
  <2> HIDE DEF d
  <2>2. Served(c, d) /\ mail' = mail
    BY <1>3 DEF d
  <2> QED
    BY <1>1, <2>1, <2>2, ServedKeeps
<1> QED
  BY <1>2, <1>3 DEF ServeList, Refuse

LEMMA ServeDeleteKeeps ==
    ASSUME PortalInv, NEW c \in calls, ServeDelete(c) PROVE PortalInv'
<1>1. /\ c \in CallType /\ c.kind = "delete"
      /\ UNCHANGED <<status, sid, path, tab, sent, history, clicks>>
  BY DEF ServeDelete, PortalInv
<1>2. ASSUME NEW answer \in {"ok", "401", "error"}, Served(c, [c EXCEPT !.answer = answer]),
             mail' \subseteq mail, answer = "ok" => c.msg \notin mail'
      PROVE  PortalInv'
  <2> DEFINE d == [c EXCEPT !.answer = answer]
  <2>1. /\ d \in CallType /\ d.kind = c.kind /\ d.id = c.id /\ d.sid = c.sid
        /\ d.msg = c.msg /\ d.answer = answer
    BY <1>1 DEF CallType
  <2> HIDE DEF d
  <2>2. Served(c, d)
    BY <1>2 DEF d
  <2> QED
    BY <1>1, <1>2, <2>1, <2>2, ServedKeeps
<1>3. CASE /\ mail' = mail \ {c.msg}
           /\ \E answer \in {"ok", "error"} : Served(c, [c EXCEPT !.answer = answer])
  BY <1>2, <1>3
<1>4. CASE Refuse(c)
  BY <1>2, <1>4 DEF Refuse
<1> QED
  BY <1>3, <1>4 DEF ServeDelete

-----------------------------------------------------------------------------
(* Theorems                                                                *)

LEMMA PortalInit == Init => PortalInv
<1> SUFFICES ASSUME Init
             PROVE  PortalInv
  OBVIOUS
<1> DEFINE r == [kind |-> "me", id |-> 1, sid |-> 1, from |-> 0, msg |-> NoMessage,
                 linked |-> FALSE, answer |-> "none", keys |-> {}]
<1>1. r \in CallType /\ r.id = 1 /\ r.sid = 1 /\ r.kind = "me"
  BY DEF CallType, Kinds
<1>2. calls = {r} /\ requestId = 0 /\ cleared = 0 /\ sent = 1 /\ sid = 1
  BY DEF Init
<1> HIDE DEF r
<1>3. list \in ListType /\ list.id = 0 /\ list.keys = {} /\ list.pressed = {}
  BY DEF Init, Empty, ListType
<1>4. status = "loading" /\ path \in Paths /\ mail = Messages /\ deleted = {} /\ clicks = 0
  BY DEF Init
<1>5. calls \subseteq CallType /\ Typed
  BY <1>1, <1>2, <1>4, PortalConstants DEF Typed, Statuses
<1>6. Switches
  BY DEF Init, Switches
<1>7. Numbered
  BY <1>1, <1>2, <1>3 DEF Numbered
<1>8. Rendered /\ Deletions /\ Current
  BY <1>1, <1>2, <1>3, <1>4 DEF Rendered, Deletions, Current
<1> QED
  BY <1>3, <1>5, <1>6, <1>7, <1>8 DEF PortalInv

LEMMA PortalStep == PortalInv /\ [Next]_vars => PortalInv'
<1> SUFFICES ASSUME PortalInv, [Next]_vars
             PROVE  PortalInv'
  OBVIOUS
<1>1. CASE Network
  BY <1>1, GuestAnswerKeeps, SessionAnswerKeeps, LogoutAnswerKeeps, ListAnswerKeeps,
     DeleteAnswerKeeps, ServeListKeeps, ServeDeleteKeeps DEF Network
<1>2. CASE User
  BY <1>2, GuestClickKeeps, LogoutClickKeeps, ExpiredKeeps, ReloadClickKeeps,
     NavigateKeeps, DeleteClickKeeps DEF User
<1>3. CASE UNCHANGED vars
  <2>1. UNCHANGED <<status, sid, path, requestId, canDelete, list, text, notice, calls,
                    sent, mail, deleted, cleared, clicks>>
    BY <1>3 DEF vars, tab, history
  <2> QED
    BY <2>1 DEF PortalInv, Typed, Switches, Numbered, Rendered, Deletions, Current,
                Renews, TabVisible
<1> QED
  BY <1>1, <1>2, <1>3 DEF Next

\* What is rendered, in flight and deleted fits together in every state of the page.
THEOREM PortalInvariance == Spec => []PortalInv
BY PortalInit, PortalStep, PTL DEF Spec

\* The page, its requests and the mailbox stay well typed, whatever the number of clicks.
THEOREM PortalTyped == Spec => []TypeOK
<1>1. PortalInv => TypeOK
  <2> SUFFICES ASSUME PortalInv
               PROVE  TypeOK
    OBVIOUS
  <2>1. /\ requestId \in 0 .. sent /\ list.id \in 0 .. requestId /\ cleared \in 0 .. sent
        /\ \A c \in calls : c.id \in 1 .. sent /\ c.sid <= sid
        /\ \A c, d \in calls : c.id = d.id => c = d
    BY CallFacts DEF PortalInv, Numbered
  <2>2. \A c \in calls : c.kind \in Kinds
    BY DEF PortalInv, CallType
  <2>3. mail \subseteq Messages /\ deleted \subseteq Messages \ mail
    BY DEF PortalInv, Typed, Deletions
  <2>4. status \in Statuses /\ path \in Paths /\ sid \in Nat /\ sent \in Nat
        /\ clicks \in 0 .. MaxClicks
    BY DEF PortalInv, Typed
  <2> QED
    BY <2>1, <2>2, <2>3, <2>4 DEF PortalInv, Switches, Rendered, TypeOK
<1> QED
  BY <1>1, PortalInvariance, PTL

\* MessagesTab.load: no list is shown that was asked for before the session was cleared.
THEOREM ListsAreOfThisSession == Spec => []ListOfThisSession
<1>1. PortalInv => ListOfThisSession
  BY DEF PortalInv, Numbered, ListOfThisSession
<1> QED
  BY <1>1, PortalInvariance, PTL

\* A tab that waits for nothing shows the answer to its last request, or an error.
THEOREM QuietTabsAreCurrent == Spec => []QuietTabIsCurrent
<1>1. PortalInv => QuietTabIsCurrent
  BY DEF PortalInv, Current, Rendered, QuietTabIsCurrent
<1> QED
  BY <1>1, PortalInvariance, PTL

\* deleteMessage: no list that was served before a deletion is rendered after the session
\* was told of it.
THEOREM DeletedStaysAway == Spec => DeletedNotShownAgain
<1> DEFINE NotShown == list'.id # list.id /\ status = "authenticated" =>
                           list'.keys \cap deleted' = {}
<1>1. PortalInv /\ PortalInv' /\ [Next]_vars => [NotShown]_vars
  <2> SUFFICES ASSUME PortalInv, PortalInv', Next, list'.id # list.id
               PROVE  list'.keys \cap deleted' = {}
    BY DEF NotShown
  <2>1. SUFFICES list'.id = requestId'
    BY DEF PortalInv, Rendered
  <2>2. ASSUME NEW rest, Clear(rest)
        PROVE  list'.id = requestId'
    BY <2>2 DEF Clear, Reset, Empty
  <2>3. ASSUME NEW rest, NEW p, NEW st, ApplyRoute(rest, p, st)
        PROVE  list' = list
    BY <2>3 DEF ApplyRoute, Load
  <2>4. ASSUME NEW c \in calls, ListAnswer(c)
        PROVE  list'.id = requestId'
    <3>1. \/ Unauthorized(calls \ {c})
          \/ c.id = requestId /\ requestId' = requestId
             /\ list' = [id |-> c.id, keys |-> c.keys, deletable |-> canDelete,
                         pressed |-> {}]
          \/ list' = list
      BY <2>4 DEF ListAnswer, tab
    <3> QED
      BY <2>2, <3>1 DEF Unauthorized
  <2>5. ASSUME NEW c \in calls, DeleteAnswer(c)
        PROVE  list'.id = requestId'
    <3>1. ASSUME NEW m
          PROVE  [list EXCEPT !.pressed = @ \ {m}].id = list.id
      BY DEF PortalInv, ListType
    <3> QED
      BY <2>2, <2>3, <2>5, <3>1 DEF DeleteAnswer, Unauthorized, Load
  <2>6. ASSUME NEW c \in calls,
               GuestAnswer(c) \/ SessionAnswer(c) \/ LogoutAnswer(c)
        PROVE  list'.id = requestId'
    BY <2>2, <2>3, <2>6 DEF GuestAnswer, SessionAnswer, LogoutAnswer, tab
  <2>7. ASSUME NEW m \in Messages, DeleteClick(m)
        PROVE  list'.id = list.id
    BY <2>7 DEF DeleteClick, PortalInv, ListType
  <2>8. CASE Network
    BY <2>4, <2>5, <2>6, <2>8 DEF Network, ServeList, ServeDelete, tab
  <2>9. CASE User
    BY <2>2, <2>3, <2>7, <2>9 DEF User, GuestClick, LogoutClick, Expired, Unauthorized,
                                  ReloadClick, Load, Navigate, tab
  <2> QED
    BY <2>8, <2>9 DEF Next
<1> QED
  BY <1>1, PortalInvariance, PTL DEF Spec, DeletedNotShownAgain

-----------------------------------------------------------------------------
(***************************************************************************)
(* The recorder.  An attempt that waits for the microphone or for its stop *)
(* event carries the generation in which it began, and no generation comes *)
(* back: one that finds its own is still in the session that began it.     *)
(***************************************************************************)

AttemptPhases ==
    {"none", "asking", "recording", "stopping", "uploading", "uploaded", "dropped"}

Shown == {"idle", "requesting", "recording", "uploading"}

\* What the page shows.
Button ==
    /\ enabled \in BOOLEAN
    /\ state \in Shown \cup {"disabled"}
    /\ confirm \in {"closed", "armed", "enabled", "late"}
    /\ (state = "disabled") <=> ~enabled
    /\ confirm # "closed" => state = "recording"

\* What the handlers hold.
Handles ==
    /\ recorder \in Attempts \cup {NoAttempt}
    /\ stream \in Attempts \cup {NoAttempt}
    /\ interval \in Attempts \cup {NoAttempt}
    /\ intervals \subseteq Attempts /\ discarded \subseteq Attempts

\* Where each attempt is, in which generation, with its stream.
Progress ==
    /\ generation \in 0 .. MaxResets
    /\ phase \in [Attempts -> AttemptPhases]
    /\ gen \in [Attempts -> 0 .. MaxResets]
    /\ live \in [Attempts -> BOOLEAN]
    /\ \A a \in Attempts :
         /\ gen[a] <= generation
         /\ phase[a] # "none" /\ gen[a] = generation => enabled
         /\ live[a] => phase[a] \in {"recording", "stopping"}

RecorderInv == Button /\ Handles /\ Progress

LEMMA RecorderInitial == RecorderInit => RecorderInv
<1> SUFFICES ASSUME RecorderInit PROVE RecorderInv
  OBVIOUS
<1>1. Button
  BY DEF RecorderInit, Button
<1>2. Handles
  BY DEF RecorderInit, Handles
<1>3. Progress
  <2>1. 0 \in 0 .. MaxResets
    BY RecordTabConstants
  <2> QED
    BY <2>1 DEF RecorderInit, Progress, AttemptPhases
<1> QED
  BY <1>1, <1>2, <1>3 DEF RecorderInv

\* The state that setState leaves is one that the page can show.
LEMMA SetStateShows ==
    ASSUME Button, NEW s, SetState(s), enabled' \in BOOLEAN,
           \/ s \in Shown /\ enabled'
           \/ s = "disabled" /\ ~enabled'
    PROVE  Button'
BY DEF Button, SetState, Shown

\* A phase that moves on, in an attempt that keeps its generation.
LEMMA PhaseMoves ==
    ASSUME Progress, NEW a \in Attempts, NEW p \in AttemptPhases \ {"none"},
           phase[a] # "none",
           phase' = [phase EXCEPT ![a] = p],
           UNCHANGED <<generation, gen, enabled>>,
           live' \in [Attempts -> BOOLEAN],
           \A b \in Attempts \ {a} : live'[b] => live[b],
           live'[a] => p \in {"recording", "stopping"}
    PROVE  Progress'
BY DEF Progress

\* A recorder that is recording is one of an attempt, and may be stopped.
LEMMA StopMoves ==
    ASSUME RecorderInv, Recording(recorder), StopFrom(phase)
    PROVE  /\ recorder \in Attempts /\ phase[recorder] = "recording"
           /\ phase' = [phase EXCEPT ![recorder] = "stopping"]
           /\ interval' \in Attempts \cup {NoAttempt} /\ intervals' \subseteq Attempts
BY DEF RecorderInv, Handles, Recording, StopFrom, StopRecordingProgress

\* The end of a session, from phases in which no upload has moved on.
LEMMA ResetKeepsRecorder ==
    ASSUME RecorderInv, NEW phases \in [Attempts -> AttemptPhases],
           \A a \in Attempts :
             /\ phases[a] = "none" => phase[a] = "none"
             /\ phase[a] \in {"recording", "stopping"} => phases[a] = phase[a],
           ResetFrom(phases)
    PROVE  RecorderInv'
<1> USE DEF RecorderInv
<1>1. /\ generation \in Nat /\ generation < MaxResets
      /\ generation' = generation + 1 /\ enabled' = FALSE
      /\ SetState("disabled") /\ UNCHANGED <<recorder, discarded, gen>>
  BY DEF ResetFrom, Progress
<1>2. /\ live' \in [Attempts -> BOOLEAN]
      /\ \A a \in Attempts : live'[a] => live[a]
      /\ stream' \in Attempts \cup {NoAttempt}
  BY DEF ResetFrom, Progress, Handles
<1>3. /\ phase' \in [Attempts -> AttemptPhases]
      /\ \A a \in Attempts :
           phase[a] \in {"recording", "stopping"}
           => phase'[a] \in {"recording", "stopping"}
      /\ interval' \in Attempts \cup {NoAttempt} /\ intervals' \subseteq Attempts
  <2>1. CASE Recording(recorder) /\ StopFrom(phases)
    BY <2>1 DEF StopFrom, StopRecordingProgress, Recording, Handles, AttemptPhases
  <2>2. CASE phase' = phases /\ UNCHANGED timers
    BY <2>2 DEF timers, Handles
  <2> QED
    BY <2>1, <2>2 DEF ResetFrom
<1>4. Button'
  BY <1>1, SetStateShows
<1>5. Handles'
  BY <1>1, <1>2, <1>3 DEF Handles
<1>6. Progress'
  <2>1. generation' \in 0 .. MaxResets
    BY <1>1, RecordTabConstants
  <2>2. \A a \in Attempts : gen'[a] \in Nat /\ gen'[a] < generation'
    BY <1>1 DEF Progress
  <2>3. \A a \in Attempts : live'[a] => phase'[a] \in {"recording", "stopping"}
    BY <1>2, <1>3 DEF Progress
  <2> QED
    BY <1>1, <1>2, <1>3, <2>1, <2>2, <2>3 DEF Progress
<1> QED
  BY <1>4, <1>5, <1>6

LEMMA SessionKeepsRecorder ==
    ASSUME RecorderInv, Session \/ (\E a \in Attempts : UploadUnauthorized(a))
    PROVE  RecorderInv'
<1> USE DEF RecorderInv
<1>1. CASE Enable
  <2>1. Button'
    BY <1>1, SetStateShows DEF Enable, Button, Shown
  <2>2. Handles' /\ Progress'
    BY <1>1 DEF Enable, Handles, Progress, timers
  <2> QED
    BY <2>1, <2>2
<1>2. CASE ResetRecorder
  BY <1>2, ResetKeepsRecorder DEF ResetRecorder, Progress
<1>3. ASSUME NEW a \in Attempts, UploadUnauthorized(a) PROVE RecorderInv'
  <2> DEFINE phases == [phase EXCEPT ![a] = "uploaded"]
  <2>1. /\ phases \in [Attempts -> AttemptPhases]
        /\ \A b \in Attempts :
             /\ phases[b] = "none" => phase[b] = "none"
             /\ phase[b] \in {"recording", "stopping"} => phases[b] = phase[b]
    BY <1>3 DEF UploadUnauthorized, Progress, AttemptPhases
  <2>2. ResetFrom(phases)
    BY <1>3 DEF UploadUnauthorized
  <2> HIDE DEF phases
  <2> QED
    BY <2>1, <2>2, ResetKeepsRecorder
<1> QED
  BY <1>1, <1>2, <1>3 DEF Session

\* What stops the recorder, and the confirmation.
LEMMA ControlsKeepRecorder ==
    ASSUME RecorderInv, ClickStop \/ IntervalFires \/ Confirmation
    PROVE  RecorderInv'
<1> USE DEF RecorderInv
<1>1. /\ UNCHANGED <<enabled, generation, state, recorder, stream, gen, live>>
  BY DEF ClickStop, IntervalFires, Confirmation, ArmCancellation, EnableDiscard,
         ContinueRecording, DiscardRecording
<1>2. confirm' = confirm \/ confirm' = "closed" \/
      (confirm' \in {"armed", "enabled", "late"} /\ state = "recording")
  BY DEF ClickStop, IntervalFires, Confirmation, ArmCancellation, EnableDiscard,
         ContinueRecording, DiscardRecording, Button
<1>3. Button'
  BY <1>1, <1>2 DEF Button
<1>4. discarded' \subseteq Attempts
  BY DEF ClickStop, IntervalFires, Confirmation, ArmCancellation, EnableDiscard,
         ContinueRecording, DiscardRecording, Handles, Recording
<1>5. \/ UNCHANGED <<timers, phase>>
      \/ Recording(recorder) /\ StopFrom(phase)
  BY DEF ClickStop, IntervalFires, Confirmation, ArmCancellation, EnableDiscard,
         ContinueRecording, DiscardRecording
<1>6. CASE UNCHANGED <<timers, phase>>
  BY <1>1, <1>3, <1>4, <1>6 DEF Handles, Progress, timers
<1>7. CASE Recording(recorder) /\ StopFrom(phase)
  <2>1. Handles'
    BY <1>1, <1>4, <1>7, StopMoves DEF Handles
  <2>2. "stopping" \in AttemptPhases \ {"none"}
    BY DEF AttemptPhases
  <2>3. \A a \in Attempts : live'[a] => live[a]
    BY <1>1
  <2>4. live' \in [Attempts -> BOOLEAN]
    BY <1>1 DEF Progress
  <2>5. Progress'
    BY <1>1, <1>7, <2>2, <2>3, <2>4, StopMoves, PhaseMoves
  <2> QED
    BY <1>3, <2>1, <2>5
<1> QED
  BY <1>5, <1>6, <1>7

\* The steps of one attempt that leave the session as it is.
LEMMA AttemptKeepsRecorder ==
    ASSUME RecorderInv, NEW a \in Attempts,
           \/ ClickStart(a) \/ Granted(a) \/ NotGranted(a) \/ TracksEnd(a)
           \/ StopEvent(a) \/ UploadEnds(a)
    PROVE  RecorderInv'
<1> USE DEF RecorderInv
<1>0. /\ "dropped" \in AttemptPhases \ {"none"}
      /\ "recording" \in AttemptPhases \ {"none"}
      /\ "stopping" \in AttemptPhases \ {"none"}
      /\ "uploading" \in AttemptPhases \ {"none"}
      /\ "uploaded" \in AttemptPhases \ {"none"}
      /\ "asking" \in AttemptPhases
  BY DEF AttemptPhases
<1>1. CASE ClickStart(a)
  <2>1. enabled /\ enabled' /\ enabled' = enabled /\ SetState("requesting")
    BY <1>1 DEF ClickStart
  <2>2. Button'
    BY <2>1, SetStateShows DEF Shown, Button
  <2>3. Handles'
    BY <1>1 DEF ClickStart, Handles, timers
  <2>4. Progress'
    BY <1>0, <1>1 DEF ClickStart, Progress
  <2> QED
    BY <2>2, <2>3, <2>4
<1>2. CASE Granted(a)
  <2>1. CASE phase' = [phase EXCEPT ![a] = "dropped"]
             /\ UNCHANGED <<state, recorder, stream, timers, confirm, live>>
    <3>1. phase[a] = "asking" /\ UNCHANGED <<enabled, generation, discarded, gen>>
      BY <1>2 DEF Granted
    <3>2. Button' /\ Handles'
      BY <2>1, <3>1 DEF Button, Handles, timers
    <3>3. live' \in [Attempts -> BOOLEAN] /\ ~live'[a]
      BY <2>1, <3>1 DEF Progress
    <3>4. Progress'
      BY <1>0, <2>1, <3>1, <3>3, PhaseMoves
    <3> QED
      BY <3>2, <3>4
  <2>2. CASE enabled /\ phase' = [phase EXCEPT ![a] = "recording"]
             /\ live' = [live EXCEPT ![a] = TRUE] /\ SetState("recording")
             /\ stream' = a /\ recorder' = a
             /\ interval' = a /\ intervals' = intervals \cup {a}
    <3>1. phase[a] = "asking" /\ UNCHANGED <<enabled, generation, discarded, gen>>
      BY <1>2 DEF Granted
    <3>2. Button'
      BY <2>2, <3>1, SetStateShows DEF Shown, Button
    <3>3. Handles'
      BY <2>2, <3>1 DEF Handles
    <3>4. live' \in [Attempts -> BOOLEAN] /\ \A b \in Attempts \ {a} : live'[b] = live[b]
      BY <2>2 DEF Progress
    <3>5. Progress'
      BY <1>0, <2>2, <3>1, <3>4, PhaseMoves
    <3> QED
      BY <3>2, <3>3, <3>5
  <2> QED
    BY <1>2, <2>1, <2>2 DEF Granted
<1>3. CASE NotGranted(a)
  <2>1. /\ phase[a] = "asking" /\ phase' = [phase EXCEPT ![a] = "dropped"]
        /\ UNCHANGED <<enabled, generation, timers, discarded, gen, live>>
        /\ recorder' \in {recorder, a} /\ stream' \in {stream, a}
    BY <1>3 DEF NotGranted
  <2>2. Button'
    <3>1. CASE gen[a] = generation
      <4>1. enabled /\ enabled' = enabled /\ SetState("idle")
        BY <1>3, <2>1, <3>1 DEF NotGranted, Progress
      <4> QED
        BY <4>1, SetStateShows DEF Shown, Button
    <3>2. CASE gen[a] # generation
      BY <1>3, <2>1, <3>2 DEF NotGranted, Button
    <3> QED
      BY <3>1, <3>2
  <2>3. Handles'
    BY <2>1 DEF Handles, timers
  <2>4. live' \in [Attempts -> BOOLEAN] /\ ~live'[a]
    BY <2>1 DEF Progress
  <2>5. Progress'
    BY <1>0, <2>1, <2>4, PhaseMoves
  <2> QED
    BY <2>2, <2>3, <2>5
<1>4. CASE TracksEnd(a)
  <2>1. /\ phase[a] = "recording" /\ phase' = [phase EXCEPT ![a] = "stopping"]
        /\ live' = [live EXCEPT ![a] = FALSE]
        /\ UNCHANGED <<enabled, generation, state, recorder, stream, timers,
                       confirm, discarded, gen>>
    BY <1>4 DEF TracksEnd
  <2>2. Button' /\ Handles'
    BY <2>1 DEF Button, Handles, timers
  <2>3. live' \in [Attempts -> BOOLEAN] /\ \A b \in Attempts \ {a} : live'[b] = live[b]
    BY <2>1 DEF Progress
  <2>4. Progress'
    BY <1>0, <2>1, <2>3, PhaseMoves
  <2> QED
    BY <2>2, <2>4
<1>5. CASE StopEvent(a)
  <2>1. /\ phase[a] = "stopping" /\ live' = [live EXCEPT ![a] = FALSE]
        /\ UNCHANGED <<enabled, generation, gen>>
        /\ discarded' = discarded \ {a}
    BY <1>5 DEF StopEvent, Release
  <2>2. Handles'
    BY <1>5, <2>1 DEF StopEvent, Release, StopRecordingProgress, Handles
  <2>3. /\ phase' = [phase EXCEPT ![a] = "dropped"]
           \/ phase' = [phase EXCEPT ![a] = "uploading"]
        /\ SetState(Idle) \/ (enabled /\ SetState("uploading"))
    BY <1>5 DEF StopEvent
  <2>4. Button'
    <3>1. CASE SetState(Idle)
      BY <2>1, <3>1, SetStateShows DEF Idle, Shown, Button
    <3>2. CASE enabled /\ SetState("uploading")
      BY <2>1, <3>2, SetStateShows DEF Shown, Button
    <3> QED
      BY <2>3, <3>1, <3>2
  <2>5. live' \in [Attempts -> BOOLEAN] /\ ~live'[a]
        /\ \A b \in Attempts \ {a} : live'[b] = live[b]
    BY <2>1 DEF Progress
  <2>6. Progress'
    BY <1>0, <2>1, <2>3, <2>5, PhaseMoves
  <2> QED
    BY <2>2, <2>4, <2>6
<1>6. CASE UploadEnds(a)
  <2>1. /\ phase[a] = "uploading" /\ phase' = [phase EXCEPT ![a] = "uploaded"]
        /\ UNCHANGED <<enabled, generation, recorder, stream, timers, discarded,
                       gen, live>>
    BY <1>6 DEF UploadEnds
  <2>2. Button'
    <3>1. CASE enabled
      BY <1>6, <2>1, <3>1, SetStateShows DEF UploadEnds, Shown, Button
    <3>2. CASE ~enabled
      BY <1>6, <2>1, <3>2 DEF UploadEnds, Button
    <3> QED
      BY <3>1, <3>2
  <2>3. Handles'
    BY <2>1 DEF Handles, timers
  <2>4. live' \in [Attempts -> BOOLEAN] /\ ~live'[a]
    BY <2>1 DEF Progress
  <2>5. Progress'
    BY <1>0, <2>1, <2>4, PhaseMoves
  <2> QED
    BY <2>2, <2>3, <2>5
<1> QED
  BY <1>1, <1>2, <1>3, <1>4, <1>5, <1>6

LEMMA RecorderStep ==
    ASSUME RecorderInv, [RecorderNext]_recorderVars PROVE RecorderInv'
<1>1. CASE UNCHANGED recorderVars
  BY <1>1 DEF recorderVars, RecorderInv, Button, Handles, Progress
<1> QED
  BY <1>1, SessionKeepsRecorder, ControlsKeepRecorder, AttemptKeepsRecorder
  DEF RecorderNext

LEMMA RecorderAlways == RecorderSpec => []RecorderInv
<1>1. RecorderInv /\ [RecorderNext]_recorderVars => RecorderInv'
  BY RecorderStep
<1> QED
  BY RecorderInitial, <1>1, PTL DEF RecorderSpec

(***************************************************************************)
(* recorderState is "disabled" exactly while setEnabled has not enabled    *)
(* the recorder (nobody is signed in, or the browser cannot record), and   *)
(* the confirmation is open only over a recording, for any attempts and    *)
(* any number of sessions.                                                 *)
(***************************************************************************)
THEOREM RecorderTyped == RecorderSpec => []RecorderTypeOK
<1>1. RecorderInv => RecorderTypeOK
  BY DEF RecorderInv, Button, Handles, Progress, RecorderTypeOK, Shown, AttemptPhases
<1> QED
  BY RecorderAlways, <1>1, PTL

(***************************************************************************)
(* Every stream that is open belongs to a recorder that records, or whose  *)
(* stop event will close it.                                               *)
(***************************************************************************)
THEOREM OpenStreamHasRecorder == RecorderSpec => []NoOpenStreamWithoutRecorder
<1>1. RecorderInv => NoOpenStreamWithoutRecorder
  BY DEF RecorderInv, Progress, NoOpenStreamWithoutRecorder
<1> QED
  BY RecorderAlways, <1>1, PTL

LEMMA RecordsForThisSessionStep ==
    ASSUME RecorderInv, RecordsForThisSession, [RecorderNext]_recorderVars
    PROVE  RecordsForThisSession'
<1> USE DEF RecorderInv
<1>0. phase \in [Attempts -> AttemptPhases] /\ gen \in [Attempts -> 0 .. MaxResets]
  BY DEF Progress
<1>1. recorder \in Attempts \cup {NoAttempt}
  BY DEF Handles
<1>2. CASE UNCHANGED recorderVars
  BY <1>2 DEF recorderVars, RecordsForThisSession, Recording
<1>3. CASE Enable
  BY <1>3 DEF Enable, RecordsForThisSession, Recording
\* The end of a session stops the recorder that is recording.
<1>4. ASSUME NEW phases \in [Attempts -> AttemptPhases],
             \A a \in Attempts : phases[a] = "recording" => phase[a] = "recording",
             ResetFrom(phases)
      PROVE  ~Recording(recorder)'
  BY <1>1, <1>4 DEF ResetFrom, StopFrom, Recording
<1>5. CASE ResetRecorder
  BY <1>0, <1>4, <1>5 DEF ResetRecorder, RecordsForThisSession
<1>6. ASSUME NEW a \in Attempts, UploadUnauthorized(a) PROVE ~Recording(recorder)'
  <2>1. PICK phases \in [Attempts -> AttemptPhases] :
          phases = [phase EXCEPT ![a] = "uploaded"] /\ ResetFrom(phases)
    BY <1>0, <1>6 DEF UploadUnauthorized, AttemptPhases
  <2>2. \A b \in Attempts : phases[b] = "recording" => phase[b] = "recording"
    BY <1>0, <2>1
  <2> QED
    BY <1>4, <2>1, <2>2
<1>7. CASE ClickStop \/ IntervalFires \/ Confirmation
  <2>1. /\ UNCHANGED <<enabled, generation, recorder, gen>>
        /\ phase' = phase \/ (Recording(recorder) /\ StopFrom(phase))
    BY <1>7 DEF ClickStop, IntervalFires, Confirmation, ArmCancellation, EnableDiscard,
                ContinueRecording, DiscardRecording
  <2> QED
    BY <1>0, <1>1, <2>1 DEF StopFrom, RecordsForThisSession, Recording
<1>8. ASSUME NEW a \in Attempts,
             ClickStart(a) \/ NotGranted(a) \/ TracksEnd(a) \/ StopEvent(a) \/ UploadEnds(a)
      PROVE  RecordsForThisSession'
  \* No recorder begins: the one that is this.recorder was so and recorded before.
  <2>1. /\ UNCHANGED <<enabled, generation>>
        /\ \A b \in Attempts : phase'[b] = "recording"
                              => phase[b] = "recording" /\ gen'[b] = gen[b]
        /\ recorder' \in {recorder, NoAttempt} \/ phase'[recorder'] = "dropped"
    BY <1>0, <1>8
    DEF ClickStart, NotGranted, TracksEnd, StopEvent, Release, UploadEnds
  <2> QED
    BY <1>1, <2>1 DEF RecordsForThisSession, Recording
\* The one that begins was asked for in this session.
<1>9. ASSUME NEW a \in Attempts, Granted(a) PROVE RecordsForThisSession'
  <2>1. CASE ~enabled \/ gen[a] # generation
    BY <1>0, <1>1, <1>9, <2>1 DEF Granted, RecordsForThisSession, Recording
  <2>2. CASE enabled /\ gen[a] = generation
    BY <1>9, <2>2 DEF Granted, RecordsForThisSession
  <2> QED
    BY <2>1, <2>2
<1> QED
  BY <1>2, <1>3, <1>5, <1>6, <1>7, <1>8, <1>9
  DEF RecorderNext, Session, RecordsForThisSession

(***************************************************************************)
(* Whenever the permission comes and however many sessions end, the        *)
(* recorder that the page controls records for the session it began in.    *)
(***************************************************************************)
THEOREM RecordsForItsSession == RecorderSpec => []RecordsForThisSession
<1>1. RecorderInit => RecordsForThisSession
  BY DEF RecorderInit, RecordsForThisSession, Recording
<1>2. /\ RecorderInv /\ RecordsForThisSession /\ [RecorderNext]_recorderVars
      => RecordsForThisSession'
  BY RecordsForThisSessionStep
<1> QED
  BY RecorderAlways, <1>1, <1>2, PTL DEF RecorderSpec

(***************************************************************************)
(* The half of StoppedIsUploaded that needs no fairness: a recording that  *)
(* was stopped and not discarded is not discarded any more, and leaves its *)
(* wait for the stop event as an upload or after the end of its session.   *)
(***************************************************************************)
StoppedIsKept ==
    [][\A a \in Attempts :
         phase[a] = "stopping" /\ a \notin discarded
         => /\ a \notin discarded'
            /\ \/ phase'[a] \in {"stopping", "uploading"}
               \/ gen[a] # generation]_recorderVars

LEMMA StoppedStaysKept ==
    ASSUME RecorderInv, [RecorderNext]_recorderVars, NEW a \in Attempts,
           phase[a] = "stopping", a \notin discarded
    PROVE  /\ a \notin discarded'
           /\ phase'[a] \in {"stopping", "uploading"} \/ gen[a] # generation
<1> USE DEF RecorderInv
<1>0. phase \in [Attempts -> AttemptPhases]
  BY DEF Progress
<1>1. ASSUME NEW b \in Attempts, StopEvent(b)
      PROVE  /\ a \notin discarded'
             /\ phase'[a] \in {"stopping", "uploading"} \/ gen[a] # generation
  <2>1. CASE a = b
    BY <1>0, <1>1, <2>1 DEF StopEvent, Progress
  <2>2. CASE a # b
    BY <1>0, <1>1, <2>2 DEF StopEvent
  <2> QED
    BY <2>1, <2>2
<1>2. CASE UNCHANGED <<phase, discarded>>
  BY <1>2
<1>3. CASE Session
  BY <1>0, <1>3
  DEF Session, Enable, ResetRecorder, ResetFrom, StopFrom, Recording
<1>4. CASE ClickStop \/ IntervalFires \/ Confirmation
  BY <1>0, <1>4
  DEF ClickStop, IntervalFires, Confirmation, ArmCancellation, EnableDiscard,
      ContinueRecording, DiscardRecording, StopFrom, Recording
<1>5. ASSUME NEW b \in Attempts,
             \/ ClickStart(b) \/ Granted(b) \/ NotGranted(b) \/ TracksEnd(b)
             \/ UploadEnds(b)
      PROVE  phase'[a] = "stopping" /\ discarded' = discarded
  BY <1>0, <1>5 DEF ClickStart, Granted, NotGranted, TracksEnd, UploadEnds
<1>6. ASSUME NEW b \in Attempts, UploadUnauthorized(b)
      PROVE  phase'[a] = "stopping" /\ discarded' = discarded
  <2>1. PICK phases \in [Attempts -> AttemptPhases] :
          /\ phases = [phase EXCEPT ![b] = "uploaded"] /\ ResetFrom(phases)
          /\ phase[b] = "uploading"
    BY <1>0, <1>6 DEF UploadUnauthorized, AttemptPhases
  <2>2. phases[a] = "stopping"
    BY <1>0, <2>1
  <2>3. phase' = phases \/ phase' = [phases EXCEPT ![recorder] = "stopping"]
    BY <2>1 DEF ResetFrom, StopFrom
  <2>4. discarded' = discarded
    BY <2>1 DEF ResetFrom
  <2> QED
    BY <2>1, <2>2, <2>3, <2>4
<1> QED
  BY <1>1, <1>2, <1>3, <1>4, <1>5, <1>6 DEF RecorderNext, recorderVars

(***************************************************************************)
(* Nothing but the end of the session keeps a stopped recording from its   *)
(* upload: neither a click nor a second recording before the stop event,   *)
(* nor the end of another upload.                                          *)
(***************************************************************************)
THEOREM StoppedIsNotLost == RecorderSpec => StoppedIsKept
<1>1. RecorderInv /\ [RecorderNext]_recorderVars
      => [\A a \in Attempts :
            phase[a] = "stopping" /\ a \notin discarded
            => /\ a \notin discarded'
               /\ \/ phase'[a] \in {"stopping", "uploading"}
                  \/ gen[a] # generation]_recorderVars
  BY StoppedStaysKept
<1> QED
  BY RecorderAlways, <1>1, PTL DEF RecorderSpec, StoppedIsKept
=============================================================================
