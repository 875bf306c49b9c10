-------------------------------- MODULE Portal --------------------------------
(***************************************************************************)
(* The portal page: its session (frontend/src/main.ts, session.ts), the    *)
(* client that notices expired sessions (api.ts) and the messages tab      *)
(* (messages-tab.ts), in front of a mailbox.                               *)
(*                                                                         *)
(* Handlers run to completion.  A call is a request in flight: the server  *)
(* first serves it, in any order, and the answer arrives later, in any     *)
(* order.  Which account the session cookie names is left to the server,   *)
(* so that GET /api/me may answer with any user.  Signing in with OAuth    *)
(* leaves the page and is a new instance of the portal.                    *)
(***************************************************************************)
EXTENDS Naturals, FiniteSets

CONSTANTS Messages,   \* message keys
          Linked,     \* the message that the path /messages/:key names
          NoMessage,
          MaxClicks   \* bound on what the user does and on expired sessions

ASSUME PortalConstants ==
    /\ Linked \in Messages /\ NoMessage \notin Messages
    /\ MaxClicks \in Nat

VARIABLES status,     \* of the session
          sid,        \* sessionRequestId
          path,       \* location.pathname
          requestId,  \* of the messages tab; 0 is null
          canDelete,  \* canDeleteMessages
          list,       \* what the tab shows: which load it came from, what it has
          text,       \* the status line of the tab, as its class
          notice,     \* "linked message not found"
          calls, sent,  \* requests in flight, and how many there ever were
          mail,         \* messages in the mailbox
          deleted,      \* messages whose deletion the session that asked for it
                        \* was told (history)
          cleared,      \* requests sent when the session was cleared last (history)
          clicks

tab == <<requestId, canDelete, list, text, notice>>
history == <<deleted, cleared>>
vars == <<status, sid, path, tab, calls, sent, mail, history, clicks>>

Paths == {"/record", "/messages", "/messages/:key"}
OnMessages(p) == p \in {"/messages", "/messages/:key"}
Empty == [id |-> 0, keys |-> {}, deletable |-> FALSE, pressed |-> {}]

Request(kind) ==
    [kind |-> kind, id |-> sent + 1, sid |-> 0, from |-> 0, msg |-> NoMessage,
     linked |-> path = "/messages/:key", answer |-> "none", keys |-> {}]

\* loadSession() runs when the page is opened.
Init ==
    /\ status = "loading"
    /\ sid = 1
    /\ path \in Paths
    /\ requestId = 0 /\ canDelete = FALSE
    /\ list = Empty /\ text = "" /\ notice = FALSE
    /\ sent = 1
    /\ calls = {[kind |-> "me", id |-> 1, sid |-> 1, from |-> 0, msg |-> NoMessage,
                 linked |-> FALSE, answer |-> "none", keys |-> {}]}
    /\ mail = Messages
    /\ deleted = {} /\ cleared = 0
    /\ clicks = 0

-----------------------------------------------------------------------------
(* What handlers are made of; rest are the calls that stay in flight.      *)

Send(rest, request) == calls' = rest \cup {request} /\ sent' = sent + 1

\* MessagesTab.load
Load(rest, p) ==
    /\ requestId' = sent + 1
    /\ text' = "busy"
    /\ Send(rest, [Request("list") EXCEPT !.linked = p = "/messages/:key"])
    /\ UNCHANGED <<list, notice>>

\* applyCurrentRoute: selecting the messages tab activates it.
ApplyRoute(rest, p, st) ==
    \/ st = "authenticated" /\ OnMessages(p) /\ Load(rest, p)
    \/ /\ st # "authenticated" \/ ~OnMessages(p)
       /\ calls' = rest
       /\ UNCHANGED <<requestId, list, text, notice, sent>>

\* Fault: a reset forgets the list but not the request for the next one.
ResetKeepingRequest ==
    /\ canDelete' = FALSE
    /\ list' = Empty /\ text' = "" /\ notice' = FALSE
    /\ UNCHANGED requestId

\* MessagesTab.reset
Reset ==
    /\ requestId' = 0 /\ canDelete' = FALSE
    /\ list' = Empty /\ text' = "" /\ notice' = FALSE

\* session.clear(), and showLoggedOut
Clear(rest) ==
    /\ status' = "anonymous"
    /\ Reset
    /\ calls' = rest
    /\ cleared' = sent
    /\ UNCHANGED <<sent, path, mail, deleted>>

\* onUnauthorized
Unauthorized(rest) == sid' = sid + 1 /\ Clear(rest)

Click == clicks < MaxClicks /\ clicks' = clicks + 1

-----------------------------------------------------------------------------
(* The session                                                             *)

\* loginAsGuest; its button is on the login page.
GuestClick ==
    /\ Click
    /\ status # "authenticated"
    /\ sid' = sid + 1
    /\ Send(calls, Request("guest"))
    /\ UNCHANGED <<status, path, tab, mail, history>>

\* Fault: a failed guest login only says so.
GuestAnswerNoClear(c) ==
    /\ c.kind = "guest"
    /\ \/ /\ sid' = sid + 1
          /\ Send(calls \ {c}, [Request("me") EXCEPT !.sid = sid + 1])
       \/ calls' = calls \ {c} /\ UNCHANGED <<sid, sent>>
    /\ UNCHANGED <<status, path, tab, mail, history, clicks>>

GuestAnswer(c) ==
    /\ c.kind = "guest"
    /\ \/ /\ sid' = sid + 1
          /\ Send(calls \ {c}, [Request("me") EXCEPT !.sid = sid + 1])
          /\ UNCHANGED <<status, path, tab, mail, history>>
       \/ Clear(calls \ {c}) /\ UNCHANGED sid
    /\ UNCHANGED clicks

\* loadSession: an answer that is not the newest one's is ignored.
SessionAnswer(c) ==
    /\ c.kind = "me"
    /\ \/ /\ c.sid # sid
          /\ calls' = calls \ {c}
          /\ UNCHANGED <<status, path, tab, sent, mail, history>>
       \/ /\ c.sid = sid
          /\ status' = "authenticated"
          /\ canDelete' \in BOOLEAN
          /\ ApplyRoute(calls \ {c}, path, "authenticated")
          /\ UNCHANGED <<path, mail, history>>
       \/ c.sid = sid /\ Clear(calls \ {c})
    /\ UNCHANGED <<sid, clicks>>

LogoutClick ==
    /\ Click
    /\ status = "authenticated"
    /\ sid' = sid + 1
    /\ Send(calls, Request("logout"))
    /\ UNCHANGED <<status, path, tab, mail, history>>

\* The session is cleared whether the request succeeded or not.
LogoutAnswer(c) ==
    /\ c.kind = "logout"
    /\ Clear(calls \ {c})
    /\ UNCHANGED <<sid, clicks>>

\* A request of another component is answered with 401.
Expired == Click /\ Unauthorized(calls)

\* navigate, or the browser's back and forward buttons.
Navigate(p) ==
    /\ Click
    /\ path' = p
    /\ ApplyRoute(calls, p, status)
    /\ UNCHANGED <<status, sid, canDelete, mail, history>>

-----------------------------------------------------------------------------
(* The messages tab                                                        *)

TabVisible == status = "authenticated" /\ OnMessages(path)

ReloadClick ==
    /\ Click
    /\ TabVisible
    /\ Load(calls, path)
    /\ UNCHANGED <<status, sid, path, canDelete, mail, history>>

\* Fault: any answer is rendered, not only that of the newest request.
ListAnswerStale(c) ==
    /\ c.kind = "list" /\ c.answer # "none"
    /\ \/ c.answer = "401" /\ Unauthorized(calls \ {c})
       \/ /\ c.answer = "ok"
          /\ list' = [id |-> c.id, keys |-> c.keys, deletable |-> canDelete,
                      pressed |-> {}]
          /\ notice' = (path = "/messages/:key" /\ ~(c.linked /\ Linked \in c.keys))
          /\ text' = ""
          /\ calls' = calls \ {c}
          /\ UNCHANGED <<status, sid, path, requestId, canDelete, sent, mail, history>>
       \/ /\ c.answer = "error"
          /\ text' = "error"
          /\ calls' = calls \ {c}
          /\ UNCHANGED <<status, sid, path, requestId, canDelete, list, notice, sent,
                         mail, history>>
    /\ UNCHANGED clicks

\* Fault: an error is ignored as a 401 is.
ListAnswerSilent(c) ==
    /\ c.kind = "list" /\ c.answer # "none"
    /\ \/ c.answer = "401" /\ Unauthorized(calls \ {c})
       \/ /\ c.answer = "error" \/ (c.answer = "ok" /\ c.id # requestId)
          /\ calls' = calls \ {c}
          /\ UNCHANGED <<status, sid, path, tab, sent, mail, history>>
       \/ /\ c.answer = "ok" /\ c.id = requestId
          /\ list' = [id |-> c.id, keys |-> c.keys, deletable |-> canDelete,
                      pressed |-> {}]
          /\ notice' = (path = "/messages/:key" /\ ~(c.linked /\ Linked \in c.keys))
          /\ text' = ""
          /\ calls' = calls \ {c}
          /\ UNCHANGED <<status, sid, path, requestId, canDelete, sent, mail, history>>
    /\ UNCHANGED clicks

\* load, after the await; render.
ListAnswer(c) ==
    /\ c.kind = "list" /\ c.answer # "none"
    /\ \/ c.answer = "401" /\ Unauthorized(calls \ {c})
       \/ /\ c.answer # "401" /\ c.id # requestId
          /\ calls' = calls \ {c}
          /\ UNCHANGED <<status, sid, path, tab, sent, mail, history>>
       \/ /\ c.answer = "ok" /\ c.id = requestId
          /\ list' = [id |-> c.id, keys |-> c.keys, deletable |-> canDelete,
                      pressed |-> {}]
          /\ notice' = (path = "/messages/:key" /\ ~(c.linked /\ Linked \in c.keys))
          /\ text' = ""
          /\ calls' = calls \ {c}
          /\ UNCHANGED <<status, sid, path, requestId, canDelete, sent, mail, history>>
       \/ /\ c.answer = "error" /\ c.id = requestId
          /\ text' = "error"
          /\ calls' = calls \ {c}
          /\ UNCHANGED <<status, sid, path, requestId, canDelete, list, notice, sent,
                         mail, history>>
    /\ UNCHANGED clicks

DeleteClick(m) ==
    /\ Click
    /\ TabVisible
    /\ list.deletable /\ m \in list.keys \ list.pressed
    /\ list' = [list EXCEPT !.pressed = @ \cup {m}]
    /\ text' = "busy"
    /\ Send(calls, [Request("delete") EXCEPT !.msg = m, !.from = list.id])
    /\ UNCHANGED <<status, sid, path, requestId, canDelete, notice, mail, history>>

Confirmed(c) == deleted' = IF c.id > cleared THEN deleted \cup {c.msg} ELSE deleted

\* Fault: the messages are not loaded again.
DeleteAnswerNoLoad(c) ==
    /\ c.kind = "delete" /\ c.answer # "none"
    /\ calls' = calls \ {c}
    /\ IF c.answer = "ok" THEN Confirmed(c) ELSE UNCHANGED deleted
    /\ text' = IF c.answer = "ok" THEN "" ELSE "error"
    /\ UNCHANGED <<status, sid, path, requestId, canDelete, list, notice, sent, mail,
                   cleared, clicks>>

(***************************************************************************)
(* deleteMessage, after the await.  Unlike load it does not ask whether    *)
(* its session is still there.                                             *)
(***************************************************************************)
DeleteAnswer(c) ==
    /\ c.kind = "delete" /\ c.answer # "none"
    /\ \/ c.answer = "401" /\ Unauthorized(calls \ {c})
       \/ /\ c.answer = "ok"
          /\ Confirmed(c)
          /\ \/ /\ path = "/messages/:key" /\ Linked = c.msg
                /\ path' = "/messages"
                /\ ApplyRoute(calls \ {c}, "/messages", status)
             \/ /\ path # "/messages/:key" \/ Linked # c.msg
                /\ Load(calls \ {c}, path)
                /\ UNCHANGED path
          /\ UNCHANGED <<status, sid, canDelete, mail, cleared>>
       \/ /\ c.answer = "error"
          /\ list' = IF list.id = c.from
                     THEN [list EXCEPT !.pressed = @ \ {c.msg}] ELSE list
          /\ text' = "error"
          /\ calls' = calls \ {c}
          /\ UNCHANGED <<status, sid, path, requestId, canDelete, notice, sent, mail,
                         history>>
    /\ UNCHANGED clicks

-----------------------------------------------------------------------------
(* The server: list_messages and delete_message of messages_routes.py.     *)

Served(c, answer) == calls' = (calls \ {c}) \cup {answer}

Refuse(c) ==
    \E why \in {"401", "error"} :
        Served(c, [c EXCEPT !.answer = why]) /\ UNCHANGED mail

ServeList(c) ==
    /\ c.kind = "list" /\ c.answer = "none"
    /\ \/ /\ Served(c, [c EXCEPT !.answer = "ok", !.keys = mail])
          /\ UNCHANGED mail
       \/ Refuse(c)
    /\ UNCHANGED <<status, sid, path, tab, sent, history, clicks>>

\* fetch, then expunge: 404 without the message; the answer to expunge may be lost.
ServeDelete(c) ==
    /\ c.kind = "delete" /\ c.answer = "none"
    /\ \/ /\ c.msg \in mail
          /\ mail' = mail \ {c.msg}
          /\ \E answer \in {"ok", "error"} :
               Served(c, [c EXCEPT !.answer = answer])
       \/ Refuse(c)
    /\ UNCHANGED <<status, sid, path, tab, sent, history, clicks>>

Network ==
    \E c \in calls :
        \/ GuestAnswer(c) \/ SessionAnswer(c) \/ LogoutAnswer(c)
        \/ ListAnswer(c) \/ DeleteAnswer(c)
        \/ ServeList(c) \/ ServeDelete(c)

User ==
    \/ GuestClick \/ LogoutClick \/ Expired \/ ReloadClick
    \/ \E p \in Paths : Navigate(p)
    \/ \E m \in Messages : DeleteClick(m)

Next == User \/ Network

Spec == Init /\ [][Next]_vars

\* Fairness: requests are answered, or fail.
FairSpec == Spec /\ WF_vars(Network)

-----------------------------------------------------------------------------
Statuses == {"loading", "anonymous", "authenticated"}
Kinds == {"me", "guest", "logout", "list", "delete"}

TypeOK ==
    /\ status \in Statuses
    /\ path \in Paths
    /\ sid \in Nat /\ sent \in Nat
    /\ requestId \in 0 .. sent
    /\ canDelete \in BOOLEAN /\ notice \in BOOLEAN
    /\ text \in {"", "busy", "error"}
    /\ list.id \in 0 .. requestId
    /\ list.pressed \subseteq list.keys
    /\ list.pressed # {} => list.deletable
    /\ \A c \in calls : c.kind \in Kinds /\ c.id \in 1 .. sent /\ c.sid <= sid
    /\ \A c, d \in calls : c.id = d.id => c = d
    /\ mail \subseteq Messages /\ deleted \subseteq Messages \ mail
    /\ cleared \in 0 .. sent
    /\ clicks \in 0 .. MaxClicks

(***************************************************************************)
(* The tab never shows messages that were requested before the session was *)
(* cleared, although their answer may come when the next user is signed    *)
(* in.                                                                     *)
(***************************************************************************)
ListOfThisSession == list.id # 0 => list.id > cleared

(***************************************************************************)
(* A message whose deletion the session was told does not come back: no    *)
(* list that was served before the deletion is rendered after it, as long  *)
(* as the user is signed in.                                               *)
(***************************************************************************)
DeletedNotShownAgain ==
    [][list'.id # list.id /\ status = "authenticated" =>
         list'.keys \cap deleted' = {}]_vars

(***************************************************************************)
(* When nothing is in flight the tab shows the answer to its last request, *)
(* without the messages it has deleted, or says that something failed.     *)
(***************************************************************************)
QuietTabIsCurrent ==
    calls = {} /\ TabVisible /\ text # "error" =>
        list.id = requestId /\ list.keys \cap deleted = {}

\* "Loading..." and "Deleting..." do not stay, whichever answers are ignored.
BusyEnds == text = "busy" ~> text # "busy"

(***************************************************************************)
(* The page learns whether somebody is signed in, although every newer     *)
(* session request makes it ignore the answers to the older ones.          *)
(***************************************************************************)
SessionSettles == status = "loading" ~> status # "loading"
=============================================================================
