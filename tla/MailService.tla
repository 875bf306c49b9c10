---------------------------- MODULE MailService ----------------------------
(***************************************************************************)
(* What /api/messages promises about one user's mail, whatever Dovecot,    *)
(* other mail clients and the delivery of new mail do while a request is   *)
(* being answered.  A request is not answered from one moment's mailbox:   *)
(* the promise is stated with the messages that were there at some time    *)
(* (`ever') and at every time (`always') since it began.  Module Mailbox   *)
(* implements it, one doveadm call at a time.                              *)
(***************************************************************************)
EXTENDS Integers, FiniteSets

CONSTANTS References,   \* messages of the user: (mailbox guid, uid)
          Inbox,        \* those in the mailbox INBOX
          Saved, Uid,   \* date.saved.unixtime and uid of each
          Malformed,    \* those that the MIME parser raises on
          Audio,        \* lengths of the audio parts of each
          NoReference,  \* what an invalid key names
          Limit,        \* WEB_MESSAGE_LIMIT
          Calls,        \* requests to the backend
          Requests      \* what each request may ask for

VARIABLES box,      \* messages that are there
          arrived,  \* messages that were ever there: a uid is not used again
          state,    \* of each request: new, open, closed
          request,  \* what it asks for
          answer,   \* what it was answered
          ever, always

vars == <<box, arrived, state, request, answer, ever, always>>

NoRange == [form |-> "none", first |-> 0, last |-> 0]
NoRequest == [op |-> "none", wanted |-> NoReference, include |-> FALSE,
              guest |-> FALSE, index |-> 0, range |-> NoRange]
NoAnswer == [code |-> "none", listed |-> {}, found |-> "none", bytes |-> {}]
Code(c) == [NoAnswer EXCEPT !.code = c]
Wanted(c) == request[c].wanted

\* The order of the list: newest first, by time saved and then by uid.
Newer(n, m) ==
    \/ Saved[n] > Saved[m]
    \/ Saved[n] = Saved[m] /\ Uid[n] > Uid[m]
Ahead(m, set) == {n \in set : Newer(n, m)}

(***************************************************************************)
(* The bytes that a single range asks for (RFC 9110, 14.1.2), as a set of  *)
(* positions.  Several ranges, another unit and what is no range at all    *)
(* are "other": the promise is that they are refused.                      *)
(***************************************************************************)
SingleRange == {"from-to", "from", "suffix"}

Selected(range, total) ==
    {i \in 0 .. total - 1 :
        \/ range.form = "from-to" /\ range.first <= i /\ i <= range.last
        \/ range.form = "from" /\ range.first <= i
        \/ range.form = "suffix" /\ total - range.last <= i}

-----------------------------------------------------------------------------
Init ==
    /\ box \in SUBSET References
    /\ arrived = box
    /\ state = [c \in Calls |-> "new"]
    /\ request = [c \in Calls |-> NoRequest]
    /\ answer = [c \in Calls |-> NoAnswer]
    /\ ever = [c \in Calls |-> {}]
    /\ always = [c \in Calls |-> {}]

\* Every open request sees the new contents of the mailbox.
Becomes(new) ==
    /\ box' = new
    /\ ever' = [c \in Calls |-> IF state[c] = "open" THEN ever[c] \cup new
                                                     ELSE ever[c]]
    /\ always' = [c \in Calls |-> always[c] \cap new]

\* A message is delivered, copied or moved into a mailbox.
Arrive(m) ==
    /\ m \notin arrived
    /\ arrived' = arrived \cup {m}
    /\ Becomes(box \cup {m})
    /\ UNCHANGED <<state, request, answer>>

\* Another client, the retention task or a quota removes a message.
Vanish(m) ==
    /\ m \in box
    /\ Becomes(box \ {m})
    /\ UNCHANGED <<arrived, state, request, answer>>

Begin(c, r) ==
    /\ state[c] = "new"
    /\ state' = [state EXCEPT ![c] = "open"]
    /\ request' = [request EXCEPT ![c] = r]
    /\ ever' = [ever EXCEPT ![c] = box]
    /\ always' = [always EXCEPT ![c] = box]
    /\ UNCHANGED <<box, arrived, answer>>

\* The mailbox is not available; or something that no handler expects.
Failures == {"500", "503"}

(***************************************************************************)
(* A deletion takes effect while it is being answered, or at any time      *)
(* after it failed.  The guest's never does.                               *)
(***************************************************************************)
Remove(c) ==
    /\ request[c].op = "delete"
    /\ ~request[c].guest
    /\ Wanted(c) \in References
    /\ state[c] = "open" \/ answer[c].code \in Failures
    /\ Becomes(box \ {Wanted(c)})
    /\ UNCHANGED <<arrived, state, request, answer>>

-----------------------------------------------------------------------------
(***************************************************************************)
(* The list: messages that were there; every readable message of INBOX     *)
(* that was there all the time, unless Limit newer ones were; none that    *)
(* Limit newer ones kept off the list all the time; and the message asked  *)
(* for, wherever it is.                                                    *)
(***************************************************************************)
ListAllowed(c, a) ==
    /\ a.code = "200"
    /\ a.bytes = {}
    /\ a.listed \subseteq ever[c] \ Malformed
    /\ \A m \in (always[c] \cap Inbox) \ Malformed :
         Cardinality(Ahead(m, ever[c] \cap Inbox)) < Limit => m \in a.listed
    /\ \A m \in a.listed \ {Wanted(c)} :
         /\ m \in Inbox
         /\ Cardinality(Ahead(m, always[c] \cap Inbox)) < Limit
    /\ Wanted(c) \in always[c] \ Malformed => Wanted(c) \in a.listed
    /\ a.found = IF ~request[c].include THEN "none"
                 ELSE IF Wanted(c) \in a.listed THEN "yes" ELSE "no"

\* audio_index counts from 0, and may be any integer.
HasAudio(c) == request[c].index + 1 \in DOMAIN Audio[Wanted(c)]
Length(c) == Audio[Wanted(c)][request[c].index + 1]

AudioAllowed(c, a) ==
    LET range == request[c].range
    IN  /\ a.listed = {} /\ a.found = "none"
        /\ \/ /\ a.code = "404" /\ a.bytes = {}
              /\ Wanted(c) \in always[c] => ~HasAudio(c)
           \/ /\ Wanted(c) \in ever[c] /\ HasAudio(c)
              /\ \/ /\ a.code = "200" /\ range.form = "none"
                    /\ a.bytes = 0 .. Length(c) - 1
                 \/ /\ a.code = "206" /\ range.form \in SingleRange
                    /\ a.bytes # {} /\ a.bytes = Selected(range, Length(c))
                 \/ /\ a.code = "416" /\ range.form \in SingleRange
                    /\ a.bytes = {} /\ Selected(range, Length(c)) = {}
                 \/ a.code = "416" /\ range.form = "other" /\ a.bytes = {}

\* 204: the message was there, and is there no longer.
DeleteAllowed(c, a) ==
    \/ a = Code("403") /\ request[c].guest
    \/ /\ ~request[c].guest
       /\ \/ a = Code("404") /\ Wanted(c) \notin always[c]
          \/ a = Code("204") /\ Wanted(c) \in ever[c] \ box

Allowed(c, a) ==
    \/ a \in {Code(k) : k \in Failures \cup {"401"}}
    \/ request[c].op = "list" /\ ListAllowed(c, a)
    \/ request[c].op = "audio" /\ AudioAllowed(c, a)
    \/ request[c].op = "delete" /\ DeleteAllowed(c, a)

Reply(c) ==
    LET a == answer'[c]
    IN  /\ state[c] = "open"
        /\ state' = [state EXCEPT ![c] = "closed"]
        /\ answer' = [answer EXCEPT ![c] = a]
        /\ Allowed(c, a)
        /\ ever' = [ever EXCEPT ![c] = {}]
        /\ always' = [always EXCEPT ![c] = {}]
        /\ UNCHANGED <<box, arrived, request>>

Next ==
    \/ \E m \in References : Arrive(m) \/ Vanish(m)
    \/ \E c \in Calls : \/ \E r \in Requests[c] : Begin(c, r)
                        \/ Remove(c) \/ Reply(c)

Spec == Init /\ [][Next]_vars
=============================================================================
