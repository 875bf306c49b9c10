------------------------------ MODULE Mailbox ------------------------------
(***************************************************************************)
(* /api/messages over Dovecot's HTTP API (backend/messages_routes.py,      *)
(* mailbox.py, messages.py, the byte ranges of audio.py).                  *)
(*                                                                         *)
(* The handlers are plain functions: FastAPI runs each in a thread of its  *)
(* own, so they overlap.  A handler makes up to three doveadm calls; each  *)
(* sees the mailbox of its own moment, and mail arrives, is moved and is   *)
(* expunged between any two of them.  A call fails when Dovecot does not   *)
(* answer in time, answers with an error or with nonsense; an expunge that *)
(* was given up may still be carried out later.  The rows of an answer     *)
(* that is none of these are taken to be well-formed and complete: the     *)
(* code passes over a row that it cannot read.                             *)
(*                                                                         *)
(* `ever' and `always' are history: no action reads them.                  *)
(***************************************************************************)
EXTENDS Integers, FiniteSets, Sequences

CONSTANTS References, Inbox, Saved, Uid, Malformed, Audio, NoReference,
          Limit, Calls,
          GuidOf,     \* mailbox guid of each reference
          InboxGuid,  \* that of INBOX
          Requests    \* what each request may ask for

VARIABLES box, arrived, request, answer, ever, always,
          pc,        \* where the handler of each request is
          refs,      \* references it fetches
          todo,      \* mailbox guids it has still to fetch from, in order
          fetched,   \* references whose text it got
          sent       \* requests whose expunge Dovecot has still to do

mailVars == <<box, arrived>>
historyVars == <<ever, always>>
localVars == <<refs, todo, fetched>>
vars == <<mailVars, historyVars, localVars, pc, request, answer, sent>>

Open(c) == pc[c] \notin {"new", "done"}

(***************************************************************************)
(* The refinement mapping: a request is open from its authentication to    *)
(* its answer; the calls to Dovecot and their results are not seen.        *)
(***************************************************************************)
Service == INSTANCE MailService WITH
    state <- [c \in Calls |-> IF pc[c] = "new" THEN "new"
                              ELSE IF Open(c) THEN "open" ELSE "closed"]

ASSUME MessagesTyped ==
    /\ IsFiniteSet(References) /\ NoReference \notin References
    /\ Inbox = {m \in References : GuidOf[m] = InboxGuid}
    /\ Saved \in [References -> Nat] /\ Uid \in [References -> Nat]
    /\ Audio \in [References -> Seq(Nat)]
    /\ Limit \in Nat \ {0}
ASSUME RequestsTyped ==
    \A c \in Calls : Requests[c] \subseteq
        [op : {"list", "audio", "delete"}, wanted : References \cup {NoReference},
         include : BOOLEAN, guest : BOOLEAN, index : Int,
         range : [form : {"none", "other", "from-to", "from", "suffix"},
                  first : Nat, last : Int]]

NoAnswer == Service!NoAnswer
Code(c) == Service!Code(c)
Wanted(c) == request[c].wanted

-----------------------------------------------------------------------------
(* audio.py:117, parse_audio_byte_range: first and last position.          *)

Unsatisfiable == <<>>
Smaller(x, y) == IF x < y THEN x ELSE y
Larger(x, y) == IF x > y THEN x ELSE y

ParseRange(range, total) ==
    LET last == IF range.form = "from-to" THEN range.last ELSE total - 1
    IN  IF total < 1 \/ range.form = "other" THEN Unsatisfiable
        ELSE IF range.form = "suffix"
        THEN IF range.last < 1 THEN Unsatisfiable
             ELSE <<Larger(total - range.last, 0), total - 1>>
        ELSE IF range.first >= total \/ last < range.first THEN Unsatisfiable
        ELSE <<range.first, Smaller(last, total - 1)>>

\* messages.py:36, extract_audio: the part counted from 0, if there is one.
HasPart(m, index) == index >= 0 /\ index < Len(Audio[m])
PartLength(m, index) == Audio[m][index + 1]

-----------------------------------------------------------------------------
Init ==
    /\ box \in SUBSET References
    /\ arrived = box
    /\ request = [c \in Calls |-> Service!NoRequest]
    /\ answer = [c \in Calls |-> NoAnswer]
    /\ ever = [c \in Calls |-> {}]
    /\ always = [c \in Calls |-> {}]
    /\ pc = [c \in Calls |-> "new"]
    /\ refs = [c \in Calls |-> {}]
    /\ todo = [c \in Calls |-> <<>>]
    /\ fetched = [c \in Calls |-> {}]
    /\ sent = {}

\* The mailbox changes, and with it what open requests could have seen.
Becomes(new) ==
    /\ box' = new
    /\ ever' = [c \in Calls |-> IF Open(c) THEN ever[c] \cup new ELSE ever[c]]
    /\ always' = [c \in Calls |-> always[c] \cap new]

\* LMTP delivery, or a client that copies or moves a message: a new uid.
Arrive(m) ==
    /\ m \notin arrived
    /\ arrived' = arrived \cup {m}
    /\ Becomes(box \cup {m})
    /\ UNCHANGED <<localVars, pc, request, answer, sent>>

\* Another client, or the retention task, takes a message away.
Vanish(m) ==
    /\ m \in box
    /\ Becomes(box \ {m})
    /\ UNCHANGED <<arrived, localVars, pc, request, answer, sent>>

Step(c, from, to) ==
    /\ pc[c] = from
    /\ pc' = [pc EXCEPT ![c] = to]

\* The handler returns or raises; its variables end with it.
Answer(c, a) ==
    /\ pc' = [pc EXCEPT ![c] = "done"]
    /\ answer' = [answer EXCEPT ![c] = a]
    /\ refs' = [refs EXCEPT ![c] = {}]
    /\ todo' = [todo EXCEPT ![c] = <<>>]
    /\ fetched' = [fetched EXCEPT ![c] = {}]
    /\ ever' = [ever EXCEPT ![c] = {}]
    /\ always' = [always EXCEPT ![c] = {}]
    /\ UNCHANGED <<mailVars, request, sent>>

\* The request arrives; current_active_user() reads the session and the user.
Begin(c, r) ==
    /\ Step(c, "new", "authenticated")
    /\ request' = [request EXCEPT ![c] = r]
    /\ ever' = [ever EXCEPT ![c] = box]
    /\ always' = [always EXCEPT ![c] = box]
    /\ UNCHANGED <<mailVars, localVars, answer, sent>>

\* It finds nobody who is active, or the database fails.
Unauthenticated(c) ==
    /\ pc[c] = "authenticated"
    /\ \E code \in {"401", "500"} : Answer(c, Code(code))

-----------------------------------------------------------------------------
(* GET /api/messages                                                       *)
\* Fault: the list is cut before it is reversed, and keeps the oldest.
NewestFirstForgotten(set) ==
    {m \in set : Cardinality({n \in set : Service!Newer(m, n)}) < Limit}

\* latest_references: the last Limit messages by time saved, then by uid.
Newest(set) == {m \in set : Cardinality(Service!Ahead(m, set)) < Limit}

\* references_with_requested: the message asked for goes before the others.
Requested(c) == {Wanted(c)} \cap References

\* The mailboxes to fetch from, in the order in which references name them.
Mailboxes(c, latest) ==
    LET ofInbox == IF latest = {} THEN <<>> ELSE <<InboxGuid>>
        guid == GuidOf[Wanted(c)]
    IN  IF Requested(c) \subseteq latest THEN ofInbox
        ELSE IF latest = {} \/ guid = InboxGuid THEN <<guid>>
        ELSE <<guid, InboxGuid>>

LatestReferences(c) ==
    /\ request[c].op = "list"
    /\ Step(c, "authenticated", "fetching")
    /\ LET latest == Newest(box \cap Inbox)
       IN  /\ refs' = [refs EXCEPT ![c] = latest \cup Requested(c)]
           /\ todo' = [todo EXCEPT ![c] = Mailboxes(c, latest)]
    /\ UNCHANGED <<mailVars, historyVars, fetched, request, answer, sent>>

\* fetch_messages: one call for each mailbox; what is gone has no row.
Fetch(c) ==
    /\ pc[c] = "fetching" /\ todo[c] # <<>>
    /\ fetched' = [fetched EXCEPT ![c] =
         @ \cup {m \in refs[c] \cap box : GuidOf[m] = Head(todo[c])}]
    /\ todo' = [todo EXCEPT ![c] = Tail(@)]
    /\ UNCHANGED <<mailVars, historyVars, refs, pc, request, answer, sent>>

Fetched(c) == pc[c] = "fetching" /\ todo[c] = <<>>

\* requested_message_found, after malformed messages were left out.
RequestedFound(c) ==
    IF ~request[c].include THEN "none"
    ELSE IF Wanted(c) \in fetched[c] \ Malformed THEN "yes" ELSE "no"

ListMessages(c) ==
    /\ request[c].op = "list"
    /\ Fetched(c)
    /\ Answer(c, [Code("200") EXCEPT !.listed = fetched[c] \ Malformed,
                                     !.found = RequestedFound(c)])

-----------------------------------------------------------------------------
(* GET .../audio/{index} and DELETE: one message, named by its key.        *)

\* Deleting is refused to the guest before the key is looked at.
GuestMayNotDelete(c) ==
    /\ pc[c] = "authenticated"
    /\ request[c].op = "delete" /\ request[c].guest
    /\ Answer(c, Code("403"))

Permitted(c) ==
    \/ request[c].op = "audio"
    \/ request[c].op = "delete" /\ ~request[c].guest

\* MailReference.from_key raises.
InvalidKey(c) ==
    /\ pc[c] = "authenticated" /\ Permitted(c)
    /\ Wanted(c) = NoReference
    /\ Answer(c, Code("404"))

StartFetchMessage(c) ==
    /\ Permitted(c) /\ Wanted(c) # NoReference
    /\ Step(c, "authenticated", "fetching")
    /\ refs' = [refs EXCEPT ![c] = {Wanted(c)}]
    /\ todo' = [todo EXCEPT ![c] = <<GuidOf[Wanted(c)]>>]
    /\ UNCHANGED <<mailVars, historyVars, fetched, request, answer, sent>>

NotFound(c) ==
    /\ request[c].op # "list"
    /\ Fetched(c) /\ fetched[c] = {}
    /\ Answer(c, Code("404"))

\* The whole part, the bytes of the range, or 416.
AudioAnswer(range, length) ==
    LET bounds == ParseRange(range, length)
    IN  IF range.form = "none"
        THEN [Code("200") EXCEPT !.bytes = 0 .. length - 1]
        ELSE IF bounds = Unsatisfiable THEN Code("416")
        ELSE [Code("206") EXCEPT !.bytes = bounds[1] .. bounds[2]]

\* extract_audio parses the message outside of any try: it may raise.
MessageAudio(c) ==
    /\ request[c].op = "audio"
    /\ Fetched(c) /\ fetched[c] # {}
    /\ \/ /\ Wanted(c) \in Malformed /\ request[c].index >= 0
          /\ Answer(c, Code("500"))
       \/ /\ ~HasPart(Wanted(c), request[c].index)
          /\ Answer(c, Code("404"))
       \/ /\ HasPart(Wanted(c), request[c].index)
          /\ Answer(c, AudioAnswer(request[c].range,
                                   PartLength(Wanted(c), request[c].index)))

\* Fault: the message is not expunged, only looked up.
SendNothing(c) ==
    /\ request[c].op = "delete"
    /\ Fetched(c) /\ fetched[c] # {}
    /\ pc' = [pc EXCEPT ![c] = "expunging"]
    /\ UNCHANGED <<mailVars, historyVars, localVars, request, answer, sent>>

\* The second call of delete_message, for a message that was just there.
SendExpunge(c) ==
    /\ request[c].op = "delete"
    /\ Fetched(c) /\ fetched[c] # {}
    /\ pc' = [pc EXCEPT ![c] = "expunging"]
    /\ sent' = sent \cup {c}
    /\ UNCHANGED <<mailVars, historyVars, localVars, request, answer>>

\* Dovecot gets to it, whether or not the backend still waits.
DovecotExpunges(c) ==
    /\ c \in sent
    /\ sent' = sent \ {c}
    /\ Becomes(box \ {Wanted(c)})
    /\ UNCHANGED <<arrived, localVars, pc, request, answer>>

Deleted(c) ==
    /\ pc[c] = "expunging" /\ c \notin sent
    /\ Answer(c, Code("204"))

\* A doveadm call fails: no answer in time, an error, or nonsense, of which
\* some raises what no handler expects (TypeError, UnicodeDecodeError): 500.
MailboxError(c) ==
    /\ \/ pc[c] = "authenticated" /\ request[c].op = "list"
       \/ pc[c] = "fetching" /\ todo[c] # <<>>
       \/ pc[c] = "expunging"
    /\ \E code \in Service!Failures : Answer(c, Code(code))

-----------------------------------------------------------------------------
Handler(c) ==
    \/ Unauthenticated(c) \/ MailboxError(c)
    \/ LatestReferences(c) \/ Fetch(c) \/ ListMessages(c)
    \/ GuestMayNotDelete(c) \/ InvalidKey(c) \/ StartFetchMessage(c)
    \/ NotFound(c) \/ MessageAudio(c)
    \/ SendExpunge(c) \/ Deleted(c)

Next ==
    \/ \E m \in References : Arrive(m) \/ Vanish(m)
    \/ \E c \in Calls : \E r \in Requests[c] : Begin(c, r)
    \/ \E c \in Calls : Handler(c) \/ DovecotExpunges(c)

Spec == Init /\ [][Next]_vars

-----------------------------------------------------------------------------
TypeOK ==
    /\ box \subseteq arrived /\ arrived \subseteq References
    /\ pc \in [Calls -> {"new", "authenticated", "fetching", "expunging", "done"}]
    /\ \A c \in Calls :
         /\ request[c] \in Requests[c] \cup {Service!NoRequest}
         /\ answer[c].code \in {"none", "200", "204", "206", "401", "403",
                               "404", "416", "500", "503"}
         /\ refs[c] \cup fetched[c] \subseteq References
         /\ always[c] \subseteq ever[c] /\ ever[c] \subseteq arrived
         /\ todo[c] \in Seq({GuidOf[m] : m \in References} \cup {InboxGuid})
    /\ sent \subseteq Calls

(***************************************************************************)
(* Every list, every part of a recording and every deletion is one that    *)
(* MailService allows, although no handler sees the mailbox at one moment. *)
(***************************************************************************)
ImplementsMailService == Service!Spec

(***************************************************************************)
(* Deletions that overlap, with one another and with other clients, are    *)
(* each answered truthfully: after a 204 the message is gone for good.     *)
(***************************************************************************)
DeletedStaysDeleted ==
    \A c \in Calls : answer[c].code = "204" => Wanted(c) \in arrived \ box
=============================================================================
