--------------------------- MODULE MailboxProofs ---------------------------
(***************************************************************************)
(* Mailbox implements MailService, for any mailbox, any limit, any number  *)
(* of requests and any failures of Dovecot.                                *)
(*                                                                         *)
(* The promise of a request speaks of the messages it could have seen      *)
(* (`ever') and could not have missed (`always').  What a handler has read *)
(* in earlier calls is kept true by weakening: whatever mailbox it saw     *)
(* lies between the two, and goes on doing so as `always' shrinks and      *)
(* `ever' grows.  A deletion adds that a message that has gone never comes *)
(* back, because its uid is not used again.                                *)
(***************************************************************************)
EXTENDS Mailbox, FiniteSetTheorems, TLAPS

RangeHeaders == [form : {"none", "other", "from-to", "from", "suffix"},
                 first : Nat, last : Int]

(***************************************************************************)
(* audio.py:117: parse_audio_byte_range refuses a single range exactly     *)
(* when it selects no byte, and otherwise returns the first and the last   *)
(* of the selected bytes, for any length and any numbers.                  *)
(***************************************************************************)
THEOREM RangeSelectsBytes ==
    ASSUME NEW range \in RangeHeaders, range.form \in Service!SingleRange,
           NEW total \in Nat
    PROVE  LET bounds == ParseRange(range, total)
           IN  \/ bounds = Unsatisfiable /\ Service!Selected(range, total) = {}
               \/ /\ bounds # Unsatisfiable
                  /\ bounds[1] .. bounds[2] = Service!Selected(range, total)
                  /\ Service!Selected(range, total) # {}
<1> DEFINE bounds == ParseRange(range, total)
           selected == Service!Selected(range, total)
           first == range.first
           last == range.last
<1> SUFFICES \/ bounds = Unsatisfiable /\ selected = {}
             \/ /\ bounds # Unsatisfiable
                /\ bounds[1] .. bounds[2] = selected
                /\ selected # {}
  OBVIOUS
<1>0. first \in Nat /\ last \in Int
  BY DEF RangeHeaders
<1>a. ASSUME NEW a \in Int, NEW b \in Int, bounds = <<a, b>>,
             a .. b = selected, selected # {}
      PROVE  bounds # Unsatisfiable /\ bounds[1] .. bounds[2] = selected
  <2> HIDE DEF bounds, selected
  <2>1. Len(<<a, b>>) = 2 /\ Len(Unsatisfiable) = 0
    BY DEF Unsatisfiable
  <2> QED BY <1>a, <2>1
<1>1. CASE range.form = "from-to"
  <2>1. selected = {i \in 0 .. total - 1 : first <= i /\ i <= last}
    BY <1>1 DEF Service!Selected
  <2>2. bounds = IF total < 1 \/ first >= total \/ last < first
                 THEN Unsatisfiable ELSE <<first, Smaller(last, total - 1)>>
    BY <1>1 DEF ParseRange
  <2> HIDE DEF bounds, selected
  <2>3. CASE total < 1 \/ first >= total \/ last < first
    BY <1>0, <2>1, <2>2, <2>3
  <2>4. CASE ~(total < 1 \/ first >= total \/ last < first)
    <3>1. /\ first \in {i \in 0 .. total - 1 : first <= i /\ i <= last}
          /\ Smaller(last, total - 1) \in Int
          /\ {i \in 0 .. total - 1 : first <= i /\ i <= last}
                 = first .. Smaller(last, total - 1)
      BY <1>0, <2>4 DEF Smaller
    <3> QED BY <1>0, <1>a, <2>1, <2>2, <2>4, <3>1
  <2> QED BY <2>3, <2>4
<1>2. CASE range.form = "from"
  <2>1. selected = {i \in 0 .. total - 1 : first <= i}
    BY <1>2 DEF Service!Selected
  <2>2. bounds = IF total < 1 \/ first >= total \/ total - 1 < first
                 THEN Unsatisfiable ELSE <<first, Smaller(total - 1, total - 1)>>
    BY <1>2 DEF ParseRange
  <2> HIDE DEF bounds, selected
  <2>3. CASE first >= total
    BY <1>0, <2>1, <2>2, <2>3
  <2>4. CASE first < total
    <3>1. /\ first \in {i \in 0 .. total - 1 : first <= i}
          /\ Smaller(total - 1, total - 1) \in Int
          /\ {i \in 0 .. total - 1 : first <= i}
                 = first .. Smaller(total - 1, total - 1)
      BY <1>0, <2>4 DEF Smaller
    <3> QED BY <1>0, <1>a, <2>1, <2>2, <2>4, <3>1
  <2> QED BY <1>0, <2>3, <2>4
<1>3. CASE range.form = "suffix"
  <2>1. selected = {i \in 0 .. total - 1 : total - last <= i}
    BY <1>3 DEF Service!Selected
  <2>2. bounds = IF total < 1 \/ last < 1
                 THEN Unsatisfiable ELSE <<Larger(total - last, 0), total - 1>>
    BY <1>3 DEF ParseRange
  <2> HIDE DEF bounds, selected
  <2>3. CASE total < 1 \/ last < 1
    BY <1>0, <2>1, <2>2, <2>3
  <2>4. CASE ~(total < 1 \/ last < 1)
    <3>1. /\ total - 1 \in {i \in 0 .. total - 1 : total - last <= i}
          /\ Larger(total - last, 0) \in Int
          /\ {i \in 0 .. total - 1 : total - last <= i}
                 = Larger(total - last, 0) .. total - 1
      BY <1>0, <2>4 DEF Larger
    <3> QED BY <1>0, <1>a, <2>1, <2>2, <2>4, <3>1
  <2> QED BY <2>3, <2>4
<1> QED BY <1>1, <1>2, <1>3 DEF Service!SingleRange

-----------------------------------------------------------------------------
Places == {"new", "authenticated", "fetching", "expunging", "done"}
RequestRecords ==
    [op : {"none", "list", "audio", "delete"},
     wanted : References \cup {NoReference}, include : BOOLEAN,
     guest : BOOLEAN, index : Int, range : RangeHeaders]
AnswerRecords ==
    [code : {"none", "200", "204", "206", "401", "403", "404", "416", "500", "503"},
     listed : SUBSET References, found : {"none", "yes", "no"}, bytes : SUBSET Int]
GuidSet == {GuidOf[m] : m \in References} \cup {InboxGuid}

Types ==
    /\ box \subseteq arrived /\ arrived \subseteq References
    /\ pc \in [Calls -> Places]
    /\ request \in [Calls -> RequestRecords]
    /\ answer \in [Calls -> AnswerRecords]
    /\ refs \in [Calls -> SUBSET References]
    /\ fetched \in [Calls -> SUBSET References]
    /\ todo \in [Calls -> Seq(GuidSet)]
    /\ ever \in [Calls -> SUBSET References]
    /\ always \in [Calls -> SUBSET References]
    /\ sent \subseteq Calls

\* A request that is being answered; what it could and must have seen.
Asked(c) ==
    Open(c) => /\ request[c] \in Requests[c]
               /\ always[c] \subseteq box /\ box \subseteq ever[c]
               /\ ever[c] \subseteq arrived

\* The INBOX that latest_references saw lies between always and ever.
Between(c, seen) ==
    /\ always[c] \cap Inbox \subseteq seen
    /\ seen \subseteq ever[c] \cap Inbox

Listing(c) ==
    pc[c] = "fetching" /\ request[c].op = "list" =>
        \E seen \in SUBSET Inbox :
            Between(c, seen) /\ refs[c] = Newest(seen) \cup Requested(c)

Naming(c) ==
    /\ pc[c] = "fetching" /\ request[c].op # "list" =>
           Permitted(c) /\ Wanted(c) \in References /\ refs[c] = {Wanted(c)}
    /\ pc[c] = "expunging" =>
           /\ request[c].op = "delete" /\ ~request[c].guest
           /\ Wanted(c) \in ever[c] \cap arrived
           /\ c \in sent \/ Wanted(c) \notin box

\* What was there all the time is fetched, or still to be fetched.
Fetching(c) ==
    pc[c] \in {"authenticated", "fetching"} =>
        /\ fetched[c] \subseteq ever[c] /\ fetched[c] \subseteq refs[c]
        /\ \A m \in refs[c] \cap always[c] :
             m \in fetched[c] \/ \E i \in 1 .. Len(todo[c]) : todo[c][i] = GuidOf[m]

\* Nothing but a deletion that is waited for or was given up is in Dovecot.
Expunging(c) ==
    c \in sent => /\ request[c].op = "delete" /\ ~request[c].guest
                  /\ Wanted(c) \in arrived
                  /\ pc[c] = "expunging" \/ answer[c].code \in Service!Failures

Answered(c) ==
    /\ pc[c] = "done" \/ answer[c] = NoAnswer
    /\ pc[c] \in {"new", "authenticated", "done"} => refs[c] = {} /\ fetched[c] = {}
    /\ answer[c].code = "204" => Wanted(c) \in arrived \ box

CallInv(c) ==
    /\ Asked(c) /\ Listing(c) /\ Naming(c) /\ Fetching(c)
    /\ Expunging(c) /\ Answered(c)

MailboxInv == Types /\ \A c \in Calls : CallInv(c)

\* The types of the constants, as the proofs use them.
LEMMA Constants ==
    /\ \A c \in Calls : Requests[c] \subseteq RequestRecords
    /\ Service!NoRequest \in RequestRecords
    /\ NoAnswer \in AnswerRecords
    /\ \A k \in {"401", "403", "404", "416", "500", "503", "204"} :
         Code(k) \in AnswerRecords /\ Code(k).code = k
    /\ Inbox \subseteq References
    /\ \A m \in References : GuidOf[m] \in GuidSet
<1>1. \A c \in Calls : Requests[c] \subseteq RequestRecords
  <2> SUFFICES ASSUME NEW c \in Calls, NEW r \in Requests[c]
               PROVE  r \in RequestRecords
    OBVIOUS
  <2>1. r \in [op : {"list", "audio", "delete"},
               wanted : References \cup {NoReference}, include : BOOLEAN,
               guest : BOOLEAN, index : Int, range : RangeHeaders]
    BY RequestsTyped DEF RangeHeaders
  <2> QED BY <2>1 DEF RequestRecords
<1>2. Service!NoRequest \in RequestRecords
  BY DEF Service!NoRequest, Service!NoRange, RequestRecords, RangeHeaders
<1>3. NoAnswer \in AnswerRecords
  BY DEF NoAnswer, Service!NoAnswer, AnswerRecords
<1>4. \A k \in {"401", "403", "404", "416", "500", "503", "204"} :
         Code(k) \in AnswerRecords /\ Code(k).code = k
  BY DEF Code, Service!Code, Service!NoAnswer, AnswerRecords
<1>5. Inbox \subseteq References /\ \A m \in References : GuidOf[m] \in GuidSet
  BY MessagesTyped DEF GuidSet
<1> QED BY <1>1, <1>2, <1>3, <1>4, <1>5

\* A call that is not touched, while the mailbox stays as it is.
LEMMA QuietCall ==
    ASSUME MailboxInv, NEW d \in Calls, UNCHANGED mailVars,
           pc'[d] = pc[d], request'[d] = request[d], answer'[d] = answer[d],
           refs'[d] = refs[d], todo'[d] = todo[d], fetched'[d] = fetched[d],
           ever'[d] = ever[d], always'[d] = always[d],
           d \in sent' <=> d \in sent
    PROVE  CallInv(d)'
<1>0. CallInv(d)
  BY DEF MailboxInv
<1>1. Asked(d)' /\ Naming(d)' /\ Fetching(d)' /\ Expunging(d)' /\ Answered(d)'
  BY <1>0 DEF CallInv, Asked, Naming, Fetching, Expunging, Answered, Open,
     Wanted, Permitted, mailVars
<1>2. Listing(d)'
  BY <1>0 DEF CallInv, Listing, Between, Requested, Wanted
<1> QED BY <1>1, <1>2 DEF CallInv

\* Every call, while the mailbox changes: `always' shrinks, `ever' grows.
LEMMA MailChanges ==
    ASSUME MailboxInv, NEW new \in SUBSET References, Becomes(new),
           UNCHANGED <<localVars, pc, request, answer>>,
           new \subseteq arrived', arrived \subseteq arrived',
           new \cap arrived \subseteq box,
           NEW d \in Calls,
           d \in sent' => d \in sent,
           d \in sent /\ d \notin sent' => Wanted(d) \notin new
    PROVE  CallInv(d)'
<1>0. CallInv(d)
  BY DEF MailboxInv
<1>1. /\ pc' = pc /\ request' = request /\ answer' = answer
      /\ refs' = refs /\ todo' = todo /\ fetched' = fetched /\ box' = new
      /\ ever'[d] = IF Open(d) THEN ever[d] \cup new ELSE ever[d]
      /\ always'[d] = always[d] \cap new
  BY DEF Becomes, localVars
<1>2. Asked(d)'
  BY <1>0, <1>1 DEF CallInv, Asked, Open
<1>3. Naming(d)'
  BY <1>0, <1>1 DEF CallInv, Naming, Open, Permitted, Wanted
<1>4. Fetching(d)'
  BY <1>0, <1>1 DEF CallInv, Fetching, Open
<1>5. Expunging(d)' /\ Answered(d)'
  BY <1>0, <1>1 DEF CallInv, Expunging, Answered, Wanted
<1>6. Listing(d)'
  <2> SUFFICES ASSUME pc[d] = "fetching", request[d].op = "list"
               PROVE  \E seen \in SUBSET Inbox :
                        /\ Between(d, seen)'
                        /\ refs[d] = Newest(seen) \cup Requested(d)
    BY <1>1 DEF Listing, Requested, Wanted
  <2>1. PICK seen \in SUBSET Inbox :
          Between(d, seen) /\ refs[d] = Newest(seen) \cup Requested(d)
    BY <1>0 DEF CallInv, Listing
  <2>2. Between(d, seen)'
    BY <1>1, <2>1 DEF Between, Open
  <2> QED BY <2>1, <2>2
<1> QED BY <1>2, <1>3, <1>4, <1>5, <1>6 DEF CallInv

\* A call that is answered, with anything that is not a 204.
LEMMA AnsweredCall ==
    ASSUME MailboxInv, NEW c \in Calls, NEW a \in AnswerRecords, Answer(c, a),
           Open(c),
           a.code = "204" => Wanted(c) \in arrived \ box,
           c \in sent => a.code \in Service!Failures
    PROVE  MailboxInv'
<1> USE DEF MailboxInv
<1>1. Types'
  BY DEF Types, Answer, Places, mailVars
<1>2. ASSUME NEW d \in Calls, d # c PROVE CallInv(d)'
  BY <1>2, QuietCall DEF Types, Answer, mailVars
<1>3. CallInv(c)'
  <2>1. /\ pc'[c] = "done" /\ answer'[c] = a /\ refs'[c] = {} /\ fetched'[c] = {}
        /\ box' = box /\ arrived' = arrived /\ sent' = sent /\ request' = request
    BY DEF Types, Answer, mailVars
  <2>2. Asked(c)' /\ Listing(c)' /\ Naming(c)' /\ Fetching(c)'
    BY <2>1 DEF Asked, Listing, Naming, Fetching, Open
  <2>3. Expunging(c)' /\ Answered(c)'
    BY <2>1 DEF CallInv, Expunging, Answered, Wanted
  <2> QED BY <2>2, <2>3 DEF CallInv
<1> QED BY <1>1, <1>2, <1>3

-----------------------------------------------------------------------------
\* The answers that carry data are records of the same kind.
LEMMA AnswersTyped ==
    ASSUME Types, NEW c \in Calls
    PROVE  /\ [Code("200") EXCEPT !.listed = fetched[c] \ Malformed,
                                  !.found = RequestedFound(c)] \in AnswerRecords
           /\ \A range \in RangeHeaders, n \in Nat :
                  /\ AudioAnswer(range, n) \in AnswerRecords
                  /\ AudioAnswer(range, n).code \in {"200", "206", "416"}
<1>1. [Code("200") EXCEPT !.listed = fetched[c] \ Malformed,
                          !.found = RequestedFound(c)] \in AnswerRecords
  BY DEF Code, Service!Code, Service!NoAnswer, AnswerRecords, RequestedFound, Types
<1>2. ASSUME NEW range \in RangeHeaders, NEW n \in Nat
      PROVE  /\ AudioAnswer(range, n) \in AnswerRecords
             /\ AudioAnswer(range, n).code \in {"200", "206", "416"}
  <2>1. CASE range.form = "none"
    <3>1. AudioAnswer(range, n) = [Code("200") EXCEPT !.bytes = 0 .. n - 1]
      BY <2>1 DEF AudioAnswer
    <3>2. 0 .. n - 1 \subseteq Int
      OBVIOUS
    <3> QED
      BY <3>1, <3>2 DEF Code, Service!Code, Service!NoAnswer, AnswerRecords
  <2>2. CASE range.form # "none" /\ ParseRange(range, n) = Unsatisfiable
    BY <2>2 DEF AudioAnswer, Code, Service!Code, Service!NoAnswer, AnswerRecords
  <2>3. CASE range.form # "none" /\ ParseRange(range, n) # Unsatisfiable
    <3>0. range.form \in Service!SingleRange
      BY <2>3 DEF ParseRange, RangeHeaders, Service!SingleRange
    <3>1. /\ ParseRange(range, n)[1] .. ParseRange(range, n)[2]
                 = Service!Selected(range, n)
          /\ Service!Selected(range, n) \subseteq Int
      BY <2>3, <3>0, RangeSelectsBytes DEF Service!Selected
    <3>2. AudioAnswer(range, n)
              = [Code("206") EXCEPT !.bytes = Service!Selected(range, n)]
      BY <2>3, <3>1 DEF AudioAnswer
    <3> QED
      BY <3>1, <3>2 DEF Code, Service!Code, Service!NoAnswer, AnswerRecords
  <2> QED BY <2>1, <2>2, <2>3
<1> QED BY <1>1, <1>2

LEMMA InvInit == Init => MailboxInv
<1> SUFFICES ASSUME Init PROVE MailboxInv
  OBVIOUS
<1>1. Types
  BY Constants DEF Init, Types, Places
<1>2. ASSUME NEW c \in Calls PROVE CallInv(c)
  BY DEF Init, CallInv, Asked, Listing, Naming, Fetching, Expunging, Answered,
     Open, NoAnswer, Service!NoAnswer
<1> QED BY <1>1, <1>2 DEF MailboxInv

LEMMA InvMail ==
    ASSUME MailboxInv,
           \/ \E m \in References : Arrive(m) \/ Vanish(m)
           \/ \E c \in Calls : DovecotExpunges(c)
    PROVE  MailboxInv'
<1> USE DEF MailboxInv
<1>1. ASSUME NEW new \in SUBSET References, Becomes(new),
             UNCHANGED <<localVars, pc, request, answer>>,
             new \subseteq arrived', arrived' \subseteq References, sent' \subseteq sent
      PROVE  Types'
  BY <1>1 DEF Types, Becomes, localVars
<1>2. ASSUME NEW m \in References, Arrive(m) PROVE MailboxInv'
  <2>1. /\ box \cup {m} \in SUBSET References /\ Becomes(box \cup {m})
        /\ UNCHANGED <<localVars, pc, request, answer>> /\ sent' = sent
        /\ arrived' = arrived \cup {m} /\ m \notin arrived
        /\ box \cup {m} \subseteq arrived' /\ arrived' \subseteq References
        /\ (box \cup {m}) \cap arrived \subseteq box
    BY <1>2 DEF Arrive, Types
  <2> QED BY <1>1, <2>1, MailChanges
<1>3. ASSUME NEW m \in References, Vanish(m) PROVE MailboxInv'
  <2>1. /\ box \ {m} \in SUBSET References /\ Becomes(box \ {m})
        /\ UNCHANGED <<localVars, pc, request, answer>> /\ sent' = sent
        /\ arrived' = arrived /\ box \ {m} \subseteq arrived
        /\ arrived \subseteq References
    BY <1>3 DEF Vanish, Types
  <2> QED BY <1>1, <2>1, MailChanges
<1>4. ASSUME NEW c \in Calls, DovecotExpunges(c) PROVE MailboxInv'
  <2> DEFINE new == box \ {Wanted(c)}
  <2>1. /\ new \in SUBSET References /\ Becomes(new)
        /\ UNCHANGED <<localVars, pc, request, answer>>
        /\ sent' = sent \ {c} /\ sent' \subseteq sent
        /\ arrived' = arrived /\ new \subseteq arrived /\ new \subseteq box
        /\ arrived \subseteq References
    BY <1>4 DEF DovecotExpunges, Types
  <2>2. ASSUME NEW d \in Calls PROVE CallInv(d)'
    <3>1. d \in sent /\ d \notin sent' => Wanted(d) \notin new
      BY <2>1
    <3> QED BY <2>1, <3>1, MailChanges
  <2> QED BY <1>1, <2>1, <2>2
<1> QED BY <1>2, <1>3, <1>4

LEMMA InvBegin ==
    ASSUME MailboxInv, NEW c \in Calls, NEW r \in Requests[c], Begin(c, r)
    PROVE  MailboxInv'
<1> USE DEF MailboxInv
<1>0. r \in RequestRecords
  BY Constants
<1>1. Types'
  BY <1>0 DEF Types, Begin, Step, Places, mailVars, localVars
<1>2. ASSUME NEW d \in Calls, d # c PROVE CallInv(d)'
  BY <1>2, QuietCall DEF Types, Begin, Step, mailVars, localVars
<1>3. CallInv(c)'
  <2>1. /\ pc[c] = "new" /\ pc'[c] = "authenticated" /\ request'[c] = r
        /\ ever'[c] = box /\ always'[c] = box /\ box' = box /\ arrived' = arrived
        /\ refs' = refs /\ fetched' = fetched /\ answer' = answer /\ sent' = sent
    BY DEF Types, Begin, Step, mailVars, localVars
  <2>2. c \notin sent /\ answer[c] = NoAnswer /\ refs[c] = {} /\ fetched[c] = {}
    BY <2>1 DEF Service!Failures, CallInv, Expunging, Answered, NoAnswer, Service!NoAnswer
  <2>3. Asked(c)' /\ Listing(c)' /\ Naming(c)' /\ Fetching(c)'
    BY <2>1, <2>2 DEF Types, Asked, Listing, Naming, Fetching
  <2>4. Expunging(c)' /\ Answered(c)'
    BY <2>1, <2>2 DEF Expunging, Answered, NoAnswer, Service!NoAnswer
  <2> QED BY <2>3, <2>4 DEF CallInv
<1> QED BY <1>1, <1>2, <1>3

\* The steps of a handler between its authentication and its answer.
Working(c) ==
    \/ LatestReferences(c) \/ StartFetchMessage(c) \/ Fetch(c) \/ SendExpunge(c)

LEMMA InvWorking ==
    ASSUME MailboxInv, NEW c \in Calls, Working(c)
    PROVE  MailboxInv'
<1> USE DEF MailboxInv
<1>0. CallInv(c)
  OBVIOUS
<1>m. UNCHANGED <<mailVars, historyVars, request, answer>>
  BY DEF Working, LatestReferences, StartFetchMessage, Fetch, SendExpunge
<1>1. CASE LatestReferences(c)
  <2> DEFINE seen == box \cap Inbox
             latest == Newest(seen)
  <2>1. /\ pc' = [pc EXCEPT ![c] = "fetching"] /\ pc[c] = "authenticated"
        /\ request[c].op = "list" /\ sent' = sent /\ fetched' = fetched
        /\ refs' = [refs EXCEPT ![c] = latest \cup Requested(c)]
        /\ todo' = [todo EXCEPT ![c] = Mailboxes(c, latest)]
    BY <1>1 DEF LatestReferences, Step
  <2>2. /\ latest \subseteq seen /\ latest \cup Requested(c) \subseteq References
        /\ \A m \in latest : GuidOf[m] = InboxGuid
        /\ Requested(c) \subseteq {Wanted(c)}
    BY MessagesTyped DEF Newest, Requested
  <2>3. /\ Mailboxes(c, latest) \in Seq(GuidSet)
        /\ \A m \in latest \cup Requested(c) :
             \E i \in 1 .. Len(Mailboxes(c, latest)) :
                 Mailboxes(c, latest)[i] = GuidOf[m]
    <3> DEFINE boxes == Mailboxes(c, latest)
    <3> SUFFICES /\ boxes \in Seq(GuidSet)
                 /\ \A m \in latest \cup Requested(c) :
                      \E i \in 1 .. Len(boxes) : boxes[i] = GuidOf[m]
      OBVIOUS
    <3>1. CASE Requested(c) \subseteq latest
      <4>1. CASE latest = {}
        BY <3>1, <4>1 DEF Mailboxes
      <4>2. CASE latest # {}
        <5>1. boxes = <<InboxGuid>>
          BY <3>1, <4>2 DEF Mailboxes
        <5>2. InboxGuid \in GuidSet
          BY DEF GuidSet
        <5> HIDE DEF boxes, latest
        <5>3. Len(boxes) = 1 /\ boxes[1] = InboxGuid /\ boxes \in Seq(GuidSet)
          BY <5>1, <5>2
        <5> QED BY <2>2, <3>1, <5>3
      <4> QED BY <4>1, <4>2
    <3>2. CASE ~(Requested(c) \subseteq latest)
      <4>1. Wanted(c) \in References /\ GuidOf[Wanted(c)] \in GuidSet
        BY <3>2, Constants DEF Requested
      <4>2. CASE latest = {} \/ GuidOf[Wanted(c)] = InboxGuid
        <5>1. boxes = <<GuidOf[Wanted(c)]>>
          BY <3>2, <4>2 DEF Mailboxes
        <5> HIDE DEF boxes, latest
        <5>2. /\ Len(boxes) = 1 /\ boxes[1] = GuidOf[Wanted(c)]
              /\ boxes \in Seq(GuidSet)
          BY <4>1, <5>1
        <5> QED BY <2>2, <4>2, <5>2
      <4>3. CASE ~(latest = {} \/ GuidOf[Wanted(c)] = InboxGuid)
        <5>1. boxes = <<GuidOf[Wanted(c)], InboxGuid>>
          BY <3>2, <4>3 DEF Mailboxes
        <5>2. InboxGuid \in GuidSet
          BY DEF GuidSet
        <5> HIDE DEF boxes, latest
        <5>3. /\ Len(boxes) = 2 /\ boxes[1] = GuidOf[Wanted(c)]
              /\ boxes[2] = InboxGuid /\ boxes \in Seq(GuidSet)
          BY <4>1, <5>1, <5>2
        <5> QED BY <2>2, <5>3
      <4> QED BY <4>2, <4>3
    <3> QED BY <3>1, <3>2
  <2> HIDE DEF latest
  <2>4. Types'
    BY <1>m, <2>1, <2>2, <2>3 DEF Types, Places, mailVars, historyVars
  <2>5. /\ pc'[c] = "fetching" /\ refs'[c] = latest \cup Requested(c)
        /\ todo'[c] = Mailboxes(c, latest)
    BY <2>1 DEF Types
  <2>6. Asked(c)' /\ Naming(c)' /\ Expunging(c)' /\ Answered(c)'
    BY <1>0, <1>m, <2>1, <2>5
    DEF CallInv, Asked, Naming, Expunging, Answered, Open, Wanted, Permitted,
        mailVars, historyVars
  <2>7. Fetching(c)'
    BY <1>0, <1>m, <2>1, <2>3, <2>5
    DEF CallInv, Fetching, Answered, mailVars, historyVars
  <2>8. Listing(c)'
    <3>1. /\ seen \in SUBSET Inbox
          /\ always'[c] \cap Inbox \subseteq seen
          /\ seen \subseteq ever'[c] \cap Inbox
      BY <1>0, <1>m, <2>1 DEF CallInv, Asked, Open, historyVars
    <3>2. Requested(c)' = Requested(c)
      BY <1>m DEF Requested, Wanted
    <3>3. refs'[c] = Newest(seen) \cup Requested(c)'
      BY <2>5, <3>2 DEF latest
    <3> HIDE DEF seen
    <3> QED BY <3>1, <3>3 DEF Listing, Between
  <2>9. ASSUME NEW d \in Calls, d # c PROVE CallInv(d)'
    BY <1>m, <2>1, <2>9, QuietCall DEF Types, mailVars, historyVars
  <2> QED BY <2>4, <2>6, <2>7, <2>8, <2>9 DEF CallInv
<1>2. CASE StartFetchMessage(c)
  <2>1. /\ pc' = [pc EXCEPT ![c] = "fetching"] /\ pc[c] = "authenticated"
        /\ Permitted(c) /\ sent' = sent /\ fetched' = fetched
        /\ refs' = [refs EXCEPT ![c] = {Wanted(c)}]
        /\ todo' = [todo EXCEPT ![c] = <<GuidOf[Wanted(c)]>>]
        /\ Wanted(c) # NoReference
    BY <1>2 DEF StartFetchMessage, Step
  <2>2. Wanted(c) \in References /\ GuidOf[Wanted(c)] \in GuidSet
    BY <2>1, Constants DEF Types, RequestRecords, Wanted
  <2>3. Types'
    BY <1>m, <2>1, <2>2 DEF Types, Places, mailVars, historyVars
  <2>4. /\ pc'[c] = "fetching" /\ refs'[c] = {Wanted(c)}
        /\ todo'[c] = <<GuidOf[Wanted(c)]>> /\ fetched'[c] = {}
    BY <1>0, <2>1 DEF Types, CallInv, Answered
  <2>5. Asked(c)' /\ Naming(c)' /\ Expunging(c)' /\ Answered(c)' /\ Listing(c)'
    BY <1>0, <1>m, <2>1, <2>2, <2>4
    DEF CallInv, Asked, Naming, Expunging, Answered, Listing, Open, Wanted,
        Permitted, mailVars, historyVars
  <2>6. Fetching(c)'
    <3>1. Len(todo'[c]) = 1 /\ todo'[c][1] = GuidOf[Wanted(c)]
      BY <2>4
    <3> QED BY <2>4, <3>1 DEF Fetching
  <2>7. ASSUME NEW d \in Calls, d # c PROVE CallInv(d)'
    BY <1>m, <2>1, <2>7, QuietCall DEF Types, mailVars, historyVars
  <2> QED BY <2>3, <2>5, <2>6, <2>7 DEF CallInv
<1>3. CASE Fetch(c)
  <2> DEFINE got == {m \in refs[c] \cap box : GuidOf[m] = Head(todo[c])}
  <2>1. /\ pc[c] = "fetching" /\ todo[c] # <<>> /\ pc' = pc /\ refs' = refs
        /\ sent' = sent /\ todo[c] \in Seq(GuidSet)
        /\ fetched' = [fetched EXCEPT ![c] = @ \cup got]
        /\ todo' = [todo EXCEPT ![c] = Tail(@)]
    BY <1>3 DEF Fetch, Types
  <2>2. Types'
    BY <1>m, <2>1 DEF Types, mailVars, historyVars
  <2>3. /\ fetched'[c] = fetched[c] \cup got /\ todo'[c] = Tail(todo[c])
        /\ Len(Tail(todo[c])) = Len(todo[c]) - 1 /\ Len(todo[c]) \in Nat \ {0}
        /\ \A i \in 1 .. Len(todo[c]) - 1 : Tail(todo[c])[i] = todo[c][i + 1]
        /\ Head(todo[c]) = todo[c][1]
    BY <2>1 DEF Types
  <2>4. Asked(c)' /\ Naming(c)' /\ Expunging(c)' /\ Answered(c)' /\ Listing(c)'
    <3>1. Asked(c)' /\ Naming(c)' /\ Expunging(c)' /\ Answered(c)'
      BY <1>0, <1>m, <2>1, <2>3
      DEF CallInv, Asked, Naming, Expunging, Answered, Open, Wanted,
          Permitted, mailVars, historyVars
    <3>2. Listing(c)'
      BY <1>0, <1>m, <2>1
      DEF CallInv, Listing, Between, Requested, Wanted, historyVars
    <3> QED BY <3>1, <3>2
  <2>5. Fetching(c)'
    <3>1. fetched'[c] \subseteq ever'[c] /\ fetched'[c] \subseteq refs'[c]
      BY <1>0, <1>m, <2>1, <2>3 DEF CallInv, Fetching, Asked, Open, historyVars
    <3>2. ASSUME NEW m \in refs'[c] \cap always'[c], m \notin fetched'[c]
          PROVE  \E i \in 1 .. Len(todo'[c]) : todo'[c][i] = GuidOf[m]
      <4>1. m \in refs[c] \cap always[c] /\ m \notin fetched[c] /\ m \notin got
        BY <1>m, <2>1, <2>3, <3>2 DEF historyVars
      <4>2. PICK i \in 1 .. Len(todo[c]) : todo[c][i] = GuidOf[m]
        BY <1>0, <2>1, <4>1 DEF CallInv, Fetching
      <4>3. m \in box
        BY <1>0, <2>1, <4>1 DEF CallInv, Asked, Open
      <4>4. i # 1
        BY <2>3, <4>1, <4>2, <4>3
      <4>5. i - 1 \in 1 .. Len(todo[c]) - 1 /\ Tail(todo[c])[i - 1] = todo[c][i]
        BY <2>3, <4>2, <4>4
      <4> QED BY <2>3, <4>2, <4>5
    <3> QED BY <3>1, <3>2 DEF Fetching
  <2>6. ASSUME NEW d \in Calls, d # c PROVE CallInv(d)'
    BY <1>m, <2>1, <2>6, QuietCall DEF Types, mailVars, historyVars
  <2> QED BY <2>2, <2>4, <2>5, <2>6 DEF CallInv
<1>4. CASE SendExpunge(c)
  <2>1. /\ request[c].op = "delete" /\ pc[c] = "fetching" /\ fetched[c] # {}
        /\ pc' = [pc EXCEPT ![c] = "expunging"] /\ sent' = sent \cup {c}
        /\ refs' = refs /\ fetched' = fetched /\ todo' = todo
    BY <1>4 DEF SendExpunge, Fetched, localVars
  <2>2. Types'
    BY <1>m, <2>1 DEF Types, Places, mailVars, historyVars
  <2>3. /\ pc'[c] = "expunging" /\ c \in sent' /\ ~request[c].guest
        /\ Wanted(c) \in ever[c] \cap arrived
    BY <1>0, <2>1 DEF Types, CallInv, Naming, Fetching, Asked, Open, Permitted
  <2>4. CallInv(c)'
    BY <1>0, <1>m, <2>1, <2>3
    DEF CallInv, Asked, Naming, Expunging, Answered, Listing, Fetching, Open,
        Wanted, mailVars, historyVars
  <2>5. ASSUME NEW d \in Calls, d # c PROVE CallInv(d)'
    BY <1>m, <2>1, <2>5, QuietCall DEF Types, mailVars, historyVars
  <2> QED BY <2>2, <2>4, <2>5
<1> QED BY <1>1, <1>2, <1>3, <1>4 DEF Working

-----------------------------------------------------------------------------
(* What each answer says, from what the handler has read.                  *)

\* The instance has the operator of FiniteSets under a name of its own.
LEMMA SameCardinality == \A S : Service!Cardinality(S) = Cardinality(S)
  BY DEF Service!Cardinality, Cardinality

LEMMA AheadGrows ==
    ASSUME NEW m, NEW S, NEW T \in SUBSET References, S \subseteq T,
           Cardinality(Service!Ahead(m, T)) < Limit
    PROVE  Cardinality(Service!Ahead(m, S)) < Limit
<1>1. /\ Service!Ahead(m, S) \subseteq Service!Ahead(m, T)
      /\ Service!Ahead(m, T) \subseteq References
  BY DEF Service!Ahead
<1>2. IsFiniteSet(Service!Ahead(m, T))
  BY <1>1, FS_Subset, MessagesTyped
<1>3. /\ IsFiniteSet(Service!Ahead(m, S))
      /\ Cardinality(Service!Ahead(m, S)) <= Cardinality(Service!Ahead(m, T))
  BY <1>1, <1>2, FS_Subset
<1>4. Cardinality(Service!Ahead(m, S)) \in Nat /\ Cardinality(Service!Ahead(m, T)) \in Nat
  BY <1>2, <1>3, FS_CardinalityType
<1> QED BY <1>3, <1>4, MessagesTyped

LEMMA ListIsAllowed ==
    ASSUME MailboxInv, NEW c \in Calls, Fetched(c), request[c].op = "list",
           NEW a, a = [Code("200") EXCEPT !.listed = fetched[c] \ Malformed,
                                         !.found = RequestedFound(c)]
    PROVE  Service!ListAllowed(c, a)
<1>0. CallInv(c) /\ pc[c] = "fetching" /\ todo[c] = <<>> /\ Open(c)
  BY DEF MailboxInv, Fetched, Open
<1>a. /\ a.code = "200" /\ a.bytes = {} /\ a.listed = fetched[c] \ Malformed
      /\ a.found = RequestedFound(c)
  <2>1. Code("200") = [code |-> "200", listed |-> {}, found |-> "none", bytes |-> {}]
    BY DEF Code, Service!Code, Service!NoAnswer
  <2> QED BY <2>1
<1>1. PICK seen \in SUBSET Inbox :
        Between(c, seen) /\ refs[c] = Newest(seen) \cup Requested(c)
  BY <1>0 DEF CallInv, Listing
<1>2. \A m \in refs[c] \cap always[c] : m \in fetched[c]
  BY <1>0 DEF CallInv, Fetching
<1>3. fetched[c] \subseteq ever[c] /\ fetched[c] \subseteq refs[c]
  BY <1>0 DEF CallInv, Fetching
<1>4. /\ Inbox \subseteq References /\ always[c] \subseteq References
      /\ ever[c] \subseteq References
  BY Constants DEF MailboxInv, Types
<1>5. ASSUME NEW m \in (always[c] \cap Inbox) \ Malformed,
             Cardinality(Service!Ahead(m, ever[c] \cap Inbox)) < Limit
      PROVE  m \in fetched[c] \ Malformed
  <2>1. m \in seen /\ seen \subseteq ever[c] \cap Inbox
    BY <1>1 DEF Between
  <2>2. Cardinality(Service!Ahead(m, seen)) < Limit
    BY <1>4, <1>5, <2>1, AheadGrows
  <2>3. m \in refs[c]
    BY <1>1, <2>1, <2>2 DEF Newest
  <2> QED BY <1>2, <1>5, <2>3
<1>6. ASSUME NEW m \in (fetched[c] \ Malformed) \ {Wanted(c)}
      PROVE  /\ m \in Inbox
             /\ Cardinality(Service!Ahead(m, always[c] \cap Inbox)) < Limit
  <2>1. m \in Newest(seen)
    BY <1>1, <1>3, <1>6 DEF Requested
  <2>2. m \in seen /\ Cardinality(Service!Ahead(m, seen)) < Limit
    BY <2>1 DEF Newest
  <2>3. always[c] \cap Inbox \subseteq seen /\ seen \in SUBSET References
    BY <1>1, <1>4 DEF Between
  <2> QED BY <1>1, <2>2, <2>3, AheadGrows
<1>7. Wanted(c) \in always[c] \ Malformed => Wanted(c) \in fetched[c] \ Malformed
  BY <1>1, <1>2, <1>4 DEF Requested
<1>8. a.found = IF ~request[c].include THEN "none"
                ELSE IF Wanted(c) \in a.listed THEN "yes" ELSE "no"
  BY <1>a DEF RequestedFound
<1>9. Service!ListAllowed(c, a)
  <2>1. a.listed \subseteq ever[c] \ Malformed
    BY <1>a, <1>3
  <2>2. \A m \in (always[c] \cap Inbox) \ Malformed :
          Service!Cardinality(Service!Ahead(m, ever[c] \cap Inbox)) < Limit
              => m \in a.listed
    BY <1>a, <1>5, SameCardinality
  <2>3. Wanted(c) = Service!Wanted(c)
    BY DEF Wanted, Service!Wanted
  <2>4. \A m \in a.listed \ {Service!Wanted(c)} :
          /\ m \in Inbox
          /\ Service!Cardinality(Service!Ahead(m, always[c] \cap Inbox)) < Limit
    BY <1>a, <1>6, <2>3, SameCardinality
  <2>5. Service!Wanted(c) \in always[c] \ Malformed => Service!Wanted(c) \in a.listed
    BY <1>a, <1>7, <2>3
  <2>6. a.found = IF ~request[c].include THEN "none"
                  ELSE IF Service!Wanted(c) \in a.listed THEN "yes" ELSE "no"
    BY <1>8, <2>3
  <2> QED
    BY <1>a, <2>1, <2>2, <2>4, <2>5, <2>6 DEF Service!ListAllowed
<1> QED BY <1>9

LEMMA PartIsAudio ==
    ASSUME Types, NEW c \in Calls, Wanted(c) \in References
    PROVE  /\ HasPart(Wanted(c), request[c].index) <=> Service!HasAudio(c)
           /\ Service!HasAudio(c) =>
                /\ PartLength(Wanted(c), request[c].index) \in Nat
                /\ PartLength(Wanted(c), request[c].index) = Service!Length(c)
<1>1. /\ Audio[Wanted(c)] \in Seq(Nat) /\ request[c].index \in Int
      /\ Wanted(c) = Service!Wanted(c)
  BY MessagesTyped DEF Types, RequestRecords, Wanted, Service!Wanted
<1> QED
  BY <1>1 DEF HasPart, PartLength, Service!HasAudio, Service!Length

\* Every answer of the audio handler with the message at hand is allowed.
LEMMA AudioIsAllowed ==
    ASSUME MailboxInv, NEW c \in Calls, request[c].op = "audio",
           Fetched(c), fetched[c] # {},
           NEW a, \/ ~HasPart(Wanted(c), request[c].index) /\ a = Code("404")
                  \/ /\ HasPart(Wanted(c), request[c].index)
                     /\ a = AudioAnswer(request[c].range,
                                PartLength(Wanted(c), request[c].index))
    PROVE  Service!AudioAllowed(c, a) /\ a \in AnswerRecords /\ a.code # "204"
<1> DEFINE range == request[c].range
           length == PartLength(Wanted(c), request[c].index)
<1>0. Types /\ CallInv(c) /\ pc[c] = "fetching" /\ Open(c)
  BY DEF MailboxInv, Fetched, Open
<1>1. /\ Wanted(c) \in References /\ Wanted(c) \in ever[c]
      /\ Wanted(c) = Service!Wanted(c) /\ range \in RangeHeaders
  BY <1>0 DEF CallInv, Naming, Fetching, Service!Wanted, Wanted, Types, RequestRecords
<1>2. CASE ~HasPart(Wanted(c), request[c].index) /\ a = Code("404")
  <2>1. ~Service!HasAudio(c)
    BY <1>0, <1>1, <1>2, PartIsAudio
  <2> QED
    BY <1>1, <1>2, <2>1 DEF Service!AudioAllowed, Code, Service!Code,
       Service!NoAnswer, AnswerRecords
<1>3. CASE HasPart(Wanted(c), request[c].index) /\ a = AudioAnswer(range, length)
  <2>1. /\ Service!HasAudio(c) /\ length \in Nat /\ length = Service!Length(c)
    BY <1>0, <1>1, <1>3, PartIsAudio
  <2>2. a \in AnswerRecords /\ a.code \in {"200", "206", "416"}
    BY <1>0, <1>1, <1>3, <2>1, AnswersTyped
  <2>3. CASE range.form = "none"
    <3>1. a = [Code("200") EXCEPT !.bytes = 0 .. length - 1]
      BY <1>3, <2>3 DEF AudioAnswer
    <3>2. /\ a.code = "200" /\ a.bytes = 0 .. length - 1 /\ a.listed = {}
          /\ a.found = "none"
      BY <3>1 DEF Code, Service!Code, Service!NoAnswer
    <3> QED BY <1>1, <2>1, <2>2, <2>3, <3>2 DEF Service!AudioAllowed
  <2>4. CASE range.form # "none" /\ ParseRange(range, length) = Unsatisfiable
    <3>1. a = Code("416")
      BY <1>3, <2>4 DEF AudioAnswer
    <3>2. a.code = "416" /\ a.bytes = {} /\ a.listed = {} /\ a.found = "none"
      BY <3>1 DEF Code, Service!Code, Service!NoAnswer
    <3>3. range.form \in Service!SingleRange => Service!Selected(range, length) = {}
      BY <1>1, <2>1, <2>4, RangeSelectsBytes
    <3>4. range.form \in Service!SingleRange \/ range.form = "other"
      BY <1>1, <2>4 DEF RangeHeaders, Service!SingleRange
    <3> QED BY <1>1, <2>1, <2>2, <2>4, <3>2, <3>3, <3>4 DEF Service!AudioAllowed
  <2>5. CASE range.form # "none" /\ ParseRange(range, length) # Unsatisfiable
    <3>0. range.form \in Service!SingleRange
      BY <1>1, <2>5 DEF ParseRange, RangeHeaders, Service!SingleRange
    <3>1. /\ ParseRange(range, length)[1] .. ParseRange(range, length)[2]
                 = Service!Selected(range, length)
          /\ Service!Selected(range, length) # {}
      BY <1>1, <2>1, <2>5, <3>0, RangeSelectsBytes
    <3>2. a = [Code("206") EXCEPT !.bytes = Service!Selected(range, length)]
      BY <1>3, <2>5, <3>1 DEF AudioAnswer
    <3>3. /\ a.code = "206" /\ a.bytes = Service!Selected(range, length)
          /\ a.listed = {} /\ a.found = "none"
      BY <3>2 DEF Code, Service!Code, Service!NoAnswer
    <3> QED BY <1>1, <2>1, <2>2, <2>5, <3>0, <3>1, <3>3 DEF Service!AudioAllowed
  <2> QED BY <2>3, <2>4, <2>5
<1> QED BY <1>2, <1>3

-----------------------------------------------------------------------------
(* Every answer of a handler is allowed, and keeps the invariant.          *)

Answering(c) ==
    \/ Unauthenticated(c) \/ MailboxError(c) \/ ListMessages(c)
    \/ GuestMayNotDelete(c) \/ InvalidKey(c) \/ NotFound(c) \/ MessageAudio(c)
    \/ Deleted(c)

LEMMA AnswersAllowed ==
    ASSUME MailboxInv, NEW c \in Calls, Answering(c)
    PROVE  \E a \in AnswerRecords :
             /\ Answer(c, a) /\ Open(c) /\ Service!Allowed(c, a)
             /\ a.code = "204" => Wanted(c) \in arrived \ box
             /\ c \in sent => a.code \in Service!Failures
<1> DEFINE Good(a) == /\ a \in AnswerRecords /\ Answer(c, a) /\ Open(c)
                      /\ Service!Allowed(c, a)
                      /\ a.code = "204" => Wanted(c) \in arrived \ box
                      /\ c \in sent => a.code \in Service!Failures
<1> SUFFICES \E a : Good(a)
  OBVIOUS
<1>0. Types /\ CallInv(c)
  BY DEF MailboxInv
<1>s. /\ pc[c] # "expunging" /\ pc[c] # "done" => c \notin sent
      /\ Wanted(c) = Service!Wanted(c)
      /\ \A k \in {"401", "403", "404", "416", "500", "503", "204"} :
           Code(k) \in AnswerRecords /\ Code(k).code = k /\ Code(k) = Service!Code(k)
  <2>1. pc[c] # "expunging" /\ pc[c] # "done" => c \notin sent
    BY <1>0 DEF Service!Failures, CallInv, Expunging, Answered, NoAnswer, Service!NoAnswer
  <2> QED BY <2>1, Constants DEF Wanted, Service!Wanted, Code
<1>1. CASE Unauthenticated(c)
  <2>1. PICK code \in {"401", "500"} : Answer(c, Code(code))
    BY <1>1 DEF Unauthenticated
  <2>2. Good(Code(code))
    BY <1>1, <1>s, <2>1 DEF Unauthenticated, Open, Service!Allowed, Service!Failures
  <2> QED BY <2>2
<1>2. CASE MailboxError(c)
  <2>1. PICK code \in {"500", "503"} : Answer(c, Code(code))
    BY <1>2 DEF MailboxError, Service!Failures
  <2>2. Good(Code(code))
    BY <1>2, <1>s, <2>1 DEF MailboxError, Open, Service!Allowed, Service!Failures
  <2> QED BY <2>2
<1>3. CASE ListMessages(c)
  <2> DEFINE a == [Code("200") EXCEPT !.listed = fetched[c] \ Malformed,
                                      !.found = RequestedFound(c)]
  <2>1. a \in AnswerRecords /\ a.code = "200"
    <3>1. Code("200") = [code |-> "200", listed |-> {}, found |-> "none", bytes |-> {}]
      BY DEF Code, Service!Code, Service!NoAnswer
    <3>2. a.code = "200"
      BY <3>1
    <3>3. a \in AnswerRecords
      BY <1>0, AnswersTyped
    <3> QED BY <3>2, <3>3
  <2>2. request[c].op = "list" /\ Fetched(c) /\ Answer(c, a) /\ pc[c] = "fetching"
    BY <1>3 DEF ListMessages, Fetched
  <2> HIDE DEF a
  <2>3. Service!ListAllowed(c, a)
    BY <2>2, ListIsAllowed DEF a
  <2>4. Good(a)
    BY <1>s, <2>1, <2>2, <2>3 DEF Open, Service!Allowed
  <2> QED BY <2>4
<1>4. CASE GuestMayNotDelete(c)
  <2>1. Good(Code("403"))
    BY <1>4, <1>s DEF GuestMayNotDelete, Open, Service!Allowed, Service!DeleteAllowed
  <2> QED BY <2>1
<1>5. CASE InvalidKey(c) \/ NotFound(c)
  <2>1. /\ Answer(c, Code("404")) /\ pc[c] \in {"authenticated", "fetching"}
        /\ Permitted(c) /\ Wanted(c) \notin always[c]
    <3>1. CASE InvalidKey(c)
      BY <1>0, <3>1, MessagesTyped DEF InvalidKey, Types
    <3>2. CASE NotFound(c)
      <4>1. /\ Answer(c, Code("404")) /\ pc[c] = "fetching" /\ todo[c] = <<>>
            /\ fetched[c] = {} /\ request[c].op # "list"
        BY <3>2 DEF NotFound, Fetched
      <4>2. Permitted(c) /\ refs[c] = {Wanted(c)}
        BY <1>0, <4>1 DEF CallInv, Naming
      <4>3. Wanted(c) \notin always[c]
        BY <1>0, <4>1, <4>2 DEF CallInv, Fetching
      <4> QED BY <4>1, <4>2, <4>3
    <3> QED BY <1>5, <3>1, <3>2
  <2>2. Service!Allowed(c, Code("404"))
    <3>1. CASE request[c].op = "delete" /\ ~request[c].guest
      BY <1>s, <2>1, <3>1 DEF Service!Allowed, Service!DeleteAllowed
    <3>2. CASE request[c].op = "audio"
      <4>1. Service!AudioAllowed(c, Code("404"))
        BY <1>s, <2>1 DEF Service!AudioAllowed, Code, Service!Code, Service!NoAnswer
      <4> QED BY <3>2, <4>1 DEF Service!Allowed
    <3> QED BY <2>1, <3>1, <3>2 DEF Permitted
  <2>3. Good(Code("404"))
    BY <1>s, <2>1, <2>2 DEF Open
  <2> QED BY <2>3
<1>6. CASE MessageAudio(c)
  <2>1. /\ request[c].op = "audio" /\ Fetched(c) /\ fetched[c] # {}
        /\ pc[c] = "fetching"
    BY <1>6 DEF MessageAudio, Fetched
  <2>2. CASE Wanted(c) \in Malformed /\ Answer(c, Code("500"))
    <3>1. Good(Code("500"))
      BY <1>s, <2>1, <2>2 DEF Open, Service!Allowed, Service!Failures
    <3> QED BY <3>1
  <2>3. ASSUME NEW a, Answer(c, a),
               \/ ~HasPart(Wanted(c), request[c].index) /\ a = Code("404")
               \/ /\ HasPart(Wanted(c), request[c].index)
                  /\ a = AudioAnswer(request[c].range,
                             PartLength(Wanted(c), request[c].index))
        PROVE  Good(a)
    <3>1. Service!AudioAllowed(c, a) /\ a \in AnswerRecords /\ a.code # "204"
      BY <2>1, <2>3, AudioIsAllowed
    <3> QED BY <1>s, <2>1, <2>3, <3>1 DEF Open, Service!Allowed
  <2> QED BY <1>6, <2>2, <2>3 DEF MessageAudio
<1>7. CASE Deleted(c)
  <2>1. Answer(c, Code("204")) /\ pc[c] = "expunging" /\ c \notin sent
    BY <1>7 DEF Deleted
  <2>2. /\ request[c].op = "delete" /\ ~request[c].guest
        /\ Wanted(c) \in ever[c] \cap arrived /\ Wanted(c) \notin box
    BY <1>0, <2>1 DEF CallInv, Naming
  <2>3. Service!Allowed(c, Code("204"))
    BY <1>s, <2>2 DEF Service!Allowed, Service!DeleteAllowed
  <2>4. Good(Code("204"))
    BY <1>s, <2>1, <2>2, <2>3 DEF Open
  <2> QED BY <2>4
<1> QED BY <1>1, <1>2, <1>3, <1>4, <1>5, <1>6, <1>7 DEF Answering

LEMMA InvStep == MailboxInv /\ [Next]_vars => MailboxInv'
<1> SUFFICES ASSUME MailboxInv, [Next]_vars PROVE MailboxInv'
  OBVIOUS
<1>1. ASSUME NEW c \in Calls, Handler(c) PROVE MailboxInv'
  <2>1. CASE Working(c)
    BY <2>1, InvWorking
  <2>2. CASE Answering(c)
    BY <2>2, AnswersAllowed, AnsweredCall
  <2> QED BY <1>1, <2>1, <2>2 DEF Handler, Working, Answering
<1>2. CASE UNCHANGED vars
  <2>1. UNCHANGED <<mailVars, historyVars, localVars, pc, request, answer, sent>>
    BY <1>2 DEF vars
  <2>2. Types'
    BY <2>1 DEF MailboxInv, Types, mailVars, historyVars, localVars
  <2>3. ASSUME NEW d \in Calls PROVE CallInv(d)'
    BY <2>1, QuietCall DEF historyVars, localVars
  <2> QED BY <2>2, <2>3 DEF MailboxInv
<1> QED BY <1>1, <1>2, InvMail, InvBegin DEF Next

\* The invariant holds in every reachable state.
THEOREM MailboxInvariance == Spec => []MailboxInv
<1> QED BY InvInit, InvStep, PTL DEF Spec

(***************************************************************************)
(* Deletions that overlap, with one another and with other clients, are    *)
(* answered truthfully (mailbox.py:112): after a 204 the message is gone   *)
(* for good.                                                               *)
(***************************************************************************)
THEOREM DeletionIsFinal == Spec => []DeletedStaysDeleted
<1>1. MailboxInv => DeletedStaysDeleted
  BY DEF MailboxInv, CallInv, Answered, DeletedStaysDeleted
<1> QED BY <1>1, MailboxInvariance, PTL

-----------------------------------------------------------------------------
(* Types.                                                                  *)

\* A request that is not being answered sees nothing; it asks what it may.
Settled(c) ==
    /\ request[c] \in Requests[c] \cup {Service!NoRequest}
    /\ ~Open(c) => ever[c] = {} /\ always[c] = {}

LEMMA HandlerKeepsSettled ==
    ASSUME MailboxInv, NEW c \in Calls, Settled(c), Handler(c)
    PROVE  Settled(c)'
<1>0. /\ pc \in [Calls -> Places]
      /\ ever \in [Calls -> SUBSET References]
      /\ always \in [Calls -> SUBSET References]
  BY DEF MailboxInv, Types
<1>1. request' = request
  BY DEF Handler, Unauthenticated, MailboxError, LatestReferences, Fetch,
     ListMessages, GuestMayNotDelete, InvalidKey, StartFetchMessage, NotFound,
     MessageAudio, SendExpunge, Deleted, Answer
<1>2. ASSUME NEW a, Answer(c, a) PROVE Settled(c)'
  BY <1>0, <1>1, <1>2 DEF Answer, Settled, Open
<1>3. CASE LatestReferences(c) \/ Fetch(c) \/ StartFetchMessage(c) \/ SendExpunge(c)
  <2>1. Open(c)'
    BY <1>0, <1>3
    DEF LatestReferences, Fetch, StartFetchMessage, SendExpunge, Step, Fetched,
        Open, Places
  <2> QED
    BY <1>1, <2>1 DEF Settled
<1> QED
  BY <1>2, <1>3
  DEF Handler, Unauthenticated, MailboxError, ListMessages, GuestMayNotDelete,
      InvalidKey, NotFound, MessageAudio, Deleted

LEMMA SettledStep ==
    ASSUME MailboxInv, [Next]_vars, NEW c \in Calls, Settled(c)
    PROVE  Settled(c)'
<1>0. /\ pc \in [Calls -> Places] /\ request \in [Calls -> RequestRecords]
      /\ ever \in [Calls -> SUBSET References]
      /\ always \in [Calls -> SUBSET References]
  BY DEF MailboxInv, Types
<1>1. ASSUME NEW new, Becomes(new), UNCHANGED <<pc, request, answer>>
      PROVE  Settled(c)'
  BY <1>0, <1>1 DEF Becomes, Settled, Wanted, Open
<1>2. CASE \E m \in References : Arrive(m) \/ Vanish(m)
  BY <1>1, <1>2 DEF Arrive, Vanish
<1>3. CASE \E d \in Calls : DovecotExpunges(d)
  BY <1>1, <1>3 DEF DovecotExpunges
<1>4. ASSUME NEW d \in Calls, NEW r \in Requests[d], Begin(d, r)
      PROVE  Settled(c)'
  <2>1. CASE c = d
    <3>1. request'[c] = r /\ Open(c)'
      BY <1>0, <1>4, <2>1 DEF Begin, Step, Open
    <3> QED
      BY <1>4, <2>1, <3>1 DEF Settled
  <2>2. CASE c # d
    BY <1>0, <1>4, <2>2 DEF Begin, Step, Settled, Wanted, Open
  <2> QED
    BY <2>1, <2>2
<1>5. ASSUME NEW d \in Calls, Handler(d), d # c
      PROVE  Settled(c)'
  <2>1. /\ pc'[c] = pc[c] /\ request' = request
        /\ ever'[c] = ever[c] /\ always'[c] = always[c]
    BY <1>0, <1>5
    DEF Handler, Unauthenticated, MailboxError, LatestReferences, Fetch,
        ListMessages, GuestMayNotDelete, InvalidKey, StartFetchMessage, NotFound,
        MessageAudio, SendExpunge, Deleted, Answer, Step, historyVars
  <2> QED
    BY <2>1 DEF Settled, Wanted, Open
<1>6. CASE UNCHANGED vars
  BY <1>6 DEF vars, historyVars, Settled, Wanted, Open
<1> QED
  BY <1>2, <1>3, <1>4, <1>5, <1>6, HandlerKeepsSettled DEF Next

(***************************************************************************)
(* Types, and what a request could have seen and could not have missed:    *)
(* the one is part of the other, and both end with its answer.             *)
(***************************************************************************)
THEOREM MailboxTyped == Spec => []TypeOK
<1> DEFINE Inv == MailboxInv /\ \A c \in Calls : Settled(c)
<1>1. Init => Inv
  <2>1. Init => \A c \in Calls : Settled(c)
    BY DEF Init, Settled, NoAnswer, Service!NoAnswer
  <2> QED
    BY <2>1, InvInit
<1>2. Inv /\ [Next]_vars => Inv'
  BY InvStep, SettledStep
<1>3. Inv => TypeOK
  <2> SUFFICES ASSUME Inv PROVE TypeOK
    OBVIOUS
  <2>1. ASSUME NEW c \in Calls
        PROVE  /\ answer[c].code \in {"none", "200", "204", "206", "401", "403",
                                      "404", "416", "500", "503"}
               /\ refs[c] \cup fetched[c] \subseteq References
               /\ todo[c] \in Seq(GuidSet)
    BY DEF MailboxInv, Types, AnswerRecords, Settled
  <2>2. \A c \in Calls : always[c] \subseteq ever[c] /\ ever[c] \subseteq arrived
    BY DEF MailboxInv, CallInv, Asked, Settled, Open
  <2> QED
    BY <2>1, <2>2 DEF TypeOK, MailboxInv, Types, Places, Settled, GuidSet
<1> QED
  BY <1>1, <1>2, <1>3, PTL DEF Spec

-----------------------------------------------------------------------------
(* The refinement.                                                         *)

State == [c \in Calls |-> IF pc[c] = "new" THEN "new"
                          ELSE IF Open(c) THEN "open" ELSE "closed"]

\* The mailbox changes for Mailbox as it does for MailService.
LEMMA SameBecomes ==
    ASSUME NEW new, Becomes(new)
    PROVE  Service!Becomes(new)
<1>1. \A c \in Calls : Open(c) <=> State[c] = "open"
  BY DEF State, Open
<1> QED BY <1>1 DEF Becomes, Service!Becomes, State

\* A step that begins a request, works for it, or answers it.
LEMMA StateSteps ==
    ASSUME Types, NEW c \in Calls, NEW p \in Places, pc' = [pc EXCEPT ![c] = p]
    PROVE  State' = [State EXCEPT ![c] = IF p = "new" THEN "new"
                         ELSE IF p = "done" THEN "closed" ELSE "open"]
  BY DEF Types, State, Open, Places

LEMMA RefinementStep ==
    ASSUME MailboxInv, [Next]_vars
    PROVE  [Service!Next]_(Service!vars)
<1> USE DEF MailboxInv
<1>1. ASSUME NEW m \in References, Arrive(m) PROVE Service!Arrive(m)
  BY <1>1, SameBecomes DEF Arrive, Service!Arrive, Open
<1>2. ASSUME NEW m \in References, Vanish(m) PROVE Service!Vanish(m)
  BY <1>2, SameBecomes DEF Vanish, Service!Vanish, Open
<1>3. ASSUME NEW c \in Calls, NEW r \in Requests[c], Begin(c, r)
      PROVE  Service!Begin(c, r)
  <2>1. State' = [State EXCEPT ![c] = "open"] /\ State[c] = "new"
    BY <1>3, StateSteps DEF Begin, Step, Places, State
  <2> QED BY <1>3, <2>1 DEF Begin, Step, Service!Begin, State, mailVars
<1>4. ASSUME NEW c \in Calls, DovecotExpunges(c) PROVE Service!Remove(c)
  <2>1. /\ request[c].op = "delete" /\ ~request[c].guest
        /\ Wanted(c) \in References /\ Wanted(c) = Service!Wanted(c)
        /\ pc[c] = "expunging" \/ answer[c].code \in Service!Failures
    BY <1>4 DEF DovecotExpunges, CallInv, Expunging, Types, Wanted, Service!Wanted
  <2>2. State[c] = "open" \/ answer[c].code \in Service!Failures
    BY <2>1 DEF State, Open
  <2> QED BY <1>4, <2>1, <2>2, SameBecomes
          DEF DovecotExpunges, Service!Remove, State, Open
<1>5. ASSUME NEW c \in Calls, Working(c) PROVE UNCHANGED Service!vars
  <2>1. /\ UNCHANGED <<mailVars, historyVars, request, answer>> /\ Open(c)
        /\ \E p \in {"fetching", "expunging"} : pc' = [pc EXCEPT ![c] = p]
    BY <1>5 DEF Working, LatestReferences, StartFetchMessage, Fetch, Fetched,
       SendExpunge, Step, Open, Types
  <2>2. State' = [State EXCEPT ![c] = "open"] /\ State[c] = "open"
    BY <2>1, StateSteps DEF Places, State, Open
  <2>3. State' = State
    BY <2>2 DEF State
  <2> QED BY <2>1, <2>3 DEF Service!vars, State, mailVars, historyVars
<1>6. ASSUME NEW c \in Calls, Answering(c) PROVE Service!Reply(c)
  <2>1. PICK a \in AnswerRecords :
          Answer(c, a) /\ Open(c) /\ Service!Allowed(c, a)
    BY <1>6, AnswersAllowed
  <2>2. answer'[c] = a /\ answer' = [answer EXCEPT ![c] = a]
    BY <2>1 DEF Answer, Types
  <2>3. State' = [State EXCEPT ![c] = "closed"] /\ State[c] = "open"
    BY <2>1, StateSteps DEF Answer, Places, State, Open
  <2> QED BY <2>1, <2>2, <2>3 DEF Answer, Service!Reply, State, mailVars
<1>7. CASE UNCHANGED vars
  BY <1>7 DEF vars, Service!vars, mailVars, historyVars, Open
<1>8. Next => Service!Next \/ UNCHANGED Service!vars
  <2>1. ASSUME NEW c \in Calls, Handler(c)
        PROVE  Service!Reply(c) \/ UNCHANGED Service!vars
    BY <1>5, <1>6, <2>1 DEF Handler, Working, Answering
  <2> QED BY <1>1, <1>2, <1>3, <1>4, <2>1 DEF Next, Service!Next
<1> QED BY <1>7, <1>8

(***************************************************************************)
(* The handlers of /api/messages keep the promise of MailService: what     *)
(* they list, send and delete is right for the mailbox as it was while     *)
(* they ran, however their calls to Dovecot are interleaved with others    *)
(* and whichever of those calls fail.                                      *)
(***************************************************************************)
THEOREM MailboxRefinesService == Spec => ImplementsMailService
<1>1. Init => Service!Init
  BY DEF Init, Service!Init, Service!NoRequest, NoAnswer, Open
<1> QED
  BY <1>1, RefinementStep, MailboxInvariance, PTL
  DEF Spec, ImplementsMailService, Service!Spec
=============================================================================
