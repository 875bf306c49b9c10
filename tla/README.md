# Formal models of Running Notes

Running Notes records a voice note in the browser, converts it on the server,
stores it, and delivers it as mail to the user's own mailbox, where any mail
client can fetch it. This directory holds TLA+ models of the parts of that
program in which the order of events matters, the TLC configurations that check
them on small instances, and proofs, for every instance, of the safety
properties of all of them.

Paths below are relative to the repository. A definition of a module has, as
far as TLA+ allows it, the name of the function or field that it stands for;
`PROJECT.json` gives the lines of each.

## 1. The system

| Part | Code | State it keeps | Operations | What makes it correct |
| --- | --- | --- | --- | --- |
| Guest upload limiter | `backend/guest.py` 15-64 | two kinds of deques of start times, a counter of uploads in progress; in memory | `acquire`, `release`, pruning | no rolling window is overfilled, a refusal counts for nothing, every slot comes back |
| Recording pipeline | `backend/notes_routes.py`, `audio.py`, `lmtp_delivery.py` | `notes/<id>/` directories, the Maildir, locals of each handler | `POST /api/record`; the read-only note endpoints | quotas, no slot lost, what each answer promises, no message without its note while it is kept |
| Accounts and identities | `backend/users.py`, `oauth_identities.py`, `database.py`, `admin.py`, first half of `guest_retention.py` | tables `users` and `oauth_identities`, one Maildir per user | OAuth login, `create-user`, guest account at startup, password resets | an identity keeps one account, every returned account is usable, losers of a race leave no account |
| Guest retention | `backend/guest_retention.py`, `guest.py` 67-101 | a sleeping task, a cleanup thread, ages of directories | hourly cleanup of notes and messages | nothing goes early, everything goes, the message with its note |
| Recorder tab | `frontend/src/components/record-tab` | recorder, stream, interval, confirmation timers, generation | press, permission, stop, discard, upload, reset | streams are released, a recording goes to its own session or nowhere |
| Portal session, router, tabs | `frontend/src/main.ts`, `session.ts`, `api.ts`, `router.ts`, `tabs.ts` | session status, `sessionRequestId`, path | sign in as guest, log out, 401, navigation | the page settles, stale answers are ignored |
| Messages tab | `frontend/src/components/messages-tab` | request id, list, status line | load, delete, reset | no list of another session, no deleted message back |
| Mail-app tab and password resets | `components/imap-tab`, `backend/profile_routes.py`, `reset_imap_password` of `users.py`, `admin.py` | the hash in `users`; in the page two request ids, settings, a password shown once | load, regenerate, `reset-imap-password`, the guest's password at startup | the page shows a password of its session only, an old password stops working, nobody else's changes |
| Mailbox over doveadm | `backend/mailbox.py`, `messages.py`, `messages_routes.py` | none (Dovecot's) | list, fetch, expunge | every answer is right for some mailbox of its time, a 204 is final |
| Audio byte ranges | `backend/audio.py` 114-137 | none | `parse_audio_byte_range` | selects the bytes that a single range asks for |
| Web session and OAuth flow | `backend/auth_routes.py`, `auth_deps.py`, `oauth.py`, `application_routes.py` | the whole session, in a signed cookie | login, callback, guest login, logout, the check of every other request | a login ends on its own page and as its own user, a finished session stays finished |
| SMTP sink | `smtp_discard/smtp_sink.py` | a command state per connection | HELO, MAIL, RCPT, DATA | never accepts a message |
| Playback widget, autoconfiguration, Dovecot configuration, deployment, page and styles | `components/playback-widget`, `backend/autoconfig.py`, `dovecot/config/`, compose files, `nginx/` | none | display, XML, configuration | no state that another part reads |

How they interact:

- The page calls the backend with `fetch`. Several requests are in flight at a
  time, and the handler that awaits one goes on whatever happened meanwhile.
- `record` and `oauth_callback` are `async`: they share one event loop and give
  it up only at an `await`. `record` awaits the request body and the
  conversion thread, and nothing else; the quota check, the three file writes
  and the LMTP session run without giving up the loop. All other routes are
  plain functions in a thread pool.
- The retention task sleeps on the loop and does its work in a thread, beside
  which uploads go on. Dovecot changes the Maildir whenever a client opens it.
- The admin CLI is a process of its own on the same SQLite file and the same
  directory tree. Each `with connect()` is one transaction.
- The server keeps no sessions. A request carries the cookie of the moment at
  which it is sent and sends a copy back with its answer; the answer that
  arrives last decides what the browser keeps.
- The messages routes make up to three calls to Dovecot for one request, each
  of which sees the mailbox of its own moment.
- The limiter lives in memory and dies with the process; disk, mailbox and
  database survive.

The behaviours that are hard to test follow from that: two uploads between
quota and write, an error or a crash on any line of a handler that holds a slot,
two logins of one identity, a startup that dies half-way, a removal that is cut
off, a stop event that comes after the next recording has begun, a message that
is expunged between two calls, two resets of one password, answers in any
order. `PROJECT.json` lists each under `hazards`, at its line, with the
properties that would catch it going wrong.

## 2. The modules

```
GuestAdmission            what the limiter promises
   ^ implemented by
GuestUploadLimiter        deques and counter     <- GuestAdmissionProofs,
                                                    GuestProofs
   GuestAdmission
   ^ extended by
Recording                 upload handler, loop, disk, mailbox, retention thread
                                                 <- RecordingProofs
GuestRetention            the retention task, its thread, Dovecot
                                                 <- GuestProofs
AccountService            what logins, create-user and startups promise
   ^ implemented by
Accounts                  rows, links, Maildirs        <- AccountsProofs
MailPassword              tab, routes, command, startup <- MailPasswordProofs
WebSession                one browser's cookie         <- WebSessionProofs
MailService               what /api/messages promises
   ^ implemented by
Mailbox                   the handlers, one doveadm call at a time
                                                 <- MailboxProofs
RecordTab                 the recorder in the browser  <- PageProofs
Portal                    session, router and messages tab in front of a mailbox
                                                 <- PageProofs
MC<module>                constants for TLC
```

A definition whose comment begins with "Fault:" is not part of a specification.
It is the definition after it with a plausible bug, and shows that a property
would notice that bug.

A module of proofs has the name of what it proves about. `GuestProofs` has the
two modules about the guest in it, the limiter's and the retention's, and
`PageProofs` the two about the page. Their definitions are kept apart by names:
`RetentionInit`, `RecorderNext` and so on.

### GuestAdmission and GuestUploadLimiter

`GuestAdmission` keeps, for each request, when it was admitted and whether it is
in flight. `Admit` needs room in the window of its session, in the window of all
sessions and in the number of uploads in flight; `Refuse` changes nothing but
the answer; `Restart` forgets everything, as the process does.

`GuestUploadLimiter` is the class of `guest.py`: `_prune` drops entries from the
left of a deque, `acquire` prunes the session's deque, the global one and those
of all other sessions, appends or refuses, and `release` decrements or raises.
`Acquire` and `AcquireRefused` are `acquire` with its two ends. Time is a
counter; equal times are possible, as with `time.monotonic`.

### Recording

One handler per upload. Its program counter goes from `arrived` through the
body, the conversion and the segment that keeps the loop (`Segment`: scan of
the user's directory, mkdir, audio, metadata, LMTP) to `answered`, or to `lost`
in a crash. `loop` says which handler keeps the loop. Beside it runs the
retention thread, which does not wait for the loop: it reads the clock
(`RetentionCutoff`), lists the expired notes (`RetentionList`), walks through the
Maildir (`RetentionInspect`) and then removes the directories (`RetentionUnlink`,
`RetentionRemoveDirectory`); `RetentionFails` ends it anywhere. The walk may pass
any message over, as the code does when Dovecot renames it behind the listing or
when an `OSError` is logged; `GuestRetention` has the files of the walk. Each line that
may raise has its action or disjunct (`Read`, `ConversionFailed`, `ScanAudio`,
`DiskError`, `LmtpFails`), and `Answer` is the `finally` that gives the slot
back. The limiter is that of `GuestAdmission`. Log events are left out.

### AccountService and Accounts

Each call of `get_or_create_oauth_user`, `create-user` and `ensure_guest_user`
is a process whose steps are its SQLite transactions and its changes of the
Maildir tree. `Insert` and `Collision` are the two connections of the loop over
candidates; `FindWinner`, `Link` and `Discard` those of the OAuth race. A user is
named by the call that created it. `RemoveMaildir` deletes the mailbox of a user
that is discarded or leaves it behind, since `rmtree` is told to ignore errors.
`Faults` switches on disk errors, a locked database and processes that die.

`AccountService` has no transactions: a login, a `create-user` or a startup of
the backend is one step, the one at which it returns. `FirstLogin` gives an
identity a new account, `LaterLogin` returns it to all others; `CreateGuest` makes
a new account the guest in the place of the last one, `FindGuest` returns one that
is or was the guest. A call that fails or dies is not answered, and has no step.
The refinement mapping (`Service` in `Accounts`) counts as an account what is a row
with a mailbox and was returned by a call; what a call has not finished, or has
left behind, is invisible. `Accounts` implements it: every step of a call either
changes nothing there or is the one step that answers it.

### GuestRetention

The whole of `cleanup_expired_guest_recordings` with its scan, its walk through
`new/` and `cur/` and its `rmtree`, beside uploads, Dovecot's renames, restarts
and exceptions. Ages are counted instead of dates, so that the system may run
for ever. The clock stands still inside a cleanup and inside the writing segment
of an upload, each of which takes less than one unit.

### MailService and Mailbox

`MailService` is the promise, stated without calls to Dovecot. A request has no
moment of its own, so the promise speaks of `ever`, the messages that were there
at some time since it began, and `always`, those that were there all the time. A
list holds only messages of `ever`, every readable message of INBOX in `always`
unless `Limit` newer ones took its place, and the message asked for; audio is
the bytes that a single range selects (`Selected`); a deletion answered 204 took
effect while it was answered, one that failed (500 or 503) may take effect at any
later time, and one of the guest never does. Any request may fail. Several
ranges, other units and headers that are no ranges are refused with 416, where
RFC 9110 would also let a server ignore them.

`Mailbox` is the code: `LatestReferences`, `Fetch` once for each mailbox that a
reference names, then `ListMessages`, `MessageAudio` or `SendExpunge`, with the
error answers of each (`Unauthenticated`, `GuestMayNotDelete`, `InvalidKey`,
`NotFound`, `MailboxError`). Between any two steps mail arrives and other clients
move or expunge it. `DovecotExpunges` is apart from the handler that asked for
it, so that a timeout may come before it. `Unauthenticated` and
`MailboxError` may end in a 500: the database may fail while the user is looked
up, and an answer of Dovecot that is JSON of the wrong shape or no UTF-8 raises
what no handler expects (`TypeError`, `UnicodeDecodeError`). An answer that is
used is taken to have well-formed and complete rows, for the code skips a row
that it cannot read (`mailbox.py:85`, `mailbox.py:103`). `ParseRange` is
`parse_audio_byte_range` on numbers; a header that is not of its form is `other`.
`Portal` has list and delete of the same mailbox as one step each.

### WebSession

A call is a request of one browser, from `sent` with a copy of the cookie
(`carried`) to the answer that sets the cookie again (`Deliver`) or is lost
(`Lose`). `OAuthLogin`, the steps of the callback (`CallbackRefused`,
`CallbackExchanges`, `CodeAccepted`, `CodeRejected`, `IdentityRejected`,
`CallbackSignsIn`, `CallbackFails`), `GuestLogin`, `Logout` and
`CurrentActiveUser` are the handlers. A login is named
by the request that started it, which stands for Authlib's `state`, a session by
the request that signed in, which stands for `login_nonce`. `Configured` are the
providers with client and redirect URI, which a login needs, `Registered` those
with a client, which is all that the callback asks for. `Consent` is what
the provider does, `CodeAccepted` that it accepts a code once, `Disable` and
`CookieExpires` what happens elsewhere. Authlib, the provider and
`SessionMiddleware` are external.

### MailPassword

The tab (`ShowPortal`, `Regenerate`, `ResetTab` and what follows their awaits), the
two routes and the admin command as calls with numbers. `ServeRegenerate` and
`Command` are `reset_imap_password` up to its lookup (`FindUser`), `Update` is its
second connection; nothing keeps two resets apart. `Startup` is the branch of
`ensure_guest_user` that applies the configured password. A password is named by
the call that generated it. `before` and `since` are history: which resets had
been answered when a call was made, which commands have ended since the startup.

### RecordTab

`toggleRecording` up to its `await` is `ClickStart`, after it `Granted` and
`NotGranted`; `handleStop` is `StopEvent` up to the upload and `UploadEnds` after
it. An attempt is one press of the button with its stream, its recorder and its
upload. The module distinguishes `interval`, the field, from `intervals`, what
the browser still runs: an overwritten field is a timer that nothing clears.
`Supported` says whether the browser can record; where it cannot, `setEnabled`
leaves the button disabled (`Enable`).

### Portal

`main.ts`, `session.ts` and `messages-tab.ts` as handlers over a set of calls in
flight. A call is served (`ServeList`, `ServeDelete`: the mailbox at that moment)
and its answer delivered later, each in any order. `Load`, `Reset`, `Clear` and
`ApplyRoute` are the functions that several handlers call; a handler is an
action with all that it calls. What the cookie names is the server's business:
`GET /api/me` may answer with any user.

## 3. The runs

All bounds are CONSTANTS with names that begin with `Max`, or sets of model
values. Deadlock checking is off throughout: every model may stop when all
requests of the instance are answered.

| Run | What it asks | Instance |
| --- | --- | --- |
| `limiter` | Are windows, deques and slots right, and is each answer the one `GuestAdmission` gives? | five uploads of two sessions, time up to twice the window: a window fills, empties and fills again |
| `recording` | Quotas, slots, and what 201, a 4xx and a 5xx promise | two guest uploads of one account and an ordinary one, sizes below, at and above each limit, two days, retention that expires in time to meet a scan, a crash at any step |
| `recording_live` | Can anything but an LMTP session that never ends keep a started upload from its answer? | one guest and two ordinary uploads, so that one may wait for the loop while another keeps it |
| `accounts` | Do identities keep their accounts, are returned accounts usable, do losers leave no row, and is each call answered as if it had been one step of `AccountService`? | two logins of one identity, one of another with the same first alias, `create-user`; crash, disk error and locked database anywhere |
| `accounts_guest` | Is there one guest account, usable, after each startup, and is each startup answered as `AccountService` does? | two starts with different guest addresses, `create-user` of one of them, a login; the same faults |
| `startup_crash` | Does a startup succeed after another one died? (violated) | two starts one after the other |
| `retention` | Does nothing go early and everything in the end? | two notes, a mail client, one restart, one failed cleanup; retention 3 periods of time and a cleanup every 2, so that a note may expire between two cleanups; ages up to 16, beyond everything that the code compares |
| `record_tab` | Are streams released, does the page record only for the user who pressed, is what was stopped uploaded? | three presses, two sessions |
| `portal` | Does no list outlive its session or bring a deleted message back, and does nothing wait for ever? | any three things a user does or a session that expires, two messages |
| `mailbox` | Is every answer one that `MailService` allows? | three messages, of which one fits the list, one lies elsewhere and cannot be parsed; a request of any kind and one that lists or deletes, eleven `Range` headers |
| `web_session` | Do logins end on their page and as their user, do finished sessions stay so? | four requests: two logins with their callbacks, or one and a guest's, a logout, any other; two claims, a provider that is configured, one with a client but no redirect URI, one that is unknown |
| `mail_password` | Which password is shown, which one works, whose is it? | three calls of tab or command, one crash or change of the cookie; five accounts, of which two pairs share an address |

A violated run is marked; the others pass. Each module's type invariant is
proved, and no run checks it once more.

Why these bounds are enough: a race of the limiter needs one upload more than
the limit and a window that ends; a quota race needs two uploads between check
and write; the OAuth race needs two calls of one identity, and a third party to
collide with their aliases; a half-removed note needs one restart and a second
note to be walked past it; a late stop event needs one attempt that stops and
one that begins, the third being the one that waits for the microphone; a stale
answer needs an older and a newer request and a change of session, which is
three clicks; an overwritten session needs two logins and their callbacks; a
password that is lost or shown to the wrong person needs two resets and a
request for settings, or a session that ends between them; a message that is
listed and gone, or there and not listed, needs one request and a mailbox that
changes between its calls, and a deletion that meets another one two. For the
safety properties the proofs remove the bounds altogether; section 4 ends with
what is only model-checked.

Fairness, where a run needs it:

- `Recording`: asyncio runs ready coroutines, and `ffmpeg` and `ffprobe` are run
  with a timeout. An LMTP session has no fairness: `smtplib.LMTP` is created
  without a timeout, and while it waits nothing else runs, so a Dovecot that does
  not answer stops the whole backend. `EveryUploadAnswered` therefore says what
  is true of the code: if every session ends (`SessionsEnd`), every upload is
  answered. Clients and the clock owe nothing.
- `GuestRetention`: time passes, the thread runs, an upload that has the loop
  ends. Restarts and failed cleanups are bounded: with a restart every hour the
  loop, which sleeps before its first cleanup, would never clean up.
- `RecordTab`: the browser delivers the stop event and runs intervals. The user
  and the permission prompt owe nothing.
- `Portal`: each request is answered or fails. The user owes nothing.
- `MailPassword`: each request is answered or given up by the browser, whatever
  the backend does. The backend and the user owe nothing.

### Where code and documents disagree

One run is there to show a disagreement.

- `startup_crash`: `create_user` and `mark_user_as_guest` are two transactions. A
  process that dies between them leaves the address taken and no guest, and
  every later startup fails; the automatic creation is documented as idempotent.
  The same window lets two concurrent startups fail, which the comment above
  the `except` means to handle.

Seen while modelling, without a run of their own:

- Retention lists each Maildir directory once. A message that Dovecot renames from
  `new/` to `cur/` after `cur/` was listed is missed, its note goes, and later
  cleanups look only for messages of notes on the disk
  (`guest_retention.py:57`). `UnopenedMessageGoesWithNote` is what holds, and
  `MessageHasNote` for as long as a message is to be kept.
- `rmtree(..., ignore_errors=True)` may leave the mailbox of a user that lost the
  race of two logins, and nothing looks for it again (`users.py:304`).
  `NoOrphans` speaks of rows only.
- `handleStop` clears whatever interval is current. When the next recording begins
  before the stop event of the last one, that is the new one's, which then has
  no limit of 30 seconds, unlike what `OPERATING.md:197` says
  (`record-tab.ts:164`).
- The end of an upload enables the button while a microphone request is pending
  (`record-tab.ts:195`). A second press gives two recorders, `reset()` stops one,
  and the other goes on behind the login page. `NoOpenStreamWithoutRecorder` and
  `RecordsForThisSession` are what holds.
- Logout clears the cookie, and a request in flight sends its copy of the session
  back: when its answer comes later, the browser is signed in again, although
  logout is described as clearing the session
  (`agents-project-overview.md:158`; `auth_routes.py:113`). `LogoutIsFinal` is what
  holds.
- A refused callback sends back the session it was called with, without the
  pending login. Of two callbacks of one login in flight together, the first may
  sign in and the answer of the second then overwrite the signed-in cookie
  (`auth_routes.py:56`). `SignedInByItsLogin` is what holds.
- The regenerate button stays enabled. Of two overlapping resets the one clicked
  last is shown and the one stored last works, and these may be different ones
  (`imap-tab.ts:150`, `users.py:183`). A reset that fails after its transaction has
  replaced the password and shows none. `OldPasswordStops` is what holds.
- `deleteMessage` does not ask after its `await` whether its session is still there
  (`messages-tab.ts:165`). After a logout it may write the status line, and load
  and render a list behind the login page. With two deletions in flight when a
  session is lost, the answer to the first loads a list before the second is
  carried out, the answer to the second loads none, and the next user to sign in
  sees that list with the message in it until the next load has answered. Five
  clicks show it; `DeletedNotShownAgain` therefore speaks of deletions that were
  told to the session that asked for them (`Confirmed`).
- `loginAsGuest` does not ask after its `await` whether it is still wanted: of two
  presses the slower one may reopen the portal after a logout, or close it with
  an error (`main.ts:139`).
- The login that loses its alias to a user that is discarded before the code
  looks for it fails with the `IntegrityError` although aliases are free
  (`users.py:119`; `Collision` has the step).
- A restart inside `rmtree`, after `metadata.json` has gone, makes the note's age
  that of its directory, which the removal has just touched: its audio stays
  for another retention period. `RemovedInTime` is what holds: a retention and a
  period, and as much again for each restart or failed cleanup.
- A backend that is restarted more often than hourly never cleans up: the loop
  sleeps first (`guest_retention.py:94`). A message that cannot be opened or
  unlinked is logged and its note goes all the same (`guest_retention.py:65`).
- `deliver_via_lmtp` logs `SMTPException` only; a refused connection raises
  `OSError` and leaves no event (`lmtp_delivery.py:46`).

## 4. The proofs

TLAPS checks the theorems below for every value of the constants: any number of
uploads, calls, identities, messages and clicks, any limits, any length of run. The assumptions
are those of the modules: sets of uploads are finite and disjoint, limits are at
least 1 as `config.py` demands, sizes of converted audio are at least 1 byte.
TLC evaluates each assumption on its instances.

**The limiter** (`GuestAdmissionProofs`, `GuestProofs`). That no
window is overfilled is not inductive: a start in the future would be counted by
a later window only. `AdmissionInv` adds that no start lies in the future
(`StartsInPast`). The one step that can fill a window is `Admit`; a window that
ends now or later holds after it only starts of the window that ends now, which
was not full, and the new one. The deques implement that promise
(`LimiterImplementsAdmission`) since none of them misses a start that is still
in the window, and each lists what it holds in order and without repetition.

**Uploads** (`RecordingProofs`). `RecordingInv` says where a handler is and what
it has written so far (`Progress`), that the handler that writes is the one that
keeps the loop (`LoopHeld`), and that no cleanup meets its note (`Apart`). The
last is the interesting one. Retention does not wait for the loop and could take
a note from under the handler that writes it, and the message of a 201 would
then be without a note. It does not, because its thread is started while the
loop is free and reads the clock within the retention time of that (at least an
hour; the assumption is the guard of `ClockTick`): its cutoff is older than
`created_at` of whoever writes by then or later, however long that takes.
`Aging` adds that a cleanup has only notes on its list whose retention time is
over: what the walk passes over, and the note that goes without its message, are
never those of a recording that is still to be kept.
From it follow `SlotsMatchHandlers`, `RejectedLeavesNothing`,
`AcknowledgedIsDelivered` and `MessageHasNote`, and, with `RecordingUsesAdmission`
and the theorem about the limiter, that the guest limits hold for real uploads.
For `DailyQuota`, `QuotaInv` adds that the scan has counted at least the notes of
the day that it has left behind (others only go meanwhile), so that from the
check to the write there is room for one note.

`StorageQuota` compares the sum of all files with the limit, and the provers have
no induction with which to show that a sum over a set is what it should be. It
is proved all the same, by contradiction: of the finite sets that violate a law
of sums (a subset sums to no more, one more element adds its size), one has no
violating subset, and taking one element from it gives another. The invariant
then is that the handler that writes has weighed at least the files that are on
the disk (`Weighed`, `AudioInDirectory`): what a cleanup takes away while it
weighs makes the scan count too much and never too little.

**Accounts** (`AccountsProofs`). `AccountsInv` says that whatever refers to a user
(a link, the guest mark, a return value, the variable of a call that is about to
return it) refers to a settled one: the call that created it is done, row and
mailbox are there. A call deletes only the user that it created itself and has
not returned, so that a settled user stays. For `NoOrphans`, `Remains` adds which
rows a login leaves behind at each of its steps; the mailbox of a discarded user
may stay.

`AccountsImplementService` goes through the steps one by one: a step is `Quiet`,
that is, it returns nothing and leaves the links, the guest and all returned
accounts alone, or it answers one call (`Answers`), which had no answer, with
the account that it has just settled or with one that was returned before
(`AnswersAllowed`). That the second kind is a step of the service is where the
race of two logins is decided: the transaction of `Link` is the first to find the
identity free, and a loser that returns a winner returns the linked account.
A startup may only find a guest that some startup has marked and returned
(`GuestsReturned`).

**Guest retention** (`GuestProofs`). A cleanup works from what it has listed, while
uploads and Dovecot go on. `RetentionInv` says why that is safe: what it has found
are notes whose upload has ended and which were expired when it began, and since
the clock rests in it they still are. So nothing goes early (`OnlyExpiredIsRemoved`),
even when a restart or an error has left a note half removed and its age is
that of its directory. `UnopenedInv` follows one message that no client opens: it
is where the walk through `new/` and `cur/` has not been yet, or it is gone, or its
note is not among those of the cleanup (`Ahead`). The theorem assumes that no
`OSError` is passed over ("io" is not in `Faults`); with one the property is wrong
(section 3). `DueInv` bounds the age of every directory: an `Allowance` of a
retention and a period grows by as much with every restart and failed cleanup,
and what is left of the sleep of the loop is within it.

**Recorder tab** (`PageProofs`). The generation only grows, and a recorder that asks
for the microphone, records or stops with the current one is that of the present
session, for which `setEnabled` has enabled it (`RecorderInv`). Everything that the code
does after an `await` or an event compares the generation first. So a stream
that is granted late is closed or gets its recorder (`OpenStreamHasRecorder`), and
whatever the page records it records for the user who pressed the button
(`RecordsForItsSession`): a permission given in a later session starts nothing.
`StoppedIsNotLost` is the half of `StoppedIsUploaded` that needs no fairness: while
the session lasts nothing takes a stopped recording off its way to the server.

**Mailbox** (`MailboxProofs`). `MailboxRefinesService` shows that every handler
implements `MailService`. What a handler has read in earlier calls is kept true
by weakening: the mailbox that it saw lies between `always` and `ever`, and goes
on doing so while `always` shrinks and `ever` grows. The list needs in addition
that the newest `Limit` messages of a mailbox between the two hold every message
of `always` that fewer than `Limit` of `ever` are ahead of. `DeletionIsFinal`
rests on uids, which are not used again. `RangeSelectsBytes` shows that
`ParseRange` refuses a single range exactly when RFC 9110 selects no byte with
it, and otherwise returns the first and the last of those bytes, for every
length; of several ranges and other headers it says nothing.

**Web session** (`WebSessionProofs`). Whatever session is anywhere, in the cookie,
with a request or in an answer, was put together by one handler (`Sound`). What
it refers to does not change any more: a request keeps what it asked for, and a
login whose code was used keeps its consent. `LogoutIsFinal` is inductive once
`NoncesOver` says that a session is in use only after the answer that brought it.

**Password resets** (`MailPasswordProofs`). `CallsInv` says what a call has learned
at each stage: a reset has found the account of its own session, a command the
only one it names, and a call that began after another was answered knows that
(`before`). Since a reset stores its hash before it is answered, what is stored
was never given out before an answered reset was asked for. `TabInv` says that
whatever the tab shows or waits for was asked for in this session.

**Portal** (`PageProofs`). The number of a request is the time at which it was
sent. Only the answer to the newest list request is rendered. When a deletion is
told to the session that asked for it, that session is still signed in
(`Deletions`), so that a newer load takes the place of every list that was served
before. `Current` says that a tab which is behind waits for an answer that will
renew it; `QuietTabIsCurrent` is what remains when nothing is in flight.

Only model-checked:

- Liveness: `EveryUploadAnswered`, `StoppedIsUploaded`, `EventuallyRemoved`,
  `SessionSettles` and `BusyEnds` of `Portal` and of `MailPassword`; the prover does
  not reach fairness. `StoppedIsNotLost` and `RemovedInTimeAlways` are what is
  proved of two of them.
- `startup_crash`, a behaviour that TLC exhibits.

## 5. What is not modelled

- What `ffmpeg`, Authlib, Starlette's cookie and Dovecot do. The modules have the
  outcomes that the code distinguishes; the entries marked external in
  `PROJECT.json` are the behaviour of Dovecot and of the browser as the code uses
  them.
- Names and formats: ids are those of the uploads and calls themselves, aliases
  are numbers, messages have no text. Parsing of form data, MIME and templates
  has no state.
- The SMTP sink: a connection has its own command state and shares nothing with
  another, its commands are answered one after the other, and every DATA is
  refused by one line. No two of its steps can come in another order.
- The playback widget: an audio element whose source follows an attribute.
- Autoconfiguration renders XML from its configuration; compose files, nginx and
  Dovecot configuration are no code of the program; page and styles are what the
  components above change.
- The account tab displays the session's user; `PATCH /api/me` answers 403 or 501
  and changes nothing.

## 6. Plan

All components with state of their own but the SMTP sink are modelled, and the safety properties
that the runs check are proved. What is left, in this order:

1. The safety halves of the other liveness properties, as `StoppedIsNotLost` is
   one: an upload that is not answered has a step to take or waits for one that
   has, and a tab that is busy has a request in flight that will end it.
2. What `AccountService` implies for its users, proved of it alone: an identity
   keeps its account, and no account is returned to two identities.
3. Runs for the disagreements of section 3 once the code changes: each is then a
   property to be checked as it was meant (`LogoutIsFinal` without its condition,
   `DeletedNotShownAgain` for all deletions, the shown password is the stored
   one).
