----------------------------- MODULE MCMailbox -----------------------------
(***************************************************************************)
(* Mailbox on a small instance: two messages of INBOX, one of which fits   *)
(* the list, one elsewhere that cannot be parsed, and two requests that    *)
(* overlap: one of any kind, one that lists or deletes.                    *)
(***************************************************************************)
EXTENDS Mailbox, TLC

CONSTANTS old, new, moved, inbox, archive, c1, c2

Messages == {old, new, moved}
InInbox == {old, new}
Guids == [m \in Messages |-> IF m = moved THEN archive ELSE inbox]
\* Two were saved in the same second, the one elsewhere later.
SavedAt == old :> 1 @@ new :> 1 @@ moved :> 2
Uids == old :> 1 @@ new :> 2 @@ moved :> 1
OneMalformed == {moved}
Parts == old :> <<3, 0>> @@ new :> <<>> @@ moved :> <<1>>

Range(form, first, last) == [form |-> form, first |-> first, last |-> last]
NoHeader == Range("none", 0, 0)
Ask(op, wanted) == [op |-> op, wanted |-> wanted, include |-> FALSE,
                    guest |-> FALSE, index |-> 0, range |-> NoHeader]
Include(m) == [Ask("list", m) EXCEPT !.include = TRUE]
Audios(m, indexes, ranges) ==
    {[Ask("audio", m) EXCEPT !.index = i, !.range = r] :
        i \in indexes, r \in ranges}
SomeRanges ==
    {Range("from-to", 0, -1), Range("from-to", 0, 1), Range("from-to", 1, 1),
     Range("from-to", 2, 1), Range("from-to", 1, 9), Range("from", 2, 0),
     Range("from", 3, 0), Range("suffix", 0, 0), Range("suffix", 0, 2),
     Range("suffix", 0, 9), Range("other", 0, 0)}
Anything ==
    {Ask("list", NoReference), Ask("delete", NoReference)}
    \cup {Include(m) : m \in {NoReference, old, moved}}
    \cup {[Ask("delete", m) EXCEPT !.guest = g] :
            m \in {new, moved}, g \in BOOLEAN}
    \cup Audios(old, {0}, SomeRanges) \cup Audios(old, {-1, 0, 2}, {NoHeader})
    \cup Audios(old, {1}, {NoHeader, Range("from", 0, 0)})
    \cup Audios(NoReference, {0}, {NoHeader}) \cup Audios(moved, {0}, {NoHeader})
ListOrDelete ==
    {Include(new), Ask("delete", old), Ask("delete", new)}
SmallRequests == c1 :> Anything @@ c2 :> ListOrDelete
=============================================================================
