---------------------------- MODULE MCWebSession ----------------------------
(***************************************************************************)
(* WebSession on a small instance: two logins, or one and a guest's, and   *)
(* two more requests, in any order and with every overlap.                 *)
(***************************************************************************)
EXTENDS WebSession, TLC

CONSTANTS a, b, c, d, ann, guest

Ask(op, provider, path) == [op |-> op, provider |-> provider, path |-> path]
Plain(ops) == {Ask(op, None, None) : op \in ops}
SomeInputs ==
    a :> {Ask("login", "google", "/messages")}
    @@ b :> Plain({"guest"})
            \cup {Ask("login", "google", path) : path \in {None, "elsewhere"}}
            \cup {Ask("login", p, None) : p \in {"microsoft", "other"}}
    @@ c :> Plain({"logout"}) \cup {Ask("callback", "google", None)}
    @@ d :> Plain({"logout", "api"})
            \cup {Ask("callback", p, None) : p \in {"google", "microsoft", "other"}}
TwoPages == {"/record", "/messages"}
PagesAndOthers == TwoPages \cup {"elsewhere"}
Claim(verified) == [subject |-> TRUE, email |-> TRUE, verified |-> verified]
SomeClaims == {Claim("text true"), Claim("absent")}
=============================================================================
