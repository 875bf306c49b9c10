---------------------------- MODULE MCMailPassword ----------------------------
(***************************************************************************)
(* MailPassword with the guest, one account of the command line, whose     *)
(* username is its address, and three OAuth accounts: one that shares this *)
(* address and two that share another.                                     *)
(***************************************************************************)
EXTENDS MailPassword

CONSTANTS cli, oauth1, oauth2, oauth3

Accounts == {cli, oauth1, oauth2, oauth3, Guest}
SignedIn == {cli, oauth1, Guest}

Aliases ==
    [u \in Accounts |->
        CASE u = cli -> "first" [] u = oauth1 -> "alias-1" [] u = oauth2 -> "alias-2"
          [] u = oauth3 -> "alias-3" [] u = Guest -> "public"]

Addresses ==
    [u \in Accounts |->
        CASE u = cli -> "first" [] u = oauth1 -> "first" [] u = Guest -> "public"
          [] OTHER -> "second"]

Typed == {"first", "second", "public"}
=============================================================================
