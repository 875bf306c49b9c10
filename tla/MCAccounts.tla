----------------------------- MODULE MCAccounts -----------------------------
(***************************************************************************)
(* Accounts on small instances.  Logins a and b are two callbacks of one   *)
(* identity, c and d are other people whose email has the same prefix and  *)
(* whose first alias is the same.  m is create-user; s and t are starts of *)
(* the backend, t with another GUEST_USER_EMAIL unless the run says so.    *)
(***************************************************************************)
EXTENDS Accounts

CONSTANTS a, b, c, d, m, s, t, google, microsoft, other,
          ann, guest, newguest

Persons == [x \in OAuthCalls |->
             IF x = c THEN microsoft ELSE IF x = d THEN other ELSE google]
SameStart == [x \in OAuthCalls |-> 0]

\* Everybody is ann, except for starts with the guest addresses.
StartupsDiffer == [x \in Calls |->
                    IF x = s THEN guest ELSE IF x = t THEN newguest ELSE ann]
StartupsAgree == [x \in Calls |-> IF x \in {s, t} THEN guest ELSE ann]
\* Somebody registers the guest's address.
EverybodyGuest == [x \in Calls |-> IF x = t THEN newguest ELSE guest]
=============================================================================
