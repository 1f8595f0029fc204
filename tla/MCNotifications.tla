---------------------------- MODULE MCNotifications ----------------------------
(***************************************************************************)
(* Instances of Notifications for TLC.                                     *)
(***************************************************************************)
EXTENDS Notifications, TLC

CONSTANTS a1, a2, r1, f1, f2, m1, m2, w1, w2, site

\* One recipient of the alerts' site.
OneAddress == r1 :> "owner"
OneSite == r1 :> site

\* Both alerts are of the family f1; f2 is another family one may subscribe to.
SameFamily == (a1 :> f1) @@ (a2 :> f1)
SameSite == (a1 :> site) @@ (a2 :> site)
===============================================================================
