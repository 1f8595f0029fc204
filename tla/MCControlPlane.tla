---------------------------- MODULE MCControlPlane ----------------------------
(***************************************************************************)
(* An instance of ControlPlane for TLC.                                    *)
(***************************************************************************)
EXTENDS ControlPlane, TLC

CONSTANTS b1, b2, t1, t2

\* Two subjects and two keys, joined with each other in two ways to one text.
User == <<"user">>
UserA == <<"user", "a">>
K == <<"k">>
AK == <<"a", "k">>

SampleSubjects == {User, UserA}
SampleKeys == {K, AK}

Request(route, credential, subject, key, body) ==
  [route |-> route, subject |-> subject, credential |-> credential, key |-> key, body |-> body]

\* A change of one subject, the same text of subject and key with another body, one
\* without a key and one that is not authenticated, an enrolment step, and one
\* request for each other route.
SampleRequests ==
  {Request("claim_invite", "valid", User, AK, b1), Request("claim_invite", "valid", UserA, K, b2),
   Request("claim_invite", "valid", User, None, b1),
   Request("claim_invite", "invalid", User, K, b1), Request("confirm", "missing", User, None, b1),
   Request("dashboard", "missing", User, None, b1), Request("agent", "missing", User, None, b1),
   Request("internal", "invalid", User, None, b1), Request("internal", "valid", User, None, b1),
   Request("healthz", "missing", User, None, b1),
   Request("none", "missing", User, None, b1)}

Symmetry == Permutations(Threads)
===============================================================================
