------------------------------ MODULE MCReleases ------------------------------
(***************************************************************************)
(* An instance of Releases for TLC.                                        *)
(***************************************************************************)
EXTENDS Releases

\* Versions of one and two numbers, one with a tag; none, and one that does not
\* parse.
SampleVersions ==
  {Text("dotted", <<1>>, FALSE), Text("dotted", <<1, 0>>, TRUE),
   Text("dotted", <<1, 1>>, FALSE), Text("dotted", <<0, 2>>, FALSE),
   Absent, Malformed}

SamplePublished == {Text("dotted", <<1, 1>>, FALSE), Malformed}

\* Windows with both bounds, one or none, one of them for newer protocols only; one
\* whose bounds are reversed and one with a bound that does not parse.
SampleWindows ==
  LET one == Text("dotted", <<1>>, FALSE)
      oneOne == Text("dotted", <<1, 1>>, FALSE)
      Ha(min, max, supported) == Window(Absent, Absent, min, max, supported)
  IN  {Window(one, Absent, one, one, TRUE), Ha(one, Absent, FALSE), Ha(Absent, oneOne, TRUE),
       Ha(oneOne, one, TRUE), Ha(Malformed, Absent, TRUE)}
===============================================================================
