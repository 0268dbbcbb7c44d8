----------------------------- MODULE MCHostCheck -----------------------------
(***************************************************************************)
(* Instances of HostCheck: every configuration of at most two of the        *)
(* entries below, against every combination of host and origin headers.     *)
(***************************************************************************)
EXTENDS HostCheck

Apex      == <<"example", ".", "org">>
Sub       == <<"foo", ".">> \o Apex
Lookalike == <<"evil">> \o Apex
Star       == Text(<<"*">>)
Subs      == Text(<<"*", ".">> \o Apex)

Plain     == {Text(<<"localhost">>), [Text(Apex) EXCEPT !.port = TRUE, !.upper = TRUE],
              [Text(Loopback6) EXCEPT !.brackets = TRUE], Text(Loopback6),
              [Text(Loopback6) EXCEPT !.port = TRUE]}
Wild      == {Star, Subs, [Subs EXCEPT !.upper = TRUE]}
Sloppy    == {[Star EXCEPT !.blank = "lead"], [Subs EXCEPT !.blank = "trail"],
              [Subs EXCEPT !.port = TRUE], [Text(Apex) EXCEPT !.blank = "lead"]}
IllFormed == {Text(<<>>), Text(<<"*", ".">>), Text(<<"*", ".", "*">>), Text(<<"a", "*", "b">>),
              Text(Apex \o <<"/">>)}

MCAllowedHosts == {{}} \cup {{a, b} : a, b \in Plain \cup Wild \cup Sloppy \cup IllFormed}

Hosts == {Absent, Text(<<>>), Text(<<"localhost">>), Text(Apex), Text(Sub), Text(Lookalike),
          Text(<<"bar", ".">> \o Sub), Text(<<".">> \o Apex), Text(<<"*">>),
          [Text(<<"localhost">>) EXCEPT !.port = TRUE, !.upper = TRUE],
          [Text(Sub) EXCEPT !.port = TRUE, !.upper = TRUE, !.blank = "trail"],
          Text(Loopback6), [Text(Loopback6) EXCEPT !.brackets = TRUE],
          [Text(Loopback6) EXCEPT !.port = TRUE],
          [Text(Loopback6) EXCEPT !.brackets = TRUE, !.port = TRUE]}

Origin(url, host) == [url |-> url, host |-> host]
SomeOrigins == {Absent, Origin(FALSE, Text(<<>>)), Origin(TRUE, Text(<<>>)), Origin(TRUE, Text(Lookalike)),
            Origin(TRUE, [Text(Sub) EXCEPT !.port = TRUE, !.upper = TRUE]),
            Origin(TRUE, Text(<<"localhost">>))}

MCHeaderMaps == [authority : Hosts, host : {Absent, Text(<<"localhost">>), Text(Sub)}, origin : SomeOrigins]
=============================================================================
