------------------------------ MODULE HostCheck ------------------------------
(***************************************************************************)
(* The allowlist at work: RunServer validates AllowedHosts and builds the   *)
(* allowlist, then the headers of every request are checked against it.     *)
(***************************************************************************)
EXTENDS HostValidation

CONSTANTS
    AllowedHosts,   \* the configurations tried: sets of texts
    HeaderMaps      \* the headers of requests: [authority, host, origin]

Texts == [absent : {FALSE}, tokens : Seq(STRING), blank : {"none", "lead", "trail"},
          brackets : BOOLEAN, port : BOOLEAN, upper : BOOLEAN]

\* url.Parse accepts no blank in a host.
Origins == {Absent} \cup [url : BOOLEAN, host : [absent : {FALSE}, tokens : Seq(STRING),
               blank : {"none"}, brackets : BOOLEAN, port : BOOLEAN, upper : BOOLEAN]]

ASSUME HostAssumption ==
    /\ \A hosts \in AllowedHosts : hosts \subseteq Texts
    /\ HeaderMaps \subseteq [authority : Texts \cup {Absent}, host : Texts \cup {Absent},
                             origin : Origins]

VARIABLES
    allowed,        \* config.AllowedHosts
    server,         \* "starting", "refused" (validate failed) or "serving"
    list,           \* the hostAllowlist
    headers,        \* the headers of the last request
    verdict         \* of checkHeaders

hostVars == <<allowed, server, list, headers, verdict>>

NoHeaders == [authority |-> Absent, host |-> Absent, origin |-> Absent]

HostInit ==
    /\ allowed \in AllowedHosts
    /\ server = "starting"
    /\ list = newHostAllowlist({})
    /\ headers = NoHeaders
    /\ verdict = FALSE

Configure ==
    /\ server = "starting"
    /\ server' = IF validate(allowed) THEN "serving" ELSE "refused"
    /\ list' = IF validate(allowed) THEN newHostAllowlist(allowed) ELSE list
    /\ UNCHANGED <<allowed, headers, verdict>>

CheckRequest ==
    /\ server = "serving"
    /\ headers' \in HeaderMaps
    /\ verdict' = checkHeaders(list, headers')
    /\ UNCHANGED <<allowed, server, list>>

HostNext == Configure \/ CheckRequest

HostSpec == HostInit /\ [][HostNext]_hostVars

(***************************************************************************)
(* The policy that server.go documents for AllowedHosts (172-181), over the *)
(* names alone: capitals, ports and brackets do not matter, except that an  *)
(* address with colons needs brackets to have a port: without them, what    *)
(* looks like its port is its last part, and it is another address.         *)
(***************************************************************************)
\* A name that ends in the apex and the dot before it (host_validation.go:24-26).
isSubdomain(name, apex) ==
    \E k \in 0 .. Len(name) - 1 : SubSeq(name, k + 1, Len(name)) = <<".">> \o apex

wellFormed(v) == v.tokens = Loopback6 /\ v.port => v.brackets

covers(h, v) ==
    \/ h.tokens = <<"*">>
    \/ h.tokens = v.tokens /\ (wellFormed(h) <=> wellFormed(v))
    \/ /\ IsPrefix(<<"*", ".">>, h.tokens)
       /\ isSubdomain(v.tokens, SubSeq(h.tokens, 3, Len(h.tokens)))

entries == IF allowed = {} THEN defaultAllowedHosts ELSE allowed

policyAllows(v) == \E h \in entries : covers(h, v)

hostHeader == IF headers.authority # Absent THEN headers.authority ELSE headers.host

\* The host, and the name in the origin if there is one, are allowed.
PolicyVerdict ==
    /\ hostHeader # Absent /\ ~isEmpty(hostHeader)
    /\ policyAllows(hostHeader)
    /\ headers.origin # Absent =>
          /\ headers.origin.url /\ headers.origin.host.tokens # <<>>
          /\ policyAllows(Text(headers.origin.host.tokens))

\* A star or wildcard without blanks and port: the allowlist takes it as it is,
\* although the validation trims it and lets a port through.
plainlyWritten(h) == Head(h.tokens) = "*" => h.blank = "none" /\ ~h.port

(***************************************************************************)
(* Properties.                                                              *)
(***************************************************************************)
\* With wildcards written as documented, and other entries in any way that passes
\* validation, the verdict is the documented policy's: exact hosts, subdomains at
\* any depth but never the apex or a name that merely ends in it, loopback only by
\* default and only by default.
VerdictIsPolicy ==
    server = "serving" /\ (\A h \in allowed : plainlyWritten(h)) => verdict = PolicyVerdict

\* Whatever configuration the validation lets through, the check fails closed:
\* nothing the documented policy excludes is admitted.
FailsClosed == server = "serving" /\ verdict => PolicyVerdict
=============================================================================
