--------------------------- MODULE HostValidation ---------------------------
(***************************************************************************)
(* The Host and Origin allowlist (host_validation.go) and the validation of *)
(* its configuration (server.go).                                           *)
(*                                                                         *)
(* A text is a sequence of tokens (parts of names, ".", "*" and "/") with   *)
(* the decorations the code looks at: a blank before or after it, brackets, *)
(* a port, capital letters.  "evil" and "example" side by side are the one  *)
(* label evilexample.                                                       *)
(***************************************************************************)
EXTENDS SequencesExt

\* A header that is not there.
Absent == [absent |-> TRUE]

Text(tokens) ==
    [absent |-> FALSE, tokens |-> tokens, blank |-> "none", brackets |-> FALSE,
     port |-> FALSE, upper |-> FALSE]

Loopback6 == <<"::1">>
defaultAllowedHosts == {Text(<<"localhost">>), Text(<<"127.0.0.1">>), Text(Loopback6)}

isEmpty(v) == v.tokens = <<>> /\ v.blank = "none" /\ ~v.brackets /\ ~v.port

TrimSpace(v) == [v EXCEPT !.blank = "none"]
ToLower(v)   == [v EXCEPT !.upper = FALSE]

\* net.SplitHostPort succeeds: a port, and colons of an address in brackets.
splits(v) == v.port /\ (v.tokens = Loopback6 => v.brackets)

\* Faulty variant: the port is not stripped.
normalizeHostname_KeepsPort(v) ==
    LET t == TrimSpace(v)
    IN  ToLower(IF t.brackets THEN [t EXCEPT !.brackets = FALSE] ELSE t)

normalizeHostname(v) ==
    LET t == TrimSpace(v)
    IN  ToLower(IF splits(t) THEN [t EXCEPT !.port = FALSE, !.brackets = FALSE]
                ELSE IF t.brackets /\ ~t.port THEN [t EXCEPT !.brackets = FALSE]
                ELSE t)

isStar(h)     == h = Text(<<"*">>)
isWildcard(h) == h.blank # "lead" /\ ~h.brackets /\ IsPrefix(<<"*", ".">>, h.tokens)

\* Faulty variant: the dot goes with the star.
suffixOf_DropsDot(h) == ToLower([h EXCEPT !.tokens = Tail(Tail(@))])

\* h[1:] of a wildcard entry.
suffixOf(h) == ToLower([h EXCEPT !.tokens = Tail(@)])

newHostAllowlist(allowed) ==
    LET entries == IF allowed = {} THEN defaultAllowedHosts ELSE allowed
    IN  [allowAny |-> \E h \in entries : isStar(h),
         suffixes |-> {suffixOf(h) : h \in {e \in entries : isWildcard(e)}},
         exact    |-> {normalizeHostname(h) : h \in {e \in entries : ~isStar(e) /\ ~isWildcard(e)}}]

\* strings.HasSuffix: what decorates the end of the suffix must be there too.
HasSuffix(hostname, suffix) ==
    /\ IsSuffix(suffix.tokens, hostname.tokens)
    /\ suffix.port = hostname.port /\ suffix.blank = hostname.blank

allows(a, hostname) ==
    \/ a.allowAny
    \/ hostname \in a.exact
    \/ \E suffix \in a.suffixes : HasSuffix(hostname, suffix)

\* url.Parse and Hostname of an Origin: [url, host]; an opaque origin has no host,
\* and Hostname drops port and brackets.
Hostname(origin) == [origin.host EXCEPT !.port = FALSE, !.brackets = FALSE]

originAllowed(a, origin) ==
    \/ origin = Absent
    \/ origin.url /\ origin.host.tokens # <<>> /\ allows(a, ToLower(Hostname(origin)))

checkHeaders(a, headers) ==
    LET host == IF headers.authority # Absent THEN headers.authority ELSE headers.host
    IN  /\ host # Absent /\ ~isEmpty(host)
        /\ allows(a, normalizeHostname(host))
        /\ originAllowed(a, headers.origin)

\* server.go: an entry of AllowedHosts is well formed.
validAllowedHost(h) ==
    /\ ~isEmpty(TrimSpace(h)) /\ ~Contains(h.tokens, "/")
    /\ \/ TrimSpace(h) = Text(<<"*">>)
       \/ /\ isWildcard(TrimSpace(h))
          /\ Len(h.tokens) > 2 \/ h.port
          /\ ~Contains(Tail(h.tokens), "*")
       \/ ~Contains(h.tokens, "*")

\* The part of Config.validate that is about AllowedHosts.
validate(allowed) == \A h \in allowed : validAllowedHost(h)
=============================================================================
