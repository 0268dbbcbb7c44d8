---------------------------- MODULE ServerProofs ----------------------------
(***************************************************************************)
(* Proofs about the server process: the host and origin check that its      *)
(* configuration sets up, for every configuration and all headers, and the  *)
(* processes that share a socket path, for any number of them and of        *)
(* streams.                                                                 *)
(***************************************************************************)
EXTENDS HostCheck, ServerLifecycle, SequenceTheorems, TLAPS

-----------------------------------------------------------------------------
(* The host check: names.                                                    *)

\* The strings, with the constants of the code named: the provers do not know of a
\* constant that it is one.
Words == STRING \cup {"localhost", "127.0.0.1", "::1", ".", "*"}

\* The texts over these words.
Written == [absent : {FALSE}, tokens : Seq(Words), blank : {"none", "lead", "trail"},
            brackets : BOOLEAN, port : BOOLEAN, upper : BOOLEAN]

\* Every text of a configuration or a header is written in words.
LEMMA TextsAreWritten ==
    ASSUME NEW v \in Texts
    PROVE  v \in Written
  <1>1. v.tokens \in Seq(Words)
    BY SeqMonotonic DEF Texts, Words
  <1> QED
    BY <1>1 DEF Texts, Written

\* So are the entries that every list has.
LEMMA DefaultsAreWritten ==
    ASSUME NEW v \in defaultAllowedHosts
    PROVE  v \in Written
  <1>1. PICK x \in Words : v = Text(<<x>>)
    BY DEF defaultAllowedHosts, Loopback6, Words
  <1>2. <<x>> \in Seq(Words)
    OBVIOUS
  <1> QED
    BY <1>1, <1>2 DEF Written, Text

\* The text of a name once blanks, brackets, capitals and a port are gone; p tells
\* that what looks like a port is not one.
canon(tokens, p) ==
    [absent |-> FALSE, tokens |-> tokens, blank |-> "none", brackets |-> FALSE,
     port |-> p, upper |-> FALSE]

\* Whether what looks like the port of v is the last part of an address.
fused(v) == IF wellFormed(v) THEN FALSE ELSE TRUE

\* Records with the fields of a text, whatever their values.
Shape(V) == [absent : V, tokens : V, blank : V, brackets : V, port : V, upper : V]

\* Such a record is what its fields are.
LEMMA SameShape ==
    ASSUME NEW V, NEW r \in Shape(V), NEW s \in Shape(V),
           r.absent = s.absent, r.tokens = s.tokens, r.blank = s.blank,
           r.brackets = s.brackets, r.port = s.port, r.upper = s.upper
    PROVE  r = s
  BY DEF Shape

\* And so is a text.
LEMMA SameText ==
    ASSUME NEW v \in Written, NEW w \in Written,
           v.tokens = w.tokens, v.blank = w.blank, v.brackets = w.brackets,
           v.port = w.port, v.upper = w.upper
    PROVE  v = w
  <1> DEFINE V == Seq(Words) \cup {"none", "lead", "trail"} \cup BOOLEAN
  <1>1. v \in Shape(V) /\ w \in Shape(V) /\ v.absent = w.absent
    BY DEF Written, Shape
  <1> QED
    BY <1>1, SameShape

\* The edits that the code makes, field by field: strings.TrimSpace,
LEMMA Trimmed ==
    ASSUME NEW v \in Written
    PROVE  LET t == TrimSpace(v)
           IN  /\ t \in Written /\ t.tokens = v.tokens /\ t.blank = "none"
               /\ t.brackets = v.brackets /\ t.port = v.port /\ t.upper = v.upper
  BY DEF Written, TrimSpace

\* strings.ToLower,
LEMMA Lowered ==
    ASSUME NEW v \in Written
    PROVE  LET t == ToLower(v)
           IN  /\ t \in Written /\ t.tokens = v.tokens /\ t.blank = v.blank
               /\ t.brackets = v.brackets /\ t.port = v.port /\ t.upper = FALSE
  BY DEF Written, ToLower

\* the removal of the brackets of an IPv6 address,
LEMMA Unbracketed ==
    ASSUME NEW v \in Written
    PROVE  LET t == [v EXCEPT !.brackets = FALSE]
           IN  /\ t \in Written /\ t.tokens = v.tokens /\ t.blank = v.blank
               /\ t.brackets = FALSE /\ t.port = v.port /\ t.upper = v.upper
  BY DEF Written

\* the host part of net.SplitHostPort,
LEMMA Portless ==
    ASSUME NEW v \in Written
    PROVE  LET t == [v EXCEPT !.port = FALSE, !.brackets = FALSE]
           IN  /\ t \in Written /\ t.tokens = v.tokens /\ t.blank = v.blank
               /\ t.brackets = FALSE /\ t.port = FALSE /\ t.upper = v.upper
  BY DEF Written

\* and the removal of a trailing dot or of a wildcard.
LEMMA Cut ==
    ASSUME NEW v \in Written, NEW w \in Seq(Words)
    PROVE  LET t == [v EXCEPT !.tokens = w]
           IN  /\ t \in Written /\ t.tokens = w /\ t.blank = v.blank
               /\ t.brackets = v.brackets /\ t.port = v.port /\ t.upper = v.upper
  BY DEF Written

\* A name in its normal form.
LEMMA CanonFields ==
    ASSUME NEW w \in Seq(Words), NEW p \in BOOLEAN
    PROVE  LET t == canon(w, p)
           IN  /\ t \in Written /\ t.tokens = w /\ t.blank = "none"
               /\ t.brackets = FALSE /\ t.port = p /\ t.upper = FALSE
  BY DEF Written, canon

\* Normalising leaves the name.
LEMMA Normalized ==
    ASSUME NEW v \in Written
    PROVE  normalizeHostname(v) = canon(v.tokens, fused(v))
  <1> DEFINE t == TrimSpace(v)
             c == canon(v.tokens, fused(v))
             n == normalizeHostname(v)
  <1>1. /\ v.tokens \in Seq(Words) /\ v.brackets \in BOOLEAN /\ v.port \in BOOLEAN
        /\ fused(v) \in BOOLEAN
    BY DEF Written, fused
  <1>2. /\ t \in Written /\ t.tokens = v.tokens /\ t.blank = "none"
        /\ t.brackets = v.brackets /\ t.port = v.port
    BY Trimmed
  <1>3. /\ c \in Written /\ c.tokens = v.tokens /\ c.blank = "none"
        /\ c.brackets = FALSE /\ c.port = fused(v) /\ c.upper = FALSE
    BY <1>1, CanonFields
  <1> DEFINE a == [t EXCEPT !.port = FALSE, !.brackets = FALSE]
             b == [t EXCEPT !.brackets = FALSE]
  <1>4. n = ToLower(IF splits(t) THEN a ELSE IF t.brackets /\ ~t.port THEN b ELSE t)
    BY DEF normalizeHostname
  <1> HIDE DEF t, c, n
  <1>5. /\ a \in Written /\ a.tokens = t.tokens /\ a.blank = t.blank
        /\ a.brackets = FALSE /\ a.port = FALSE
    BY <1>2, Portless
  <1>6. /\ b \in Written /\ b.tokens = t.tokens /\ b.blank = t.blank
        /\ b.brackets = FALSE /\ b.port = t.port
    BY <1>2, Unbracketed
  <1> HIDE DEF a, b
  <1>7. splits(t) <=> v.port /\ (v.tokens = Loopback6 => v.brackets)
    BY <1>2 DEF splits
  <1>8. \E u \in Written : /\ n = ToLower(u) /\ u.tokens = v.tokens /\ u.blank = "none"
                         /\ u.brackets = FALSE /\ u.port = fused(v)
    <2>1. CASE splits(t)
      <3>1. fused(v) = FALSE
        BY <1>7, <2>1 DEF fused, wellFormed
      <3> QED
        BY <1>2, <1>4, <1>5, <2>1, <3>1
    <2>2. CASE ~splits(t) /\ t.brackets /\ ~t.port
      <3>1. fused(v) = FALSE /\ t.port = FALSE
        BY <1>1, <1>2, <2>2 DEF fused, wellFormed
      <3> QED
        BY <1>2, <1>4, <1>6, <2>2, <3>1
    <2>3. CASE ~splits(t) /\ ~(t.brackets /\ ~t.port)
      <3>1. v.brackets = FALSE /\ v.port = fused(v)
        BY <1>1, <1>2, <1>7, <2>3 DEF fused, wellFormed
      <3> QED
        BY <1>2, <1>4, <2>3, <3>1
    <2> QED
      BY <2>1, <2>2, <2>3
  <1>9. n = c
    <2>1. PICK u \in Written : /\ n = ToLower(u) /\ u.tokens = v.tokens /\ u.blank = "none"
                             /\ u.brackets = FALSE /\ u.port = fused(v)
      BY <1>8
    <2>2. /\ n \in Written /\ n.tokens = v.tokens /\ n.blank = "none"
          /\ n.brackets = FALSE /\ n.port = fused(v) /\ n.upper = FALSE
      BY <2>1, Lowered
    <2> QED
      BY <1>3, <2>2, SameText
  <1> QED
    BY <1>9 DEF n, c

\* Two texts have one normal form if they have one name.
LEMMA SameName ==
    ASSUME NEW t \in Seq(Words), NEW u \in Seq(Words), NEW p \in BOOLEAN, NEW q \in BOOLEAN
    PROVE  canon(t, p) = canon(u, q) <=> t = u /\ p = q
  <1> DEFINE c == canon(t, p)
             d == canon(u, q)
  <1>1. c.tokens = t /\ c.port = p /\ d.tokens = u /\ d.port = q
    BY CanonFields
  <1>2. t = u /\ p = q => c = d
    OBVIOUS
  <1> HIDE DEF c, d
  <1>3. c = d <=> t = u /\ p = q
    BY <1>1, <1>2
  <1> QED
    BY <1>3 DEF c, d

\* The hostname of an origin is its name.
LEMMA OriginName ==
    ASSUME NEW origin \in Origins, origin # Absent
    PROVE  /\ ToLower(Hostname(origin)) = canon(origin.host.tokens, FALSE)
           /\ origin.host.tokens \in Seq(Words)
  <1> DEFINE h == origin.host
             p == [h EXCEPT !.port = FALSE, !.brackets = FALSE]
             n == ToLower(p)
             c == canon(h.tokens, FALSE)
  <1>1. h \in Written /\ h.blank = "none" /\ h.tokens \in Seq(Words)
    <2>1. h \in Texts /\ h.blank = "none"
      BY DEF Origins, Texts
    <2> QED
      BY <2>1, TextsAreWritten DEF Written
  <1>2. Hostname(origin) = p
    BY DEF Hostname
  <1> HIDE DEF h
  <1>3. /\ p \in Written /\ p.tokens = h.tokens /\ p.blank = "none"
        /\ p.brackets = FALSE /\ p.port = FALSE
    BY <1>1, Portless
  <1> HIDE DEF p
  <1>4. /\ n \in Written /\ n.tokens = h.tokens /\ n.blank = "none"
        /\ n.brackets = FALSE /\ n.port = FALSE /\ n.upper = FALSE
    BY <1>3, Lowered
  <1>5. /\ c \in Written /\ c.tokens = h.tokens /\ c.blank = "none"
        /\ c.brackets = FALSE /\ c.port = FALSE /\ c.upper = FALSE
    BY <1>1, CanonFields
  <1> HIDE DEF n, c
  <1>6. n = c
    BY <1>4, <1>5, SameText
  <1> QED
    BY <1>1, <1>2, <1>6 DEF n, c, h

-----------------------------------------------------------------------------
(* Ends of names.                                                            *)

\* IsSuffix, element by element.
LEMMA SuffixByElement ==
    ASSUME NEW S, NEW s \in Seq(S), NEW t \in Seq(S)
    PROVE  IsSuffix(s, t) <=> /\ Len(s) <= Len(t)
                              /\ \A i \in 1 .. Len(s) : t[Len(t) - Len(s) + i] = s[i]
  <1> DEFINE m == Len(s)
             n == Len(t)
  <1>1. m \in Nat /\ n \in Nat
    OBVIOUS
  <1>2. /\ Reverse(s) \in Seq(S) /\ Len(Reverse(s)) = m
        /\ \A i \in 1 .. m : Reverse(s)[i] = s[m - i + 1]
    BY DEF Reverse
  <1>3. /\ Reverse(t) \in Seq(S) /\ Len(Reverse(t)) = n
        /\ \A i \in 1 .. n : Reverse(t)[i] = t[n - i + 1]
    BY DEF Reverse
  <1>4. SubSeq(Reverse(s), 1, m) = Reverse(s)
    BY <1>2
  <1>5. CASE m <= n
    <2>1. /\ SubSeq(Reverse(t), 1, m) \in Seq(S) /\ Len(SubSeq(Reverse(t), 1, m)) = m
          /\ \A i \in 1 .. m : SubSeq(Reverse(t), 1, m)[i] = Reverse(t)[i]
      BY <1>1, <1>3, <1>5
    <2>2. IsSuffix(s, t) <=> \A i \in 1 .. m : Reverse(s)[i] = Reverse(t)[i]
      BY <1>2, <1>3, <1>4, <1>5, <2>1, SeqEqual DEF IsSuffix, IsPrefix
    <2>3. ASSUME \A i \in 1 .. m : Reverse(s)[i] = Reverse(t)[i], NEW i \in 1 .. m
          PROVE  t[n - m + i] = s[i]
      <3>1. PICK j \in 1 .. m : j \in 1 .. n /\ m - j + 1 = i /\ n - j + 1 = n - m + i
        <4> WITNESS m - i + 1 \in 1 .. m
        <4> QED
          BY <1>1, <1>5
      <3>2. Reverse(s)[j] = Reverse(t)[j]
        BY <2>3
      <3> QED
        BY <1>2, <1>3, <3>1, <3>2
    <2>4. ASSUME \A i \in 1 .. m : t[n - m + i] = s[i], NEW i \in 1 .. m
          PROVE  Reverse(s)[i] = Reverse(t)[i]
      <3>1. m - i + 1 \in 1 .. m /\ i \in 1 .. n
        BY <1>1, <1>5
      <3>2. t[n - m + (m - i + 1)] = s[m - i + 1]
        BY <2>4, <3>1
      <3>3. n - m + (m - i + 1) = n - i + 1
        BY <1>1
      <3> QED
        BY <1>2, <1>3, <3>1, <3>2, <3>3
    <2> QED
      BY <1>5, <2>2, <2>3, <2>4
  <1>6. CASE ~(m <= n)
    BY <1>2, <1>3, <1>6 DEF IsSuffix, IsPrefix
  <1> QED
    BY <1>5, <1>6

\* One token is a name.
LEMMA OneToken ==
    ASSUME NEW S, NEW x \in S
    PROVE  <<x>> \in Seq(S) /\ Len(<<x>>) = 1
  OBVIOUS

\* To end in the dot and the apex is to be a subdomain.
LEMMA SubdomainEnds ==
    ASSUME NEW name \in Seq(Words), NEW apex \in Seq(Words)
    PROVE  isSubdomain(name, apex) <=> IsSuffix(<<".">> \o apex, name)
  <1> DEFINE s == <<".">> \o apex
             m == Len(s)
             n == Len(name)
  <1>1. s \in Seq(Words) /\ m \in Nat /\ m >= 1 /\ n \in Nat
    <2>1. <<".">> \in Seq(Words) /\ Len(<<".">>) = 1
      BY OneToken DEF Words
    <2>2. s \in Seq(Words) /\ m = Len(<<".">>) + Len(apex)
      BY <2>1, ConcatProperties
    <2> QED
      BY <2>1, <2>2
  <1> HIDE DEF s
  <1>2. ASSUME NEW k \in 0 .. n - 1
        PROVE  /\ SubSeq(name, k + 1, n) \in Seq(Words)
               /\ Len(SubSeq(name, k + 1, n)) = n - k
               /\ \A i \in 1 .. n - k : SubSeq(name, k + 1, n)[i] = name[k + i]
    <2>1. \A i \in 1 .. n - k : (k + 1) + i - 1 = k + i /\ k + i \in 1 .. n
      BY <1>1
    <2>2. (k + 1) \in 1 .. n /\ n - (k + 1) + 1 = n - k
      BY <1>1
    <2> QED
      BY <1>1, <2>1, <2>2, SubSeqProperties
  <1>3. ASSUME isSubdomain(name, apex) PROVE IsSuffix(s, name)
    <2>1. PICK k \in 0 .. n - 1 : SubSeq(name, k + 1, n) = s
      BY <1>3 DEF isSubdomain, s
    <2>2. m = n - k /\ m <= n /\ k = n - m
      BY <1>1, <1>2, <2>1
    <2>3. \A i \in 1 .. m : name[n - m + i] = s[i]
      BY <1>2, <2>1, <2>2
    <2> QED
      BY <1>1, <2>2, <2>3, SuffixByElement
  <1>4. ASSUME IsSuffix(s, name) PROVE isSubdomain(name, apex)
    <2>1. m <= n /\ \A i \in 1 .. m : name[n - m + i] = s[i]
      BY <1>1, <1>4, SuffixByElement
    <2> DEFINE k == n - m
    <2>2. k \in 0 .. n - 1 /\ n - k = m
      BY <1>1, <2>1
    <2>3. SubSeq(name, k + 1, n) = s
      BY <1>1, <1>2, <2>1, <2>2, SeqEqual
    <2> QED
      BY <2>2, <2>3 DEF isSubdomain, s
  <1> QED
    BY <1>3, <1>4 DEF s

\* After its star, a wildcard has the dot and the apex.
LEMMA WildcardRest ==
    ASSUME NEW w \in Seq(Words), IsPrefix(<<"*", ".">>, w)
    PROVE  /\ Len(w) \in Nat /\ Len(w) >= 2
           /\ SubSeq(w, 3, Len(w)) \in Seq(Words)
           /\ SubSeq(w, 2, Len(w)) = <<".">> \o SubSeq(w, 3, Len(w))
           /\ Tail(w) = SubSeq(w, 2, Len(w)) /\ Tail(w) \in Seq(Words)
  <1> DEFINE n == Len(w)
  <1>1. n \in Nat
    OBVIOUS
  <1>2. Len(<<"*", ".">>) <= n /\ SubSeq(<<"*", ".">>, 1, Len(<<"*", ".">>)) =
                                 SubSeq(w, 1, Len(<<"*", ".">>))
    BY DEF IsPrefix
  <1>3. 2 <= n /\ SubSeq(w, 1, 2) = SubSeq(<<"*", ".">>, 1, 2)
    BY <1>2
  <1>4. SubSeq(w, 1, 2)[2] = w[2]
    BY <1>1, <1>3, SubSeqProperties
  <1>5. w[2] = "."
    BY <1>3, <1>4
  <1>6. Tail(w) \in Seq(Words)
    BY <1>1, <1>3, EmptySeq, HeadTailProperties
  <1>7. Tail(w) = SubSeq(w, 2, n)
    BY <1>1, <1>3, TailIsSubSeq, EmptySeq
  <1>8. SubSeq(w, 2, n) = <<w[2]>> \o SubSeq(w, 2 + 1, n)
    BY <1>1, <1>3, SubSeqRecursiveFirst
  <1>9. SubSeq(w, 3, n) \in Seq(Words)
    BY <1>1, <1>3
  <1> QED
    BY <1>1, <1>3, <1>5, <1>6, <1>7, <1>8, <1>9

\* What the list keeps of a wildcard is the dot and the apex.
LEMMA SuffixKept ==
    ASSUME NEW h \in Written, IsPrefix(<<"*", ".">>, h.tokens)
    PROVE  /\ suffixOf(h).tokens = <<".">> \o SubSeq(h.tokens, 3, Len(h.tokens))
           /\ SubSeq(h.tokens, 3, Len(h.tokens)) \in Seq(Words)
           /\ suffixOf(h).port = h.port /\ suffixOf(h).blank = h.blank
  <1> DEFINE w == h.tokens
             q == [h EXCEPT !.tokens = Tail(w)]
  <1>1. w \in Seq(Words)
    BY DEF Written
  <1>2. suffixOf(h) = ToLower(q)
    BY DEF suffixOf
  <1> HIDE DEF w
  <1>3. /\ Tail(w) \in Seq(Words)
        /\ Tail(w) = <<".">> \o SubSeq(w, 3, Len(w))
        /\ SubSeq(w, 3, Len(w)) \in Seq(Words)
    BY <1>1, WildcardRest DEF w
  <1>4. q \in Written /\ q.tokens = Tail(w) /\ q.port = h.port /\ q.blank = h.blank
    BY <1>3, Cut
  <1> HIDE DEF q
  <1> QED
    BY <1>2, <1>3, <1>4, Lowered DEF w

-----------------------------------------------------------------------------
(* The allowlist and the policy.                                             *)

\* The default list has three names, none with a star.
LEMMA DefaultEntries ==
    ASSUME NEW h \in defaultAllowedHosts
    PROVE  /\ ~isEmpty(h) /\ h.tokens # <<"*">> /\ ~IsPrefix(<<"*", ".">>, h.tokens)
           /\ ~isStar(h) /\ ~isWildcard(h)
  <1>1. PICK x : h = Text(<<x>>) /\ x # "*"
    BY DEF defaultAllowedHosts, Loopback6
  <1>2. h.tokens = <<x>>
    BY <1>1 DEF Text
  <1>3. h.tokens # <<"*">>
    BY <1>1, <1>2
  <1>4. ~IsPrefix(<<"*", ".">>, h.tokens)
    BY <1>2 DEF IsPrefix
  <1>5. ~isStar(h)
    <2>1. Text(<<"*">>).tokens = <<"*">>
      BY DEF Text
    <2> QED
      BY <1>3, <2>1 DEF isStar
  <1>6. ~isEmpty(h)
    BY <1>2 DEF isEmpty
  <1> QED
    BY <1>3, <1>4, <1>5, <1>6 DEF isWildcard

\* The texts of the list that is in use.
LEMMA EntriesAreWritten ==
    ASSUME allowed \in AllowedHosts, NEW h \in entries
    PROVE  h \in Written
  BY HostAssumption, TextsAreWritten, DefaultsAreWritten DEF entries

\* A name in its normal form.
nameOf(v) == canon(v.tokens, fused(v))

\* What the allowlist says of a name, entry by entry.
admits(h, name) ==
    \/ isStar(h)
    \/ isWildcard(h) /\ HasSuffix(name, suffixOf(h))
    \/ ~isStar(h) /\ ~isWildcard(h) /\ name = normalizeHostname(h)

\* The allowlist allows what one of its entries admits.
LEMMA AllowsByEntry ==
    ASSUME NEW name
    PROVE  allows(newHostAllowlist(allowed), name) <=> \E h \in entries : admits(h, name)
  <1> DEFINE a == newHostAllowlist(allowed)
  <1>1. /\ a.allowAny <=> \E h \in entries : isStar(h)
        /\ a.suffixes = {suffixOf(h) : h \in {e \in entries : isWildcard(e)}}
        /\ a.exact = {normalizeHostname(h) : h \in {e \in entries : ~isStar(e) /\ ~isWildcard(e)}}
    BY DEF newHostAllowlist, entries
  <1> HIDE DEF a
  <1>2. allows(a, name) <=> \/ \E h \in entries : isStar(h)
                            \/ \E h \in entries : ~isStar(h) /\ ~isWildcard(h) /\ name = normalizeHostname(h)
                            \/ \E h \in entries : isWildcard(h) /\ HasSuffix(name, suffixOf(h))
    BY <1>1 DEF allows
  <1> QED
    BY <1>2 DEF a, admits

\* A wildcard admits what ends in its apex and the dot.
LEMMA WildcardAdmits ==
    ASSUME NEW h \in Written, isWildcard(h), NEW v \in Written
    PROVE  LET apex == SubSeq(h.tokens, 3, Len(h.tokens))
           IN  /\ HasSuffix(nameOf(v), suffixOf(h)) => isSubdomain(v.tokens, apex)
               /\ ~h.port /\ h.blank = "none" /\ isSubdomain(v.tokens, apex)
                    => HasSuffix(nameOf(v), suffixOf(h))
  <1> DEFINE apex == SubSeq(h.tokens, 3, Len(h.tokens))
             s == suffixOf(h)
             c == nameOf(v)
  <1>1. IsPrefix(<<"*", ".">>, h.tokens)
    BY DEF isWildcard
  <1>2. /\ s.tokens = <<".">> \o apex /\ apex \in Seq(Words)
        /\ s.port = h.port /\ s.blank = h.blank
    BY <1>1, SuffixKept
  <1>3. v.tokens \in Seq(Words) /\ fused(v) \in BOOLEAN /\ h.port \in BOOLEAN
    BY DEF Written, fused
  <1>4. c.tokens = v.tokens /\ c.port = fused(v) /\ c.blank = "none"
    BY <1>3, CanonFields DEF nameOf
  <1> HIDE DEF apex, s, c
  <1>5. isSubdomain(v.tokens, apex) <=> IsSuffix(s.tokens, c.tokens)
    BY <1>2, <1>3, <1>4, SubdomainEnds
  <1>6. isSubdomain(v.tokens, apex) => fused(v) = FALSE
    <2>1. ASSUME isSubdomain(v.tokens, apex), v.tokens = Loopback6 PROVE FALSE
      <3>1. PICK k \in 0 .. Len(v.tokens) - 1 :
               SubSeq(v.tokens, k + 1, Len(v.tokens)) = <<".">> \o apex
        BY <2>1 DEF isSubdomain
      <3>2. Len(v.tokens) = 1 /\ v.tokens[1] = "::1"
        BY <2>1 DEF Loopback6
      <3>3. k = 0
        BY <3>2
      <3>4. SubSeq(v.tokens, 1, 1) = <<".">> \o apex
        BY <3>1, <3>2, <3>3
      <3>5. SubSeq(v.tokens, 1, 1)[1] = v.tokens[1]
        BY <1>3, <3>2, SubSeqProperties
      <3>6. (<<".">> \o apex)[1] = "."
        BY <1>2
      <3> QED
        BY <3>2, <3>4, <3>5, <3>6
    <2> QED
      BY <2>1 DEF fused, wellFormed
  <1>7. HasSuffix(c, s) => isSubdomain(v.tokens, apex)
    BY <1>5 DEF HasSuffix
  <1>8. ~h.port /\ h.blank = "none" /\ isSubdomain(v.tokens, apex) => HasSuffix(c, s)
    BY <1>2, <1>3, <1>4, <1>5, <1>6 DEF HasSuffix
  <1> QED
    BY <1>7, <1>8 DEF apex, s, c

\* Whatever an entry admits, the policy covers.
LEMMA AdmittedIsCovered ==
    ASSUME NEW h \in Written, NEW v \in Written, admits(h, nameOf(v))
    PROVE  covers(h, v)
  <1>1. CASE isStar(h)
    <2>1. h.tokens = <<"*">>
      BY <1>1 DEF isStar, Text
    <2> QED
      BY <2>1 DEF covers
  <1>2. CASE isWildcard(h) /\ HasSuffix(nameOf(v), suffixOf(h))
    BY <1>2, WildcardAdmits DEF covers, isWildcard
  <1>3. CASE nameOf(v) = normalizeHostname(h)
    <2>1. nameOf(v) = nameOf(h)
      BY <1>3, Normalized DEF nameOf
    <2>2. /\ v.tokens \in Seq(Words) /\ h.tokens \in Seq(Words)
          /\ fused(v) \in BOOLEAN /\ fused(h) \in BOOLEAN
      BY DEF Written, fused
    <2>3. v.tokens = h.tokens /\ fused(v) = fused(h)
      BY <2>1, <2>2, SameName DEF nameOf
    <2>4. wellFormed(h) <=> wellFormed(v)
      BY <2>3 DEF fused
    <2> QED
      BY <2>3, <2>4 DEF covers
  <1> QED
    BY <1>1, <1>2, <1>3 DEF admits

\* An entry that looks like a star or a wildcard is one.
usable(h) ==
    /\ h.tokens = <<"*">> => isStar(h)
    /\ IsPrefix(<<"*", ".">>, h.tokens) => isWildcard(h) /\ ~h.port /\ h.blank = "none"

\* Whatever the policy covers by a usable entry, the entry admits.
LEMMA CoveredIsAdmitted ==
    ASSUME NEW h \in Written, NEW v \in Written, covers(h, v), usable(h)
    PROVE  admits(h, nameOf(v))
  <1>1. CASE h.tokens = <<"*">>
    BY <1>1 DEF usable, admits
  <1>2. CASE /\ IsPrefix(<<"*", ".">>, h.tokens)
             /\ isSubdomain(v.tokens, SubSeq(h.tokens, 3, Len(h.tokens)))
    BY <1>2, WildcardAdmits DEF usable, admits
  <1>3. CASE /\ h.tokens = v.tokens /\ (wellFormed(h) <=> wellFormed(v))
             /\ ~IsPrefix(<<"*", ".">>, h.tokens)
    <2>1. nameOf(v) = normalizeHostname(h)
      <3>1. fused(h) = fused(v)
        BY <1>3 DEF fused
      <3> QED
        BY <1>3, <3>1, Normalized DEF nameOf
    <2>2. ~isWildcard(h)
      BY <1>3 DEF isWildcard
    <2> QED
      BY <2>1, <2>2 DEF admits
  <1>4. CASE /\ h.tokens = v.tokens /\ IsPrefix(<<"*", ".">>, h.tokens)
    <2>1. isSubdomain(v.tokens, SubSeq(h.tokens, 3, Len(h.tokens)))
      <3> DEFINE apex == SubSeq(h.tokens, 3, Len(h.tokens))
                 n == Len(v.tokens)
      <3>1. v.tokens \in Seq(Words)
        BY DEF Written
      <3>2. n \in Nat /\ n >= 2 /\ SubSeq(v.tokens, 2, n) = <<".">> \o apex
        BY <1>4, <3>1, WildcardRest
      <3>3. 1 \in 0 .. n - 1 /\ 1 + 1 = 2
        BY <3>2
      <3> QED
        BY <3>2, <3>3 DEF isSubdomain
    <2> QED
      BY <1>4, <2>1, WildcardAdmits DEF usable, admits
  <1> QED
    BY <1>1, <1>2, <1>3, <1>4 DEF covers

\* Written as documented and let through by the validation, an entry is usable.
LEMMA ValidIsUsable ==
    ASSUME NEW h \in Written, validAllowedHost(h), plainlyWritten(h)
    PROVE  usable(h)
  <1> DEFINE w == h.tokens
             t == TrimSpace(h)
  <1>1. w \in Seq(Words)
    BY DEF Written
  <1>2. /\ t \in Written /\ t.tokens = w /\ t.blank = "none"
        /\ t.brackets = h.brackets /\ t.port = h.port /\ t.upper = h.upper
    BY Trimmed
  <1>3. ASSUME h.blank = "none" PROVE t = h
    <2> HIDE DEF t
    <2> QED
      BY <1>2, <1>3, SameText
  <1>4. Contains(w, "*") => t = Text(<<"*">>) \/ isWildcard(t)
    BY DEF validAllowedHost
  <1>5. Head(w) = "*" => h.blank = "none" /\ ~h.port
    BY DEF plainlyWritten
  <1> HIDE DEF t, w
  <1>6. ASSUME w = <<"*">> PROVE isStar(h)
    <2>1. Len(w) = 1 /\ w[1] = "*" /\ Head(w) = "*"
      BY <1>6
    <2>2. Contains(w, "*")
      BY <2>1 DEF Contains
    <2>3. ~isWildcard(t)
      BY <1>2, <1>6 DEF isWildcard, IsPrefix
    <2> QED
      BY <1>3, <1>4, <1>5, <2>1, <2>2, <2>3 DEF isStar
  <1>7. ASSUME IsPrefix(<<"*", ".">>, w) PROVE isWildcard(h) /\ ~h.port /\ h.blank = "none"
    <2>1. Len(<<"*", ".">>) <= Len(w) /\ SubSeq(<<"*", ".">>, 1, Len(<<"*", ".">>)) =
                                        SubSeq(w, 1, Len(<<"*", ".">>))
      BY <1>7 DEF IsPrefix
    <2>2. Len(w) \in Nat /\ 2 <= Len(w) /\ SubSeq(w, 1, 2) = SubSeq(<<"*", ".">>, 1, 2)
      BY <1>1, <2>1
    <2>3. SubSeq(w, 1, 2)[1] = w[1]
      BY <1>1, <2>2, SubSeqProperties
    <2>4. w[1] = "*"
      BY <2>2, <2>3
    <2>5. Contains(w, "*") /\ Head(w) = "*"
      BY <2>2, <2>4 DEF Contains
    <2>6. t # Text(<<"*">>)
      <3>1. Text(<<"*">>).tokens = <<"*">> /\ Len(<<"*">>) = 1
        BY DEF Text
      <3> QED
        BY <1>2, <2>2, <3>1
    <2> QED
      BY <1>3, <1>4, <1>5, <2>5, <2>6
  <1> QED
    BY <1>6, <1>7 DEF usable, w

\* So are the default entries.
LEMMA DefaultIsUsable ==
    ASSUME NEW h \in defaultAllowedHosts
    PROVE  usable(h)
  BY DefaultEntries DEF usable

\* The allowlist against the policy, for one name.
LEMMA ListIsPolicy ==
    ASSUME allowed \in AllowedHosts, NEW v \in Written
    PROVE  /\ allows(newHostAllowlist(allowed), nameOf(v)) => policyAllows(v)
           /\ (\A h \in entries : usable(h)) =>
                (policyAllows(v) => allows(newHostAllowlist(allowed), nameOf(v)))
  <1>1. \A h \in entries : h \in Written
    BY EntriesAreWritten
  <1> QED
    BY <1>1, AllowsByEntry, AdmittedIsCovered, CoveredIsAdmitted DEF policyAllows

\* The check against the policy, for the headers of one request.
LEMMA CheckIsPolicy ==
    ASSUME allowed \in AllowedHosts, headers \in HeaderMaps
    PROVE  LET ok == checkHeaders(newHostAllowlist(allowed), headers)
           IN  /\ ok => PolicyVerdict
               /\ (\A h \in entries : usable(h)) => (PolicyVerdict => ok)
  <1> DEFINE a == newHostAllowlist(allowed)
             host == hostHeader
             o == headers.origin
             named == Text(o.host.tokens)
  <1>1. /\ host \in Texts \cup {Absent}
        /\ o \in Origins
    BY HostAssumption DEF hostHeader
  <1>2. checkHeaders(a, headers) <=>
           /\ host # Absent /\ ~isEmpty(host)
           /\ allows(a, normalizeHostname(host))
           /\ originAllowed(a, o)
    BY DEF checkHeaders, hostHeader
  <1>3. PolicyVerdict <=>
           /\ host # Absent /\ ~isEmpty(host)
           /\ policyAllows(host)
           /\ o # Absent => o.url /\ o.host.tokens # <<>> /\ policyAllows(named)
    BY DEF PolicyVerdict
  <1>4. originAllowed(a, o) <=>
           (o # Absent => o.url /\ o.host.tokens # <<>> /\ allows(a, ToLower(Hostname(o))))
    BY DEF originAllowed
  <1> HIDE DEF a, host, o
  <1>5. ASSUME host # Absent
        PROVE  /\ allows(a, normalizeHostname(host)) => policyAllows(host)
               /\ (\A h \in entries : usable(h)) =>
                    (policyAllows(host) => allows(a, normalizeHostname(host)))
    <2>1. host \in Written
      BY <1>1, <1>5, TextsAreWritten
    <2>2. normalizeHostname(host) = nameOf(host)
      BY <2>1, Normalized DEF nameOf
    <2> QED
      BY <2>1, <2>2, ListIsPolicy DEF a
  <1>6. ASSUME o # Absent
        PROVE  /\ allows(a, ToLower(Hostname(o))) => policyAllows(named)
               /\ (\A h \in entries : usable(h)) =>
                    (policyAllows(named) => allows(a, ToLower(Hostname(o))))
    <2>1. /\ ToLower(Hostname(o)) = canon(o.host.tokens, FALSE)
          /\ o.host.tokens \in Seq(Words)
      BY <1>1, <1>6, OriginName
    <2>2. named \in Written /\ named.tokens = o.host.tokens /\ ~named.port
      BY <2>1 DEF Text, Written
    <2>3. fused(named) = FALSE
      BY <2>2 DEF fused, wellFormed
    <2>4. ToLower(Hostname(o)) = nameOf(named)
      BY <2>1, <2>2, <2>3 DEF nameOf
    <2> QED
      BY <2>2, <2>4, ListIsPolicy DEF a
  <1>7. checkHeaders(a, headers) => PolicyVerdict
    BY <1>2, <1>3, <1>4, <1>5, <1>6
  <1>8. ASSUME \A h \in entries : usable(h), PolicyVerdict
        PROVE  checkHeaders(a, headers)
    <2>1. host # Absent /\ ~isEmpty(host) /\ allows(a, normalizeHostname(host))
      BY <1>3, <1>5, <1>8
    <2>2. CASE o = Absent
      BY <1>2, <1>4, <2>1, <2>2
    <2>3. CASE o # Absent
      <3>1. o.url /\ o.host.tokens # <<>> /\ policyAllows(named)
        BY <1>3, <1>8, <2>3
      <3>2. allows(a, ToLower(Hostname(o)))
        BY <1>6, <1>8, <2>3, <3>1
      <3> QED
        BY <1>2, <1>4, <2>1, <3>1, <3>2
    <2> QED
      BY <2>2, <2>3
  <1> QED
    BY <1>7, <1>8 DEF a

-----------------------------------------------------------------------------
(* The host check: the inductive invariant.                                  *)

\* A server that serves has valid entries and the list made of them, and the
\* verdict is the one on the headers that came last.
HInv ==
    /\ allowed \in AllowedHosts
    /\ server = "serving" => validate(allowed) /\ list = newHostAllowlist(allowed)
    /\ verdict \in BOOLEAN
    /\ \/ headers = NoHeaders /\ ~verdict
       \/ /\ headers \in HeaderMaps /\ server = "serving"
          /\ verdict <=> checkHeaders(list, headers)

\* The invariant holds in every reachable state.
LEMMA HostInvariance == HostSpec => []HInv
  <1>1. HostInit => HInv
    BY DEF HostInit, HInv
  <1>2. ASSUME HInv, [HostNext]_hostVars PROVE HInv'
    <2>1. CASE Configure
      BY <1>2, <2>1 DEF HInv, Configure
    <2>2. CASE CheckRequest
      <3>1. verdict' = checkHeaders(list', headers') /\ headers' \in HeaderMaps
        BY <2>2 DEF CheckRequest
      <3>2. verdict' \in BOOLEAN /\ (verdict' <=> checkHeaders(list', headers'))
        BY <3>1 DEF checkHeaders
      <3> QED
        BY <1>2, <2>2, <3>1, <3>2 DEF HInv, CheckRequest
    <2>3. CASE UNCHANGED hostVars
      BY <1>2, <2>3 DEF HInv, hostVars
    <2> QED
      BY <1>2, <2>1, <2>2, <2>3 DEF HostNext
  <1> QED
    BY <1>1, <1>2, PTL DEF HostSpec

\* Without headers the policy has nothing to allow.
LEMMA NothingWithoutHeaders ==
    ASSUME headers = NoHeaders
    PROVE  ~PolicyVerdict
  BY DEF NoHeaders, PolicyVerdict, hostHeader

-----------------------------------------------------------------------------
(* The host check: the theorems.                                             *)

\* checkHeaders never admits what the documented policy excludes, whatever entries
\* the validation has let through.
THEOREM NeverLax == HostSpec => []FailsClosed
  <1>1. ASSUME HInv PROVE FailsClosed
    BY <1>1, CheckIsPolicy DEF HInv, FailsClosed
  <1> QED
    BY <1>1, HostInvariance, PTL

\* With wildcards written as documented the verdict of checkHeaders is that of the
\* policy.
THEOREM ExactlyThePolicy == HostSpec => []VerdictIsPolicy
  <1>1. ASSUME HInv PROVE VerdictIsPolicy
    <2> SUFFICES ASSUME server = "serving", \A h \in allowed : plainlyWritten(h)
                 PROVE  verdict <=> PolicyVerdict
      BY <1>1 DEF VerdictIsPolicy, HInv, PolicyVerdict
    <2>1. ASSUME NEW h \in entries PROVE usable(h)
      <3>1. CASE h \in defaultAllowedHosts
        BY <3>1, DefaultIsUsable
      <3>2. CASE h \in allowed
        <4>1. validAllowedHost(h) /\ h \in Written
          BY <1>1, <3>2, EntriesAreWritten DEF HInv, validate
        <4> QED
          BY <3>2, <4>1, ValidIsUsable
      <3> QED
        BY <3>1, <3>2 DEF entries
    <2>2. CASE headers = NoHeaders /\ ~verdict
      BY <2>2, NothingWithoutHeaders
    <2>3. CASE headers \in HeaderMaps /\ (verdict <=> checkHeaders(list, headers))
      BY <1>1, <2>1, <2>3, CheckIsPolicy DEF HInv
    <2> QED
      BY <1>1, <2>2, <2>3 DEF HInv
  <1> QED
    BY <1>1, HostInvariance, PTL
-----------------------------------------------------------------------------
(* The life cycle: the inductive invariant.                                 *)

\* What a process knows by itself: a broken configuration is noticed before the
\* socket is touched, the listener is open from ListenUnix until someone closes
\* it, and the server stops only when ctx is done, and drains first.
Orderly(p) ==
    /\ p.pc = "load" => p.config # "invalid"
    /\ p.pc \in {"remove", "listen", "spawn", "serve", "accept", "wait"} => p.config = "good"
    /\ p.pc \in {"serve", "accept", "wait"} => p.stopper # "none"
    /\ p.pc \in {"spawn", "serve"} => p.listening
    /\ p.pc = "accept" => (p.listening <=> p.stopper \notin {"draining", "done"})
    /\ p.listening => p.pc \in {"spawn", "serve", "accept"}
    /\ p.stopper \in {"draining", "done"} => p.cancelled
    /\ p.stopper = "done" => p.streams = 0

\* A process that is meant to serve and was not told to stop.
contender(p) ==
    /\ p.pc \notin {"idle", "returned", "crashed"}
    /\ p.config = "good" /\ ~p.cancelled

\* There is at most one.
OneContender ==
    \A i, j \in Instances : contender(proc[i]) /\ contender(proc[j]) => i = j

\* A process about to listen that had the way to the socket for itself when it
\* removed the path.
clear(p) == p.pc = "listen" /\ ~p.cancelled /\ ~p.contested

\* It still has, and the path is free.
WayClear ==
    \A i \in Instances : clear(proc[i]) =>
        path = NoSocket /\ \A j \in Instances \ {i} : ~starting(proc[j])

\* A process that had the path for itself when it listened.
secure(p) == p.listening /\ ~p.cancelled /\ ~p.contested

\* It holds the path, and nobody else will unlink, remove or bind it.
SocketKept ==
    \A i \in Instances : secure(proc[i]) =>
        path = i /\ \A j \in Instances \ {i} : ~proc[j].listening /\ ~starting(proc[j])

\* The inductive invariant of the life cycle.
LInv ==
    /\ proc \in [Instances -> Processes]
    /\ path \in Instances \cup {NoSocket}
    /\ \A i \in Instances : Orderly(proc[i])
    /\ OneContender /\ WayClear /\ SocketKept

-----------------------------------------------------------------------------
(* Facts about one process.                                                 *)

\* A process that is neither at the socket nor on its way to it.
Away(p) == ~contender(p) /\ ~starting(p) /\ ~clear(p) /\ ~p.listening

\* A process that has not started is in order.
LEMMA FreshProcess == NotStarted \in Processes /\ Orderly(NotStarted) /\ Away(NotStarted)
  BY LifecycleAssumption
     DEF NotStarted, Processes, Configs, Orderly, Away, contender, starting, clear

\* What RunServer may return.
Results == {"none", "config", "socket", "inUse", "accept", "ErrServerStopped", "nil"}

\* A process that has returned is in order.
LEMMA ReturnedProcess ==
    ASSUME NEW r \in Results
    PROVE  LET p == [NotStarted EXCEPT !.pc = "returned", !.result = r]
           IN  p \in Processes /\ Orderly(p) /\ Away(p)
  <1> DEFINE p == [NotStarted EXCEPT !.pc = "returned", !.result = r]
  <1>1. p \in Processes
    BY FreshProcess DEF Processes, Results
  <1>2. /\ p.pc = "returned"
        /\ p.stopper = NotStarted.stopper /\ p.listening = NotStarted.listening
    BY FreshProcess DEF Processes
  <1>3. NotStarted.stopper = "none" /\ NotStarted.listening = FALSE
    BY DEF NotStarted
  <1> HIDE DEF p
  <1>4. Orderly(p) /\ Away(p)
    BY <1>2, <1>3 DEF Orderly, Away, contender, starting, clear
  <1> QED
    BY <1>1, <1>4 DEF p

\* So is one that was killed.
LEMMA CrashedProcess ==
    LET p == [NotStarted EXCEPT !.pc = "crashed"]
    IN  p \in Processes /\ Orderly(p) /\ Away(p)
  <1> DEFINE p == [NotStarted EXCEPT !.pc = "crashed"]
  <1>1. p \in Processes
    BY FreshProcess DEF Processes
  <1>2. /\ p.pc = "crashed"
        /\ p.stopper = NotStarted.stopper /\ p.listening = NotStarted.listening
    BY FreshProcess DEF Processes
  <1>3. NotStarted.stopper = "none" /\ NotStarted.listening = FALSE
    BY DEF NotStarted
  <1> HIDE DEF p
  <1>4. Orderly(p) /\ Away(p)
    BY <1>2, <1>3 DEF Orderly, Away, contender, starting, clear
  <1> QED
    BY <1>1, <1>4 DEF p

\* Whoever has the way or the path for itself is the one meant to serve.
LEMMA OwnersContend ==
    ASSUME LInv, NEW i \in Instances, clear(proc[i]) \/ secure(proc[i])
    PROVE  contender(proc[i])
  BY DEF LInv, clear, secure, contender, Orderly

\* Nothing has started and there is no socket.
LEMMA InitLInv == LifecycleInit => LInv
  BY FreshProcess, LifecycleAssumption
     DEF LifecycleInit, LInv, OneContender, WayClear, SocketKept, secure, Away

-----------------------------------------------------------------------------
\* What a step of process i must show, of all but ListenUnix: the path changes only
\* when i closes its listener or removes the socket on its way to it, and a process
\* that sets out or finds the way clear has no rival.
LEMMA StepOf ==
    ASSUME LInv, NEW i \in Instances, NEW p \in Processes,
           proc' = [proc EXCEPT ![i] = p],
           Orderly(p),
           contender(p) => contender(proc[i]) \/ \A j \in Instances \ {i} : ~contender(proc[j]),
           starting(p) => starting(proc[i]) \/ \A j \in Instances \ {i} : ~contender(proc[j]),
           p.listening => proc[i].listening,
           clear(p) => \/ clear(proc[i])
                       \/ path' = NoSocket /\ \A j \in Instances \ {i} : ~starting(proc[j]),
           \/ path' = path /\ (secure(p) => secure(proc[i]))
           \/ path' = NoSocket /\ ~secure(p) /\ (proc[i].listening \/ starting(proc[i]))
    PROVE  LInv'
  <1>1. proc' \in [Instances -> Processes] /\ path' \in Instances \cup {NoSocket}
    BY DEF LInv
  <1>2. proc'[i] = p /\ \A j \in Instances \ {i} : proc'[j] = proc[j]
    BY DEF LInv
  <1>3. \A j \in Instances : Orderly(proc'[j])
    BY <1>2 DEF LInv
  <1>4. OneContender'
    BY <1>2 DEF LInv, OneContender
  <1>5. \A j \in Instances : clear(proc[j]) \/ secure(proc[j]) => contender(proc[j])
    BY OwnersContend
  <1>6. WayClear'
    <2> SUFFICES ASSUME NEW k \in Instances, clear(proc'[k])
                 PROVE  path' = NoSocket /\ \A j \in Instances \ {k} : ~starting(proc'[j])
      BY DEF WayClear
    <2>1. CASE k = i
      BY <1>2, <2>1 DEF LInv, WayClear
    <2>2. CASE k # i
      BY <1>2, <1>5, <2>2 DEF LInv, WayClear
    <2> QED
      BY <2>1, <2>2
  <1>7. SocketKept'
    <2> SUFFICES ASSUME NEW k \in Instances, secure(proc'[k])
                 PROVE  path' = k /\ \A j \in Instances \ {k} :
                                        ~proc'[j].listening /\ ~starting(proc'[j])
      BY DEF SocketKept
    <2>1. CASE k = i
      BY <1>2, <2>1 DEF LInv, SocketKept
    <2>2. CASE k # i
      BY <1>2, <1>5, <2>2 DEF LInv, SocketKept
    <2> QED
      BY <2>1, <2>2
  <1> QED
    BY <1>1, <1>3, <1>4, <1>6, <1>7 DEF LInv

\* From p to q a process sets out for nothing that it had not set out for before.
Quiet(p, q) ==
    /\ contender(q) => contender(p)
    /\ starting(q) => starting(p)
    /\ q.listening => p.listening
    /\ clear(q) => clear(p)
    /\ secure(q) => secure(p)

\* Such a step keeps the invariant if it leaves the path alone.
LEMMA QuietStep ==
    ASSUME LInv, NEW i \in Instances, NEW p \in Processes,
           proc' = [proc EXCEPT ![i] = p], path' = path, Orderly(p), Quiet(proc[i], p)
    PROVE  LInv'
  BY StepOf DEF Quiet

\* The end of a process closes its listener, if it was not killed.
LEMMA EndStep ==
    ASSUME LInv, NEW i \in Instances, NEW p \in Processes,
           proc' = [proc EXCEPT ![i] = p], Orderly(p), Away(p),
           path' = path \/ (path' = NoSocket /\ proc[i].listening)
    PROVE  LInv'
  BY StepOf DEF Away, secure

\* The return of RunServer closes the listener and leaves an ended process.
LEMMA ReturnLInv ==
    ASSUME LInv, NEW i \in Instances, NEW r \in Results, Return(i, r)
    PROVE  LInv'
  <1> DEFINE p == [NotStarted EXCEPT !.pc = "returned", !.result = r]
  <1>1. p \in Processes /\ Orderly(p) /\ Away(p)
    BY ReturnedProcess
  <1>2. proc' = [proc EXCEPT ![i] = p] /\ path' = pathAfterClose(i)
    BY DEF Return
  <1> HIDE DEF p
  <1> QED
    BY <1>1, <1>2, EndStep DEF pathAfterClose

\* A step that only moves process i on.
LEMMA GoLInv ==
    ASSUME LInv, NEW i \in Instances,
           NEW s \in {"load", "remove", "accept", "wait"}, Go(i, s),
           Orderly([proc[i] EXCEPT !.pc = s]),
           ~at(i, "idle") /\ ~ended(i),
           s \in {"load", "remove"} => at(i, "validate") \/ at(i, "load")
    PROVE  LInv'
  <1> DEFINE p == [proc[i] EXCEPT !.pc = s]
  <1>1. proc' = [proc EXCEPT ![i] = p] /\ path' = path
    BY DEF Go
  <1>2. p \in Processes
    BY DEF LInv, Processes
  <1>3. /\ p.pc = s /\ p.config = proc[i].config /\ p.cancelled = proc[i].cancelled
        /\ p.listening = proc[i].listening /\ p.contested = proc[i].contested
    BY DEF LInv, Processes
  <1>4. Orderly(p)
    OBVIOUS
  <1> HIDE DEF p
  <1>5. Quiet(proc[i], p)
    BY <1>3 DEF Quiet, contender, starting, clear, secure, at, ended
  <1> QED
    BY <1>1, <1>2, <1>4, <1>5, QuietStep

-----------------------------------------------------------------------------
(* One lemma per action.                                                    *)

\* Start keeps the invariant.
LEMMA StartLInv ==
    ASSUME LInv, NEW i \in Instances, Start(i)
    PROVE  LInv'
  <1>1. PICK c \in Configs :
          /\ c = "good" => \A j \in Instances \ {i} :
                running(j) => proc[j].cancelled \/ proc[j].config # "good"
          /\ proc' = [proc EXCEPT ![i].pc = "validate", ![i].config = c]
    BY DEF Start
  <1> DEFINE p == [proc[i] EXCEPT !.pc = "validate", !.config = c]
  <1>2. proc' = [proc EXCEPT ![i] = p] /\ path' = path
    BY <1>1 DEF Start, LInv
  <1>3. p \in Processes
    BY DEF LInv, Processes
  <1>4. Orderly(p)
    BY DEF Start, LInv, Processes, Orderly, at
  <1>5. p.pc = "validate" /\ p.config = c /\ p.listening = proc[i].listening
    BY DEF LInv, Processes
  <1>6. proc[i].listening = FALSE
    BY DEF Start, LInv, Processes, Orderly, at
  <1> HIDE DEF p
  <1>7. contender(p) \/ starting(p) => \A j \in Instances \ {i} : ~contender(proc[j])
    BY <1>1, <1>5 DEF contender, starting, running, ended, at
  <1>8. ~clear(p) /\ ~secure(p) /\ ~p.listening
    BY <1>5, <1>6 DEF clear, secure
  <1> QED
    BY <1>2, <1>3, <1>4, <1>7, <1>8, StepOf

\* Cancel keeps the invariant.
LEMMA CancelLInv ==
    ASSUME LInv, NEW i \in Instances, Cancel(i)
    PROVE  LInv'
  <1> DEFINE p == [proc[i] EXCEPT !.cancelled = TRUE]
  <1>1. proc' = [proc EXCEPT ![i] = p] /\ path' = path
    BY DEF Cancel, LInv
  <1>2. p \in Processes
    BY DEF LInv, Processes
  <1>3. Orderly(p)
    BY DEF LInv, Processes, Orderly
  <1>4. Quiet(proc[i], p)
    BY DEF LInv, Processes, Quiet, contender, starting, clear, secure
  <1> QED
    BY <1>1, <1>2, <1>3, <1>4, QuietStep

\* Crash keeps the invariant.
LEMMA CrashLInv ==
    ASSUME LInv, NEW i \in Instances, Crash(i)
    PROVE  LInv'
  <1> DEFINE p == [NotStarted EXCEPT !.pc = "crashed"]
  <1>1. proc' = [proc EXCEPT ![i] = p] /\ path' = path
    BY DEF Crash
  <1>2. p \in Processes /\ Orderly(p) /\ Away(p)
    BY CrashedProcess
  <1> HIDE DEF p
  <1> QED
    BY <1>1, <1>2, EndStep

\* Validate keeps the invariant.
LEMMA ValidateLInv ==
    ASSUME LInv, NEW i \in Instances, Validate(i)
    PROVE  LInv'
  <1>1. CASE proc[i].config = "invalid"
    BY <1>1, ReturnLInv DEF Validate, Results
  <1>2. CASE ~(proc[i].config = "invalid")
    <2>1. Orderly([proc[i] EXCEPT !.pc = "load"])
      BY <1>2 DEF Validate, LInv, Processes, Configs, Orderly, at, quit
    <2> QED
      BY <1>2, <2>1, GoLInv DEF Validate, at, ended
  <1> QED
    BY <1>1, <1>2

\* LoadTools keeps the invariant.
LEMMA LoadToolsLInv ==
    ASSUME LInv, NEW i \in Instances, LoadTools(i)
    PROVE  LInv'
  <1>1. CASE proc[i].config = "unloadable"
    BY <1>1, ReturnLInv DEF LoadTools, Results
  <1>2. CASE ~(proc[i].config = "unloadable")
    <2>1. Orderly([proc[i] EXCEPT !.pc = "remove"])
      BY <1>2 DEF LoadTools, LInv, Processes, Configs, Orderly, at, quit
    <2> QED
      BY <1>2, <2>1, GoLInv DEF LoadTools, at, ended
  <1> QED
    BY <1>1, <1>2

\* RemoveSocket keeps the invariant.
LEMMA RemoveSocketLInv ==
    ASSUME LInv, NEW i \in Instances, RemoveSocket(i)
    PROVE  LInv'
  <1> DEFINE e == \E j \in Instances \ {i} : starting(proc[j])
             p == [proc[i] EXCEPT !.pc = "listen", !.contested = e]
  <1>1. CASE path' = NoSocket /\ proc' = [proc EXCEPT ![i] = p]
    <2>1. e \in BOOLEAN
      OBVIOUS
    <2>2. clear(p) => \A j \in Instances \ {i} : ~starting(proc[j])
      BY DEF LInv, Processes, clear
    <2> HIDE DEF e
    <2>3. p \in Processes
      BY <2>1 DEF LInv, Processes
    <2>4. Orderly(p) /\ ~p.listening
      BY DEF RemoveSocket, LInv, Processes, Orderly, at
    <2>5. contender(proc[i]) <=> contender(p)
      BY DEF RemoveSocket, LInv, Processes, at, contender
    <2>6. starting(proc[i])
      BY DEF RemoveSocket, LInv, Orderly, at, starting
    <2> HIDE DEF p
    <2>7. ~secure(p)
      BY <2>4 DEF secure
    <2> QED
      BY <1>1, <2>2, <2>3, <2>4, <2>5, <2>6, <2>7, StepOf
  <1>2. CASE Return(i, "socket")
    BY <1>2, ReturnLInv DEF Results
  <1>3. \/ path' = NoSocket /\ proc' = [proc EXCEPT ![i] = p]
        \/ Return(i, "socket")
    BY DEF RemoveSocket, LInv
  <1> QED
    BY <1>1, <1>2, <1>3

\* ListenUnix keeps the invariant.
LEMMA ListenUnixLInv ==
    ASSUME LInv, NEW i \in Instances, ListenUnix(i)
    PROVE  LInv'
  <1> DEFINE e == \E j \in Instances \ {i} : starting(proc[j]) \/ proc[j].listening
             p == [proc[i] EXCEPT !.pc = "spawn", !.listening = TRUE, !.contested = e]
  <1>1. CASE path # NoSocket
    BY <1>1, ReturnLInv DEF ListenUnix, Results
  <1>2. CASE path = NoSocket
    <2>1. proc' = [proc EXCEPT ![i] = p] /\ path' = i
      BY <1>2 DEF ListenUnix, LInv
    <2>2. secure(p) => \A j \in Instances \ {i} : ~starting(proc[j]) /\ ~proc[j].listening
      BY DEF LInv, Processes, secure
    <2>3. e \in BOOLEAN
      OBVIOUS
    <2> HIDE DEF e
    <2>4. p \in Processes
      BY <2>3 DEF LInv, Processes
    <2>5. Orderly(p) /\ ~clear(p) /\ ~starting(p) /\ p.pc # "listen"
      BY DEF ListenUnix, LInv, Processes, Orderly, at, clear, starting
    <2>6. contender(p) => contender(proc[i])
      BY DEF ListenUnix, LInv, Processes, Orderly, at, contender
    <2>7. starting(proc[i])
      BY DEF ListenUnix, LInv, Orderly, at, starting
    <2> HIDE DEF p
    <2>8. proc'[i] = p /\ \A j \in Instances \ {i} : proc'[j] = proc[j]
      BY <2>1 DEF LInv
    <2>9. proc' \in [Instances -> Processes] /\ path' \in Instances \cup {NoSocket}
      BY <2>1, <2>4 DEF LInv
    <2>10. \A j \in Instances : Orderly(proc'[j])
      BY <2>5, <2>8 DEF LInv
    <2>11. OneContender'
      BY <2>6, <2>8 DEF LInv, OneContender
    <2>12. \A j \in Instances \ {i} : ~clear(proc[j]) /\ ~secure(proc[j])
      BY <2>7 DEF LInv, WayClear, SocketKept
    <2>13. WayClear'
      BY <2>5, <2>8, <2>12 DEF WayClear
    <2>14. SocketKept'
      BY <2>1, <2>2, <2>8, <2>12 DEF SocketKept
    <2> QED
      BY <2>9, <2>10, <2>11, <2>13, <2>14 DEF LInv
  <1> QED
    BY <1>1, <1>2

\* SpawnStopper keeps the invariant.
LEMMA SpawnStopperLInv ==
    ASSUME LInv, NEW i \in Instances, SpawnStopper(i)
    PROVE  LInv'
  <1> DEFINE p == [proc[i] EXCEPT !.pc = "serve", !.stopper = "waiting"]
  <1>1. proc' = [proc EXCEPT ![i] = p] /\ path' = path
    BY DEF SpawnStopper, LInv
  <1>2. p \in Processes
    BY LifecycleAssumption DEF SpawnStopper, LInv, Processes, at
  <1>3. Orderly(p)
    BY DEF SpawnStopper, LInv, Processes, Orderly, at, quit, running, ended
  <1>4. Quiet(proc[i], p)
    BY DEF SpawnStopper, LInv, Processes, at, Quiet, contender, starting, clear, secure
  <1> QED
    BY <1>1, <1>2, <1>3, <1>4, QuietStep

\* Serve keeps the invariant.
LEMMA ServeLInv ==
    ASSUME LInv, NEW i \in Instances, Serve(i)
    PROVE  LInv'
  <1>1. CASE quit(i)
    BY <1>1, ReturnLInv DEF Serve, Results
  <1>2. CASE ~(quit(i))
    <2>1. Orderly([proc[i] EXCEPT !.pc = "accept"])
      BY <1>2 DEF Serve, LInv, Processes, Configs, Orderly, at, quit
    <2> QED
      BY <1>2, <2>1, GoLInv DEF Serve, at, ended
  <1> QED
    BY <1>1, <1>2

\* AcceptEnds keeps the invariant.
LEMMA AcceptEndsLInv ==
    ASSUME LInv, NEW i \in Instances, AcceptEnds(i)
    PROVE  LInv'
  <1>1. CASE ~quit(i)
    BY <1>1, ReturnLInv DEF AcceptEnds, Results
  <1>2. CASE quit(i)
    <2>1. Orderly([proc[i] EXCEPT !.pc = "wait"])
      BY <1>2 DEF AcceptEnds, LInv, Processes, Orderly, at, quit
    <2> QED
      BY <1>2, <2>1, GoLInv DEF AcceptEnds, at, ended
  <1> QED
    BY <1>1, <1>2

\* ServeReturns keeps the invariant.
LEMMA ServeReturnsLInv ==
    ASSUME LInv, NEW i \in Instances, ServeReturns(i)
    PROVE  LInv'
  BY ReturnLInv DEF ServeReturns, Results

\* GracefulStop keeps the invariant.
LEMMA GracefulStopLInv ==
    ASSUME LInv, NEW i \in Instances, GracefulStop(i)
    PROVE  LInv'
  <1> DEFINE p == [proc[i] EXCEPT !.stopper = "draining",
                                  !.listening = proc[i].listening /\ ~at(i, "accept")]
  <1>1. proc' = [proc EXCEPT ![i] = p]
    BY DEF GracefulStop, LInv
  <1>2. p \in Processes
    BY DEF LInv, Processes
  <1>3. Orderly(p)
    BY DEF GracefulStop, LInv, Processes, Orderly, at, running, ended
  <1>4. Quiet(proc[i], p) /\ ~secure(p)
    BY DEF GracefulStop, LInv, Processes, Quiet, contender, starting, clear, secure
  <1>5. path' = path \/ (path' = NoSocket /\ proc[i].listening)
    BY DEF GracefulStop, pathAfterClose
  <1> HIDE DEF p
  <1> QED
    BY <1>1, <1>2, <1>3, <1>4, <1>5, StepOf DEF Quiet

\* Drained keeps the invariant.
LEMMA DrainedLInv ==
    ASSUME LInv, NEW i \in Instances, Drained(i)
    PROVE  LInv'
  <1> DEFINE p == [proc[i] EXCEPT !.stopper = "done", !.connected = FALSE]
  <1>1. proc' = [proc EXCEPT ![i] = p] /\ path' = path
    BY DEF Drained, LInv
  <1>2. p \in Processes
    BY LifecycleAssumption DEF Drained, LInv, Processes, at
  <1>3. Orderly(p)
    BY DEF Drained, LInv, Processes, Orderly, at, quit, running, ended
  <1>4. Quiet(proc[i], p)
    BY DEF LInv, Processes, Quiet, contender, starting, clear, secure
  <1> QED
    BY <1>1, <1>2, <1>3, <1>4, QuietStep

\* Connect keeps the invariant.
LEMMA ConnectLInv ==
    ASSUME LInv, NEW i \in Instances, Connect(i)
    PROVE  LInv'
  <1> DEFINE p == [proc[i] EXCEPT !.connected = TRUE]
  <1>1. proc' = [proc EXCEPT ![i] = p] /\ path' = path
    BY DEF Connect, LInv
  <1>2. p \in Processes
    BY LifecycleAssumption DEF Connect, LInv, Processes, at
  <1>3. Orderly(p)
    BY DEF Connect, LInv, Processes, Orderly, at, quit, running, ended
  <1>4. Quiet(proc[i], p)
    BY DEF LInv, Processes, Quiet, contender, starting, clear, secure
  <1> QED
    BY <1>1, <1>2, <1>3, <1>4, QuietStep

\* OpenStream keeps the invariant.
LEMMA OpenStreamLInv ==
    ASSUME LInv, NEW i \in Instances, OpenStream(i)
    PROVE  LInv'
  <1> DEFINE p == [proc[i] EXCEPT !.streams = @ + 1]
  <1>1. proc' = [proc EXCEPT ![i] = p] /\ path' = path
    BY DEF OpenStream, LInv
  <1>2. p \in Processes
    BY LifecycleAssumption DEF OpenStream, LInv, Processes, at
  <1>3. Orderly(p)
    BY DEF OpenStream, LInv, Processes, Orderly, at, quit, running, ended
  <1>4. Quiet(proc[i], p)
    BY DEF LInv, Processes, Quiet, contender, starting, clear, secure
  <1> QED
    BY <1>1, <1>2, <1>3, <1>4, QuietStep

\* EndStream keeps the invariant.
LEMMA EndStreamLInv ==
    ASSUME LInv, NEW i \in Instances, EndStream(i)
    PROVE  LInv'
  <1> DEFINE p == [proc[i] EXCEPT !.streams = @ - 1]
  <1>1. proc' = [proc EXCEPT ![i] = p] /\ path' = path
    BY DEF EndStream, LInv
  <1>2. p \in Processes
    BY LifecycleAssumption DEF EndStream, LInv, Processes, at
  <1>3. Orderly(p)
    BY DEF EndStream, LInv, Processes, Orderly, at, quit, running, ended
  <1>4. Quiet(proc[i], p)
    BY DEF LInv, Processes, Quiet, contender, starting, clear, secure
  <1> QED
    BY <1>1, <1>2, <1>3, <1>4, QuietStep

\* Every step keeps the invariant.
LEMMA NextLInv == LInv /\ [LifecycleNext]_lifecycleVars => LInv'
  <1> SUFFICES ASSUME LInv, [LifecycleNext]_lifecycleVars PROVE LInv'
    OBVIOUS
  <1>1. CASE LifecycleNext
    <2>1. PICK i \in Instances :
            \/ Start(i) \/ Cancel(i) \/ Crash(i) \/ RunServer(i) \/ GracefulStop(i)
            \/ Drained(i) \/ Connect(i) \/ OpenStream(i) \/ EndStream(i)
      BY <1>1 DEF LifecycleNext
    <2>2. CASE RunServer(i)
      BY <2>2, ValidateLInv, LoadToolsLInv, RemoveSocketLInv, ListenUnixLInv, SpawnStopperLInv,
         ServeLInv, AcceptEndsLInv, ServeReturnsLInv DEF RunServer
    <2> QED
      BY <2>1, <2>2, StartLInv, CancelLInv, CrashLInv, GracefulStopLInv, DrainedLInv, ConnectLInv,
         OpenStreamLInv, EndStreamLInv
  <1>2. CASE UNCHANGED lifecycleVars
    BY <1>2 DEF lifecycleVars, LInv, OneContender, WayClear, SocketKept
  <1> QED
    BY <1>1, <1>2

-----------------------------------------------------------------------------
(* The theorems.                                                            *)

\* The inductive invariant holds of every behaviour of the processes.
THEOREM LifecycleInvariance == LifecycleSafety => []LInv
  BY InitLInv, NextLInv, PTL DEF LifecycleSafety

\* The variables have their types, and a process that serves has a goroutine that
\* will stop it (server.go: the go statement precedes Serve).
THEOREM LifecycleTyped == LifecycleSafety => []LifecycleTypeOK
  <1>1. LInv => LifecycleTypeOK
    BY DEF LInv, LifecycleTypeOK, Orderly
  <1> QED
    BY <1>1, LifecycleInvariance, PTL

\* A process that accepts connections stays reachable at its socket path until it
\* is cancelled, however many processes start, fail, crash or shut down next to
\* it, unless it listened while a process told to stop still had its listener open
\* or was still on its way to the socket.
THEOREM KeepsServing == LifecycleSafety => []ServesUntilCancelled
  <1>1. LInv => ServesUntilCancelled
    BY DEF LInv, ServesUntilCancelled, SocketKept, secure, Orderly, at, reachable
  <1> QED
    BY <1>1, LifecycleInvariance, PTL

\* A process that was not told to stop finds the path free at ListenUnix, whatever
\* crashed or is shutting down, unless another was on its way to the socket when it
\* removed the path.
THEOREM RestartGetsSocket == LifecycleSafety => []ListenGetsSocket
  <1>1. LInv => ListenGetsSocket
    BY DEF LInv, ListenGetsSocket, WayClear, clear, at
  <1> QED
    BY <1>1, LifecycleInvariance, PTL

\* RunServer returns nil only when GracefulStop has let every open stream finish.
THEOREM NilAfterLastStream == LifecycleSafety => StreamsFinish
  <1>1. LInv /\ LInv' /\ [LifecycleNext]_lifecycleVars =>
          [\A i \in Instances :
             proc[i].result # "nil" /\ proc'[i].result = "nil" => proc[i].streams = 0]_lifecycleVars
    <2> SUFFICES ASSUME LInv, LifecycleNext, NEW k \in Instances,
                        proc[k].result # "nil", proc'[k].result = "nil"
                 PROVE  proc[k].streams = 0
      BY DEF lifecycleVars
    <2>1. PICK i \in Instances :
            \/ Start(i) \/ Cancel(i) \/ Crash(i) \/ RunServer(i) \/ GracefulStop(i)
            \/ Drained(i) \/ Connect(i) \/ OpenStream(i) \/ EndStream(i)
      BY DEF LifecycleNext
    <2>2. \A r : Return(i, r) /\ r # "nil" => FALSE
      BY DEF Return, LInv, NotStarted, Processes
    <2>3. ~Start(i) /\ ~Cancel(i) /\ ~Crash(i)
      BY DEF Start, Cancel, Crash, LInv, Processes, NotStarted
    <2>4. ~GracefulStop(i) /\ ~Drained(i) /\ ~Connect(i) /\ ~OpenStream(i) /\ ~EndStream(i)
      BY DEF GracefulStop, Drained, Connect, OpenStream, EndStream, LInv, Processes
    <2>5. \A s : ~Go(i, s)
      BY DEF Go, LInv, Processes
    <2>6. ServeReturns(i)
      BY <2>1, <2>2, <2>3, <2>4, <2>5
         DEF RunServer, Validate, LoadTools, RemoveSocket, ListenUnix, SpawnStopper, Serve,
             AcceptEnds, LInv, Processes
    <2> QED
      BY <2>6 DEF ServeReturns, Return, LInv, Orderly
  <1> QED
    BY <1>1, LifecycleInvariance, PTL DEF LifecycleSafety, StreamsFinish
=============================================================================
