--------------------------- MODULE ToolLoadingProofs ---------------------------
(***************************************************************************)
(* Proofs about loading the tools, for every set of deployments.            *)
(*                                                                         *)
(* A registry that only Register has written to is determined by the set of *)
(* its entries (SameEntries), so it is enough to say which entries there    *)
(* are: the inductive invariant LoadInv does so for the registry of the     *)
(* file under way, for the registry of all files, and for the outcome of a  *)
(* start that has ended.                                                    *)
(***************************************************************************)
EXTENDS ToolLoading, SequenceTheorems, FiniteSetTheorems, WellFoundedInduction, TLAPS

\* Every nonempty set of natural numbers has a least element.
LEMMA LeastNat ==
    ASSUME NEW T, T \subseteq Nat, T # {}
    PROVE  \E i \in T : \A j \in T : i <= j
  <1> DEFINE R == OpToRel(<, Nat)
  <1>1. IsWellFoundedOn(R, Nat)
    BY NatLessThanWellFounded
  <1>2. \A i, j \in Nat : i < j => <<i, j>> \in R
    BY DEF OpToRel
  <1> HIDE DEF R
  <1>3. PICK i \in T : \A j \in T : <<j, i>> \notin R
    BY <1>1, WFMin
  <1>4. ASSUME NEW j \in T PROVE i <= j
    <2>1. i \in Nat /\ j \in Nat /\ ~(j < i)
      BY <1>2, <1>3
    <2> QED
      BY <2>1
  <1> QED
    BY <1>4

\* The loop that registers tools: the registry after each of them.
RegisterRun(after, r, tools, configs, names) ==
    /\ after[0] = r
    /\ \A i \in 1 .. Len(tools) :
         after[i] = IF tools[i].name \in names
                    THEN Register(after[i - 1], tools[i], configs[tools[i].name])
                    ELSE after[i - 1]
    /\ registerAll(r, tools, configs, names) = after[Len(tools)]

\* The loop does run.
LEMMA RegisterLoop ==
    ASSUME NEW r, NEW tools, Len(tools) \in Nat, NEW configs, NEW names
    PROVE  \E after : RegisterRun(after, r, tools, configs, names)
  <1> DEFINE turn(g, i) == IF tools[i].name \in names
                           THEN Register(g[i - 1], tools[i], configs[tools[i].name])
                           ELSE g[i - 1]
             body(g, i) == IF i = 0 THEN r ELSE turn(g, i)
             upTo(m) == \E g : g = [i \in 0 .. m |-> body(g, i)]
             bad == {m \in Nat : ~upTo(m)}
             n == Len(tools)
  <1>1. upTo(n)
    <2>1. SUFFICES ASSUME bad # {} PROVE FALSE
      OBVIOUS
    <2>2. PICK m \in bad : \A j \in bad : m <= j
      <3>1. bad \subseteq Nat
        OBVIOUS
      <3> HIDE DEF bad
      <3> QED
        BY <2>1, <3>1, LeastNat
    <2>3. m \in Nat /\ ~upTo(m)
      OBVIOUS
    <2>4. CASE m = 0
      <3> DEFINE g == [i \in 0 .. 0 |-> r]
      <3>1. g = [i \in 0 .. 0 |-> body(g, i)]
        OBVIOUS
      <3> QED
        BY <2>3, <2>4, <3>1
    <2>5. CASE m # 0
      <3>1. m - 1 \in Nat /\ m - 1 < m
        BY <2>3, <2>5
      <3>2. upTo(m - 1)
        <4>1. m - 1 \in bad \/ upTo(m - 1)
          BY <3>1
        <4> HIDE DEF bad, upTo
        <4> QED
          BY <2>2, <2>3, <3>1, <4>1
      <3>3. PICK g : g = [i \in 0 .. m - 1 |-> body(g, i)]
        BY <3>2
      <3> DEFINE h == [i \in 0 .. m |-> IF i = m THEN turn(g, m) ELSE g[i]]
      <3>4. ASSUME NEW i \in 0 .. m PROVE h[i] = body(h, i)
        <4>1. i = 0 => h[i] = r
          BY <2>5, <3>1, <3>3
        <4>2. i # 0 => h[i - 1] = g[i - 1]
          BY <2>3
        <4>3. i # 0 /\ i # m => h[i] = g[i] /\ g[i] = turn(g, i)
          BY <2>3, <3>3
        <4>4. i = m => h[i] = turn(g, i)
          OBVIOUS
        <4> QED
          BY <4>1, <4>2, <4>3, <4>4
      <3>5. h = [i \in 0 .. m |-> body(h, i)]
        BY <3>4
      <3> QED
        BY <2>3, <3>5
    <2> QED
      BY <2>4, <2>5
  <1> DEFINE after == CHOOSE g : g = [i \in 0 .. n |-> body(g, i)]
  <1>2. after = [i \in 0 .. n |-> body(after, i)]
    BY <1>1
  <1>3. registerAll(r, tools, configs, names) = after[n]
    BY DEF registerAll
  <1> HIDE DEF after
  <1>4. after[0] = r
    BY <1>2
  <1>5. ASSUME NEW i \in 1 .. n PROVE after[i] = turn(after, i)
    <2>1. i \in 0 .. n /\ i # 0
      OBVIOUS
    <2> QED
      BY <1>2, <2>1
  <1> QED
    BY <1>3, <1>4, <1>5 DEF RegisterRun

-----------------------------------------------------------------------------
\* A sequence of anything.
IsSeq(s) == \E S : s \in Seq(S)

\* What InsertAt does.
LEMMA Inserted ==
    ASSUME NEW s, IsSeq(s), NEW e, NEW k \in 1 .. Len(s) + 1
    PROVE  /\ IsSeq(InsertAt(s, k, e)) /\ DOMAIN s = 1 .. Len(s) /\ Len(s) \in Nat
           /\ DOMAIN InsertAt(s, k, e) = 1 .. Len(s) + 1
           /\ \A i \in 1 .. k - 1 : InsertAt(s, k, e)[i] = s[i]
           /\ InsertAt(s, k, e)[k] = e
           /\ \A i \in k + 1 .. Len(s) + 1 : InsertAt(s, k, e)[i] = s[i - 1]
  <1>1. PICK X : s \in Seq(X)
    BY DEF IsSeq
  <1> DEFINE S == X \cup {e}
             a == SubSeq(s, 1, k - 1)
             c == SubSeq(s, k, Len(s))
             n == Len(s)
             t == (a \o <<e>>) \o c
  <1>2. s \in Seq(S) /\ n \in Nat /\ DOMAIN s = 1 .. n /\ \A i \in 1 .. n : s[i] \in S
    BY <1>1, SeqMonotonic, LenProperties, ElementOfSeq
  <1>3. k \in Nat /\ k >= 1 /\ k <= n + 1
    BY <1>2
  <1> HIDE DEF S, n
  <1>4. a \in Seq(S) /\ Len(a) = k - 1 /\ \A i \in 1 .. k - 1 : a[i] = s[i]
    <2>1. \A i \in 1 .. k - 1 : s[i] \in S
      BY <1>2, <1>3
    <2>2. k - 1 \in Int /\ 1 \in Int
      BY <1>3
    <2> QED
      BY <1>3, <2>1, <2>2, SubSeqProperties
  <1>5. c \in Seq(S) /\ Len(c) = n - k + 1 /\ \A i \in 1 .. n - k + 1 : c[i] = s[k + i - 1]
    <2>1. \A i \in k .. n : s[i] \in S
      BY <1>2, <1>3
    <2> QED
      BY <1>2, <1>3, <2>1, SubSeqProperties DEF n
  <1>6. <<e>> \in Seq(S) /\ Len(<<e>>) = 1 /\ <<e>>[1] = e
    BY DEF S
  <1> HIDE DEF a, c
  <1>7. PICK o : o = <<e>>
    OBVIOUS
  <1>8. a \o o \in Seq(S) /\ Len(a \o o) = k
        /\ \A i \in 1 .. k : (a \o o)[i] = IF i <= k - 1 THEN a[i] ELSE o[i - (k - 1)]
    <2>1. Len(a) + Len(o) = k
      BY <1>3, <1>4, <1>6, <1>7
    <2> QED
      BY <1>4, <1>6, <1>7, <2>1, ConcatProperties
  <1>9. PICK ao : ao = a \o o
    OBVIOUS
  <1>10. ao \o c \in Seq(S) /\ Len(ao \o c) = n + 1
         /\ \A i \in 1 .. n + 1 : (ao \o c)[i] = IF i <= k THEN ao[i] ELSE c[i - k]
    <2>1. Len(ao) = k
      BY <1>8, <1>9
    <2>2. k + (n - k + 1) = n + 1
      BY <1>2, <1>3
    <2>3. Len(ao) + Len(c) = n + 1
      BY <1>5, <2>1, <2>2
    <2> QED
      BY <1>5, <1>8, <1>9, <2>1, <2>3, ConcatProperties
  <1>11. InsertAt(s, k, e) = ao \o c
    BY <1>7, <1>9 DEF InsertAt, a, c, n
  <1>12. PICK w : w = ao \o c
    OBVIOUS
  <1>13. DOMAIN w = 1 .. n + 1
    BY <1>10, <1>12, LenProperties
  <1>14. ASSUME NEW i \in 1 .. k - 1 PROVE w[i] = s[i]
    <2>1. i \in 1 .. n + 1 /\ i <= k /\ i \in 1 .. k
      BY <1>2, <1>3
    <2> QED
      BY <1>4, <1>8, <1>9, <1>10, <1>12, <2>1
  <1>15. w[k] = e
    <2>1. k \in 1 .. n + 1 /\ k \in 1 .. k /\ ~(k <= k - 1) /\ k - (k - 1) = 1 /\ k <= k
      BY <1>2, <1>3
    <2> QED
      BY <1>6, <1>7, <1>8, <1>9, <1>10, <1>12, <2>1
  <1>16. ASSUME NEW i \in k + 1 .. n + 1 PROVE w[i] = s[i - 1]
    <2>1. i \in 1 .. n + 1 /\ ~(i <= k) /\ i - k \in 1 .. n - k + 1 /\ k + (i - k) - 1 = i - 1
      BY <1>2, <1>3
    <2> QED
      BY <1>5, <1>10, <1>12, <2>1
  <1> QED
    BY <1>2, <1>10, <1>11, <1>12, <1>13, <1>14, <1>15, <1>16 DEF IsSeq, n

\* In a sorted list the names below one are the first few.
LEMMA BelowIsPrefix ==
    ASSUME NEW tools, NEW n \in Nat, DOMAIN tools = 1 .. n, NEW rank \in Int,
           \A i \in 1 .. n : tools[i].name.rank \in Int,
           \A i, j \in 1 .. n : i < j => tools[i].name.rank < tools[j].name.rank
    PROVE  LET k == 1 + Cardinality({i \in DOMAIN tools : tools[i].name.rank < rank})
           IN  /\ k \in 1 .. n + 1
               /\ \A i \in 1 .. k - 1 : tools[i].name.rank < rank
               /\ \A i \in k .. n : tools[i].name.rank >= rank
  <1> DEFINE above == {i \in 1 .. n + 1 : i = n + 1 \/ tools[i].name.rank >= rank}
             below == {i \in DOMAIN tools : tools[i].name.rank < rank}
  <1>1. PICK k \in above : \A j \in above : k <= j
    <2>1. above \subseteq Nat /\ n + 1 \in above
      OBVIOUS
    <2> HIDE DEF above
    <2> QED
      BY <2>1, LeastNat
  <1>2. k \in 1 .. n + 1 /\ k - 1 \in Nat
    OBVIOUS
  <1>3. ASSUME NEW i \in 1 .. k - 1 PROVE tools[i].name.rank < rank
    <2>1. i \in 1 .. n /\ i < k
      BY <1>2
    <2>2. i \in above \/ tools[i].name.rank < rank
      BY <2>1
    <2> HIDE DEF above
    <2> QED
      BY <1>1, <1>2, <2>1, <2>2
  <1>4. ASSUME NEW i \in k .. n PROVE tools[i].name.rank >= rank
    <2>1. k \in 1 .. n /\ i \in 1 .. n /\ k # n + 1
      BY <1>2
    <2>2. tools[k].name.rank >= rank
      BY <1>1, <2>1
    <2>3. i = k \/ tools[k].name.rank < tools[i].name.rank
      BY <2>1
    <2> QED
      BY <2>1, <2>2, <2>3
  <1>5. below = 1 .. k - 1
    <2>1. ASSUME NEW i \in below PROVE i \in 1 .. k - 1
      <3>1. i \in 1 .. n /\ tools[i].name.rank < rank
        OBVIOUS
      <3>2. i \notin k .. n
        BY <1>4, <3>1
      <3> QED
        BY <1>2, <3>1, <3>2
    <2>2. ASSUME NEW i \in 1 .. k - 1 PROVE i \in below
      BY <1>2, <1>3
    <2> QED
      BY <2>1, <2>2
  <1>6. Cardinality(1 .. k - 1) = k - 1
    BY <1>2, FS_Interval
  <1>7. 1 + (k - 1) = k
    BY <1>2
  <1> HIDE DEF above
  <1> QED
    BY <1>2, <1>3, <1>4, <1>5, <1>6, <1>7

-----------------------------------------------------------------------------
(* A registry is the set of its entries.                                     *)

\* The names that operations have.
ToolNames ==
    UNION {UNION {{op.id : op \in d.files[i].operations} : i \in DOMAIN d.files} : d \in Deployments}

\* A tool with its configuration.
Entry(t, c) == [tool |-> t, config |-> c]

entryAt(r, i) == Entry(r.tools[i], r.configs[r.tools[i].name])

entries(r) == {entryAt(r, i) : i \in DOMAIN r.tools}

\* A registry that only Register has written to.
Kept(r) ==
    /\ r = [tools |-> r.tools, configs |-> r.configs]
    /\ IsSeq(r.tools)
    /\ r.configs = [n \in DOMAIN r.configs |-> r.configs[n]]
    /\ \A i \in DOMAIN r.tools : r.tools[i].name \in ToolNames /\ validToolName(r.tools[i].name)
    /\ wellKept(r)

\* Names are ordered by their ranks, which are theirs alone.
LEMMA NamesRanked ==
    /\ \A n \in ToolNames : n.rank \in Int
    /\ \A n, m \in ToolNames : n.rank = m.rank => n = m
  BY LoadAssumption DEF ToolNames

\* The first registry.
LEMMA EmptyKept == Kept(newToolRegistry) /\ entries(newToolRegistry) = {} /\ toolNames(newToolRegistry) = {}
  <1>1. <<>> \in Seq({}) /\ DOMAIN <<>> = {}
    OBVIOUS
  <1> QED
    BY <1>1 DEF Kept, IsSeq, newToolRegistry, wellKept, registered, toolNames, entries

\* The names of a registry, from its entries.
LEMMA NamesOfEntries ==
    ASSUME NEW r
    PROVE  toolNames(r) = {e.tool.name : e \in entries(r)}
  <1>1. \A i : entryAt(r, i).tool = r.tools[i]
    BY DEF entryAt, Entry
  <1>2. ASSUME NEW n \in toolNames(r) PROVE \E e \in entries(r) : n = e.tool.name
    BY <1>1 DEF toolNames, entries
  <1>3. ASSUME NEW e \in entries(r) PROVE e.tool.name \in toolNames(r)
    BY <1>1 DEF toolNames, entries
  <1> QED
    BY <1>2, <1>3

\* What a kept registry is made of.
LEMMA KeptShape ==
    ASSUME NEW r, Kept(r)
    PROVE  /\ Len(r.tools) \in Nat /\ DOMAIN r.tools = 1 .. Len(r.tools)
           /\ \A i \in DOMAIN r.tools :
                 r.tools[i].name \in ToolNames /\ r.tools[i].name.rank \in Int
           /\ \A i, j \in DOMAIN r.tools : i < j => r.tools[i].name.rank < r.tools[j].name.rank
           /\ \A i, j \in DOMAIN r.tools : r.tools[i].name = r.tools[j].name => i = j
           /\ registered(r) = toolNames(r)
           /\ DOMAIN r.configs = toolNames(r)
  <1>1. Len(r.tools) \in Nat /\ DOMAIN r.tools = 1 .. Len(r.tools)
    BY LenProperties DEF Kept, IsSeq
  <1>2. \A i \in DOMAIN r.tools : r.tools[i].name \in ToolNames /\ r.tools[i].name.rank \in Int
    BY NamesRanked DEF Kept
  <1>3. \A i, j \in DOMAIN r.tools : i < j => r.tools[i].name.rank < r.tools[j].name.rank
    BY DEF Kept, wellKept
  <1>4. ASSUME NEW i \in DOMAIN r.tools, NEW j \in DOMAIN r.tools, r.tools[i].name = r.tools[j].name
        PROVE  i = j
    <2>1. i \in Nat /\ j \in Nat
      BY <1>1
    <2>2. r.tools[i].name.rank = r.tools[j].name.rank /\ r.tools[i].name.rank \in Int
      BY <1>2, <1>4
    <2>3. ~(i < j)
      BY <1>3, <2>2
    <2>4. ~(j < i)
      BY <1>3, <2>2
    <2> QED
      BY <2>1, <2>3, <2>4
  <1> QED
    BY <1>1, <1>2, <1>3, <1>4 DEF Kept, wellKept, registered

\* Register on a list of tools alone: the new one is put where its name belongs.
LEMMA Placed ==
    ASSUME NEW r, Kept(r), NEW tool, tool.name \in ToolNames, tool.name \notin toolNames(r)
    PROVE  LET w == InsertAt(r.tools, position(r.tools, tool.name), tool)
           IN  /\ IsSeq(w)
               /\ \A i, j \in DOMAIN w : i < j => w[i].name.rank < w[j].name.rank
               /\ {w[i] : i \in DOMAIN w} = {r.tools[i] : i \in DOMAIN r.tools} \cup {tool}
  <1> DEFINE s == r.tools
             n == Len(s)
             rank == tool.name.rank
             k == position(s, tool.name)
  <1>1. /\ n \in Nat /\ DOMAIN s = 1 .. n
        /\ \A i \in 1 .. n : s[i].name \in ToolNames /\ s[i].name.rank \in Int
        /\ \A i, j \in 1 .. n : i < j => s[i].name.rank < s[j].name.rank
    BY KeptShape
  <1>2. rank \in Int /\ \A i \in 1 .. n : s[i].name.rank # rank
    <2>1. \A i \in 1 .. n : s[i].name \in toolNames(r)
      BY <1>1 DEF toolNames
    <2> QED
      BY <1>1, <2>1, NamesRanked
  <1>3. IsSeq(s)
    BY DEF Kept
  <1> HIDE DEF s, n, rank
  <1>4. /\ k \in 1 .. n + 1
        /\ \A i \in 1 .. k - 1 : s[i].name.rank < rank
        /\ \A i \in k .. n : s[i].name.rank >= rank
    <2>1. k = 1 + Cardinality({i \in DOMAIN s : s[i].name.rank < rank})
      BY DEF position, rank
    <2> HIDE DEF k
    <2> QED
      BY <1>1, <1>2, <2>1, BelowIsPrefix
  <1> HIDE DEF k
  <1> DEFINE w == InsertAt(s, k, tool)
  <1>5. /\ IsSeq(w) /\ DOMAIN w = 1 .. n + 1
        /\ \A i \in 1 .. k - 1 : w[i] = s[i]
        /\ w[k] = tool
        /\ \A i \in k + 1 .. n + 1 : w[i] = s[i - 1]
    BY <1>3, <1>4, Inserted DEF n
  <1> HIDE DEF w
  <1>6. k \in Nat /\ 1 <= k /\ k <= n + 1
    BY <1>1, <1>4
  <1>7. \A i \in 1 .. k - 1 : i \in 1 .. n /\ w[i].name.rank < rank /\ w[i].name.rank \in Int
    BY <1>1, <1>4, <1>5, <1>6
  <1>8. \A i \in k + 1 .. n + 1 :
           i - 1 \in 1 .. n /\ rank < w[i].name.rank /\ w[i].name.rank \in Int
    <2>1. SUFFICES ASSUME NEW i \in k + 1 .. n + 1
                   PROVE  i - 1 \in 1 .. n /\ rank < w[i].name.rank /\ w[i].name.rank \in Int
      OBVIOUS
    <2>2. i - 1 \in 1 .. n /\ i - 1 \in k .. n
      BY <1>1, <1>6
    <2> QED
      BY <1>1, <1>2, <1>4, <1>5, <2>2
  <1>9. ASSUME NEW i \in DOMAIN w, NEW j \in DOMAIN w, i < j
        PROVE  w[i].name.rank < w[j].name.rank
    <2>1. i \in Nat /\ j \in Nat /\ i \in 1 .. n + 1 /\ j \in 1 .. n + 1
      BY <1>1, <1>5
    <2>2. i \in 1 .. k - 1 \/ i = k \/ i \in k + 1 .. n + 1
      BY <1>1, <1>6, <2>1
    <2>3. j \in 1 .. k - 1 \/ j = k \/ j \in k + 1 .. n + 1
      BY <1>1, <1>6, <2>1
    <2>4. CASE i \in 1 .. k - 1 /\ j \in 1 .. k - 1
      BY <1>1, <1>5, <1>7, <1>9, <2>4
    <2>5. CASE i \in 1 .. k - 1 /\ j \notin 1 .. k - 1
      <3>1. w[i].name.rank < rank /\ w[i].name.rank \in Int
        BY <1>7, <2>5
      <3>2. j = k \/ (rank < w[j].name.rank /\ w[j].name.rank \in Int)
        BY <1>8, <2>3, <2>5
      <3>3. j = k => w[j].name.rank = rank
        BY <1>5 DEF rank
      <3> QED
        BY <1>2, <3>1, <3>2, <3>3
    <2>6. CASE i = k
      <3>1. j \in k + 1 .. n + 1
        BY <1>6, <1>9, <2>1, <2>3, <2>6
      <3>2. w[i].name.rank = rank
        BY <1>5, <2>6 DEF rank
      <3> QED
        BY <1>8, <3>1, <3>2
    <2>7. CASE i \in k + 1 .. n + 1
      <3>1. j \in k + 1 .. n + 1
        BY <1>6, <1>9, <2>1, <2>3, <2>7
      <3>2. i - 1 \in 1 .. n /\ j - 1 \in 1 .. n /\ i - 1 < j - 1
        BY <1>8, <1>9, <2>1, <2>7, <3>1
      <3> QED
        BY <1>1, <1>5, <2>7, <3>1, <3>2
    <2> QED
      BY <2>2, <2>4, <2>5, <2>6, <2>7
  <1>10. {w[i] : i \in DOMAIN w} = {s[i] : i \in DOMAIN s} \cup {tool}
    <2>1. ASSUME NEW i \in DOMAIN w PROVE w[i] = tool \/ \E j \in DOMAIN s : w[i] = s[j]
      <3>1. i \in 1 .. k - 1 \/ i = k \/ i \in k + 1 .. n + 1
        BY <1>1, <1>5, <1>6
      <3> QED
        BY <1>1, <1>5, <1>7, <1>8, <3>1
    <2>2. ASSUME NEW j \in DOMAIN s PROVE \E i \in DOMAIN w : w[i] = s[j]
      <3>1. j \in 1 .. n
        BY <1>1
      <3>2. CASE j < k
        <4>1. j \in 1 .. k - 1 /\ j \in 1 .. n + 1
          BY <1>1, <1>6, <3>1, <3>2
        <4> QED
          BY <1>5, <4>1
      <3>3. CASE ~(j < k)
        <4>1. j + 1 \in k + 1 .. n + 1 /\ j + 1 \in 1 .. n + 1 /\ (j + 1) - 1 = j
          BY <1>1, <1>6, <3>1, <3>3
        <4> QED
          BY <1>5, <4>1
      <3> QED
        BY <3>2, <3>3
    <2>3. k \in DOMAIN w /\ w[k] = tool
      BY <1>4, <1>5
    <2> QED
      BY <2>1, <2>2, <2>3
  <1> QED
    BY <1>5, <1>9, <1>10 DEF w, k, s

\* What a kept registry is, seen from its entries.
LEMMA EntryFacts ==
    ASSUME NEW r, Kept(r)
    PROVE  /\ \A e \in entries(r) :
                 /\ e = Entry(e.tool, r.configs[e.tool.name])
                 /\ e.tool.name \in toolNames(r) /\ e.tool.name \in ToolNames
                 /\ validToolName(e.tool.name)
                 /\ e.config = r.configs[e.tool.name]
           /\ \A n \in toolNames(r) : \E e \in entries(r) : e.tool.name = n
           /\ \A e, d \in entries(r) : e.tool.name = d.tool.name => e = d
  <1>1. ASSUME NEW e \in entries(r)
        PROVE  \E i \in DOMAIN r.tools :
                  e = entryAt(r, i) /\ e.tool = r.tools[i] /\ e.config = r.configs[r.tools[i].name]
    BY DEF entries, entryAt, Entry
  <1>2. \A e \in entries(r) :
           /\ e = Entry(e.tool, r.configs[e.tool.name])
           /\ e.tool.name \in ToolNames /\ validToolName(e.tool.name)
           /\ e.config = r.configs[e.tool.name]
    BY <1>1 DEF entryAt, Kept
  <1>3. \A e \in entries(r) : e.tool.name \in toolNames(r)
    BY <1>1 DEF toolNames
  <1>4. \A n \in toolNames(r) : \E e \in entries(r) : e.tool.name = n
    BY NamesOfEntries
  <1>5. ASSUME NEW e \in entries(r), NEW d \in entries(r), e.tool.name = d.tool.name
        PROVE  e = d
    <2>1. PICK i \in DOMAIN r.tools : e = entryAt(r, i) /\ e.tool = r.tools[i]
      BY <1>1
    <2>2. PICK j \in DOMAIN r.tools : d = entryAt(r, j) /\ d.tool = r.tools[j]
      BY <1>1
    <2> QED
      BY <1>5, <2>1, <2>2, KeptShape
  <1> QED
    BY <1>2, <1>3, <1>4, <1>5

\* Registering a tool adds its entry, unless its name is invalid or taken.
LEMMA RegisterAdds ==
    ASSUME NEW r, Kept(r), NEW tool, tool.name \in ToolNames, NEW config
    PROVE  LET R == Register(r, tool, config)
               accepted == validToolName(tool.name) /\ tool.name \notin toolNames(r)
           IN  /\ Kept(R)
               /\ entries(R) = entries(r) \cup (IF accepted THEN {Entry(tool, config)} ELSE {})
               /\ toolNames(R) = toolNames(r) \cup (IF validToolName(tool.name) THEN {tool.name} ELSE {})
  <1> DEFINE name == tool.name
             R == Register(r, tool, config)
             w == InsertAt(r.tools, position(r.tools, name), tool)
             c == [n \in registered(r) \cup {name} |-> IF n = name THEN config ELSE r.configs[n]]
  <1>1. found(r.tools, name) <=> name \in toolNames(r)
    BY DEF found, toolNames
  <1>2. CASE ~validToolName(name) \/ name \in toolNames(r)
    <2>1. R = r
      BY <1>1, <1>2 DEF Register, canRegister
    <2> QED
      BY <1>2, <2>1
  <1>3. CASE validToolName(name) /\ name \notin toolNames(r)
    <2>1. R = [tools |-> w, configs |-> c]
      BY <1>1, <1>3 DEF Register, canRegister
    <2>2. R.tools = w /\ R.configs = c /\ R = [tools |-> R.tools, configs |-> R.configs]
      BY <2>1
    <2>3. /\ IsSeq(w)
          /\ \A i, j \in DOMAIN w : i < j => w[i].name.rank < w[j].name.rank
          /\ {w[i] : i \in DOMAIN w} = {r.tools[i] : i \in DOMAIN r.tools} \cup {tool}
      BY <1>3, Placed
    <2>4. DOMAIN c = toolNames(r) \cup {name} /\ c = [n \in DOMAIN c |-> c[n]]
          /\ c[name] = config /\ \A n \in toolNames(r) : c[n] = r.configs[n]
      BY <1>3, KeptShape
    <2> HIDE DEF w, c, R
    <2>5. \A i \in DOMAIN w : w[i] = tool \/ \E j \in DOMAIN r.tools : w[i] = r.tools[j]
      BY <2>3
    <2>6. /\ \A j \in DOMAIN r.tools : \E i \in DOMAIN w : w[i] = r.tools[j]
          /\ \E i \in DOMAIN w : w[i] = tool
      BY <2>3
    <2>7. toolNames(R) = toolNames(r) \cup {name}
      <3>1. \A i \in DOMAIN w : w[i].name \in toolNames(r) \cup {name}
        BY <2>5 DEF toolNames
      <3>2. \A n \in toolNames(r) \cup {name} : \E i \in DOMAIN w : w[i].name = n
        BY <2>6 DEF toolNames
      <3>3. toolNames(R) = {w[i].name : i \in DOMAIN w}
        BY <2>2 DEF toolNames
      <3> QED
        BY <3>1, <3>2, <3>3
    <2>8. Kept(R)
      <3>1. \A i \in DOMAIN w : w[i].name \in ToolNames /\ validToolName(w[i].name)
        BY <1>3, <2>5 DEF Kept
      <3>2. wellKept(R)
        BY <2>2, <2>3, <2>4, <2>7 DEF wellKept, registered
      <3> QED
        BY <2>2, <2>3, <2>4, <3>1, <3>2 DEF Kept
    <2>9. entries(R) = entries(r) \cup {Entry(tool, config)}
      <3>1. \A i \in DOMAIN w : w[i] = tool => entryAt(R, i) = Entry(tool, config)
        BY <2>2, <2>4 DEF entryAt
      <3>2. ASSUME NEW i \in DOMAIN w, NEW j \in DOMAIN r.tools, w[i] = r.tools[j]
            PROVE  entryAt(R, i) = entryAt(r, j)
        <4>1. r.tools[j].name \in toolNames(r)
          BY DEF toolNames
        <4> QED
          BY <2>2, <2>4, <3>2, <4>1 DEF entryAt
      <3>3. \A i \in DOMAIN w : entryAt(R, i) \in entries(r) \cup {Entry(tool, config)}
        BY <2>5, <3>1, <3>2 DEF entries
      <3>4. \A j \in DOMAIN r.tools : \E i \in DOMAIN w : entryAt(R, i) = entryAt(r, j)
        BY <2>6, <3>2
      <3>5. \E i \in DOMAIN w : entryAt(R, i) = Entry(tool, config)
        BY <2>6, <3>1
      <3>6. \A e \in entries(r) \cup {Entry(tool, config)} : \E i \in DOMAIN w : entryAt(R, i) = e
        BY <3>4, <3>5 DEF entries
      <3>7. entries(R) = {entryAt(R, i) : i \in DOMAIN w}
        BY <2>2 DEF entries
      <3> QED
        BY <3>3, <3>6, <3>7
    <2> QED
      BY <1>3, <2>7, <2>8, <2>9 DEF R
  <1> QED
    BY <1>2, <1>3

\* R is the registry r with those entries of l that have one of the names and whose
\* name is not taken.
Merged(R, r, l, names) ==
    /\ Kept(R)
    /\ entries(R) = entries(r) \cup
          {e \in entries(l) : e.tool.name \in names /\ e.tool.name \notin toolNames(r)}

\* Registering the tools of another registry merges the two.
LEMMA MergeAdds ==
    ASSUME NEW r, Kept(r), NEW l, Kept(l), NEW names,
           NEW R, R = registerAll(r, l.tools, l.configs, names)
    PROVE  Merged(R, r, l, names)
  <1> DEFINE n == Len(l.tools)
             t == l.tools
             added(i) == {j \in 1 .. i : t[j].name \in names /\ t[j].name \notin toolNames(r)}
             merged(i) == entries(r) \cup {entryAt(l, j) : j \in added(i)}
  <1>1. /\ n \in Nat /\ DOMAIN t = 1 .. n
        /\ \A i \in 1 .. n : t[i].name \in ToolNames /\ validToolName(t[i].name)
        /\ \A i, j \in 1 .. n : t[i].name = t[j].name => i = j
    BY KeptShape DEF Kept
  <1>2. PICK after :
           /\ after[0] = r
           /\ \A i \in 1 .. n :
                after[i] = IF t[i].name \in names THEN Register(after[i - 1], t[i], l.configs[t[i].name])
                           ELSE after[i - 1]
           /\ registerAll(r, t, l.configs, names) = after[n]
    <2>1. PICK after : RegisterRun(after, r, l.tools, l.configs, names)
      BY <1>1, RegisterLoop
    <2> QED
      BY <2>1 DEF RegisterRun
  <1> DEFINE good(i) == Kept(after[i]) /\ entries(after[i]) = merged(i)
  <1>3. good(0)
    <2>1. added(0) = {}
      OBVIOUS
    <2> QED
      BY <1>2, <2>1
  <1>4. ASSUME NEW i \in 1 .. n, good(i - 1) PROVE good(i)
    <2> DEFINE a == after[i - 1]
               e == entryAt(l, i)
    <2>1. i \in Nat /\ i - 1 \in Nat
      BY <1>1
    <2>2. added(i) = added(i - 1) \cup (IF t[i].name \in names /\ t[i].name \notin toolNames(r) THEN {i} ELSE {})
      BY <2>1
    <2>3. \A j \in 1 .. i - 1 : j \in 1 .. n /\ t[j].name # t[i].name
      BY <1>1
    <2>4. toolNames(a) = toolNames(r) \cup {t[j].name : j \in added(i - 1)}
      <3>1. \A j : entryAt(l, j).tool.name = t[j].name
        BY DEF entryAt, Entry
      <3>2. entries(a) = entries(r) \cup {entryAt(l, j) : j \in added(i - 1)}
        BY <1>4
      <3>3. toolNames(a) = {x.tool.name : x \in entries(a)} /\ toolNames(r) = {x.tool.name : x \in entries(r)}
        BY NamesOfEntries
      <3> HIDE DEF added, a
      <3> QED
        BY <3>1, <3>2, <3>3
    <2>5. t[i].name \in toolNames(a) <=> t[i].name \in toolNames(r)
      <3>1. \A j \in added(i - 1) : j \in 1 .. i - 1
        OBVIOUS
      <3> HIDE DEF added, a
      <3> QED
        BY <2>3, <2>4, <3>1
    <2>6. e = Entry(t[i], l.configs[t[i].name])
      BY DEF entryAt
    <2>7. Kept(a)
      BY <1>4
    <2>8. merged(i - 1) \cup (IF t[i].name \in names /\ t[i].name \notin toolNames(r) THEN {e} ELSE {}) = merged(i)
      <3> HIDE DEF added, e
      <3>1. e = entryAt(l, i)
        BY DEF e
      <3> QED
        BY <2>2, <3>1
    <2>9. CASE t[i].name \in names
      <3>1. after[i] = Register(a, t[i], l.configs[t[i].name])
        BY <1>2, <2>9
      <3>2. entries(a) = merged(i - 1)
        BY <1>4
      <3>3. validToolName(t[i].name) /\ t[i].name \in ToolNames
        BY <1>1
      <3> HIDE DEF added, merged, a, e
      <3>4. Kept(after[i]) /\ entries(after[i]) =
               entries(a) \cup (IF t[i].name \notin toolNames(a) THEN {e} ELSE {})
        BY <2>6, <2>7, <3>1, <3>3, RegisterAdds
      <3> QED
        BY <2>5, <2>8, <2>9, <3>2, <3>4
    <2>10. CASE t[i].name \notin names
      <3>1. after[i] = a
        BY <1>2, <2>10
      <3>2. entries(a) = merged(i - 1)
        BY <1>4
      <3> HIDE DEF added, merged, a, e
      <3> QED
        BY <2>7, <2>8, <2>10, <3>1, <3>2
    <2> QED
      BY <2>9, <2>10
  <1>5. good(n)
    <2> DEFINE bad == {i \in Nat : i <= n /\ ~good(i)}
    <2>1. SUFFICES ASSUME bad # {} PROVE FALSE
      BY <1>1
    <2>2. bad \subseteq Nat
      OBVIOUS
    <2>3. \A i \in bad : i \in Nat /\ i <= n /\ ~good(i)
      OBVIOUS
    <2>4. \A i \in Nat : i <= n /\ i \notin bad => good(i)
      OBVIOUS
    <2> HIDE DEF bad, good
    <2>5. PICK i \in bad : \A j \in bad : i <= j
      BY <2>1, <2>2, LeastNat
    <2>6. i # 0
      BY <1>3, <2>3
    <2>7. i \in 1 .. n /\ i - 1 \in Nat /\ i - 1 <= n /\ ~(i <= i - 1)
      BY <1>1, <2>3, <2>6
    <2> QED
      BY <1>4, <2>3, <2>4, <2>5, <2>7
  <1>6. merged(n) = entries(r) \cup
           {e \in entries(l) : e.tool.name \in names /\ e.tool.name \notin toolNames(r)}
    <2>1. \A j : entryAt(l, j).tool.name = t[j].name
      BY DEF entryAt, Entry
    <2>2. entries(l) = {entryAt(l, j) : j \in 1 .. n}
      BY <1>1 DEF entries
    <2> HIDE DEF t, n
    <2> QED
      BY <2>1, <2>2
  <1> QED
    BY <1>2, <1>5, <1>6 DEF Merged

\* Two registries with the same entries are the same.
LEMMA SameEntries ==
    ASSUME NEW r, Kept(r), NEW s, Kept(s), entries(r) = entries(s)
    PROVE  r = s
  <1> DEFINE a == r.tools
             c == s.tools
  <1>1. /\ Len(a) \in Nat /\ DOMAIN a = 1 .. Len(a)
        /\ \A i \in DOMAIN a : a[i].name.rank \in Int
        /\ \A i, j \in DOMAIN a : i < j => a[i].name.rank < a[j].name.rank
    BY KeptShape
  <1>2. /\ Len(c) \in Nat /\ DOMAIN c = 1 .. Len(c)
        /\ \A i \in DOMAIN c : c[i].name.rank \in Int
        /\ \A i, j \in DOMAIN c : i < j => c[i].name.rank < c[j].name.rank
    BY KeptShape
  <1>3. \A i \in DOMAIN a : \E j \in DOMAIN c : a[i] = c[j]
    <2>1. SUFFICES ASSUME NEW i \in DOMAIN a PROVE \E j \in DOMAIN c : a[i] = c[j]
      OBVIOUS
    <2>2. entryAt(r, i) \in entries(s)
      BY DEF entries
    <2>3. PICK j \in DOMAIN c : entryAt(r, i) = entryAt(s, j)
      BY <2>2 DEF entries
    <2> QED
      BY <2>3 DEF entryAt, Entry
  <1>4. \A j \in DOMAIN c : \E i \in DOMAIN a : a[i] = c[j]
    <2>1. SUFFICES ASSUME NEW j \in DOMAIN c PROVE \E i \in DOMAIN a : a[i] = c[j]
      OBVIOUS
    <2>2. entryAt(s, j) \in entries(r)
      BY DEF entries
    <2>3. PICK i \in DOMAIN a : entryAt(r, i) = entryAt(s, j)
      BY <2>2 DEF entries
    <2> QED
      BY <2>3 DEF entryAt, Entry
  <1>5. IsSeq(a) /\ IsSeq(c)
    BY DEF Kept
  <1> HIDE DEF a, c
  <1> DEFINE same(i) == (i \in DOMAIN a <=> i \in DOMAIN c) /\ (i \in DOMAIN a => a[i] = c[i])
             bad == {i \in Nat : ~same(i)}
  <1>6. bad = {}
    <2>1. SUFFICES ASSUME bad # {} PROVE FALSE
      OBVIOUS
    <2>2. bad \subseteq Nat /\ \A i \in Nat : i \notin bad => same(i)
      OBVIOUS
    <2>3. \A i \in bad : ~same(i)
      OBVIOUS
    <2> HIDE DEF bad
    <2>4. PICK k \in bad : \A j \in bad : k <= j
      BY <2>1, <2>2, LeastNat
    <2>5. k \in Nat /\ \A j \in Nat : j < k => same(j)
      BY <2>2, <2>4
    <2>6. k \in DOMAIN a \/ k \in DOMAIN c
      BY <2>3
    <2>7. ASSUME k \in DOMAIN a
          PROVE  \E j \in DOMAIN c : a[k] = c[j] /\ k <= j
      <3>1. PICK j \in DOMAIN c : a[k] = c[j]
        BY <1>3, <2>7
      <3>2. CASE j < k
        <4>1. j \in Nat /\ j \in DOMAIN a /\ a[j] = a[k]
          BY <1>2, <2>5, <3>1, <3>2
        <4> QED
          BY <1>1, <2>7, <3>2, <4>1
      <3> QED
        BY <1>2, <2>5, <3>1, <3>2
    <2>8. ASSUME k \in DOMAIN c
          PROVE  \E i \in DOMAIN a : a[i] = c[k] /\ k <= i
      <3>1. PICK i \in DOMAIN a : a[i] = c[k]
        BY <1>4, <2>8
      <3>2. CASE i < k
        <4>1. i \in Nat /\ i \in DOMAIN c /\ c[i] = c[k]
          BY <1>1, <2>5, <3>1, <3>2
        <4> QED
          BY <1>2, <2>8, <3>2, <4>1
      <3> QED
        BY <1>1, <2>5, <3>1, <3>2
    <2>9. k \in DOMAIN a /\ k \in DOMAIN c
      <3>1. CASE k \in DOMAIN a
        BY <1>2, <2>5, <2>7, <3>1, <1>1
      <3>2. CASE k \in DOMAIN c
        BY <1>1, <2>5, <2>8, <3>2, <1>2
      <3> QED
        BY <2>6, <3>1, <3>2
    <2>10. PICK j \in DOMAIN c : a[k] = c[j] /\ k <= j
      BY <2>7, <2>9
    <2>11. PICK i \in DOMAIN a : a[i] = c[k] /\ k <= i
      BY <2>8, <2>9
    <2>12. a[k] # c[k]
      BY <2>3, <2>9
    <2>13. k # j /\ k # i
      BY <2>10, <2>11, <2>12
    <2>14. c[k].name.rank < c[j].name.rank
      BY <1>2, <2>5, <2>9, <2>10, <2>13
    <2>15. a[k].name.rank < a[i].name.rank
      BY <1>1, <2>5, <2>9, <2>11, <2>13
    <2>16. a[k].name.rank \in Int /\ c[k].name.rank \in Int
      BY <1>1, <1>2, <2>9
    <2> QED
      BY <2>10, <2>11, <2>14, <2>15, <2>16
  <1>7. \A i \in Nat : same(i)
    BY <1>6
  <1> HIDE DEF bad
  <1>8. DOMAIN a = DOMAIN c /\ \A i \in DOMAIN a : a[i] = c[i]
    <2>1. \A i \in DOMAIN a : i \in Nat
      BY <1>1
    <2>2. \A i \in DOMAIN c : i \in Nat
      BY <1>2
    <2>3. \A i \in DOMAIN a : i \in DOMAIN c /\ a[i] = c[i]
      BY <1>7, <2>1
    <2>4. \A i \in DOMAIN c : i \in DOMAIN a
      BY <1>7, <2>2
    <2>5. DOMAIN a = DOMAIN c
      BY <2>3, <2>4
    <2> QED
      BY <2>3, <2>5
  <1>9. a = c
    <2>1. a = [i \in DOMAIN a |-> a[i]] /\ c = [i \in DOMAIN c |-> c[i]]
      BY <1>5, LenProperties DEF IsSeq
    <2> QED
      BY <1>8, <2>1
  <1>10. r.configs = s.configs
    <2>1. DOMAIN r.configs = {a[i].name : i \in DOMAIN a} /\ DOMAIN s.configs = {a[i].name : i \in DOMAIN a}
      BY <1>9, KeptShape DEF toolNames, a, c
    <2>2. ASSUME NEW i \in DOMAIN a PROVE r.configs[a[i].name] = s.configs[a[i].name]
      <3>1. entryAt(r, i) \in entries(r) /\ entryAt(s, i) \in entries(r)
        BY <1>9 DEF entries, a, c
      <3>2. entryAt(r, i).tool.name = entryAt(s, i).tool.name
        BY <1>9 DEF entryAt, Entry, a, c
      <3>3. entryAt(r, i) = entryAt(s, i)
        BY <3>1, <3>2, EntryFacts
      <3> QED
        BY <1>9, <3>3 DEF entryAt, Entry, a, c
    <2>3. \A n \in DOMAIN r.configs : r.configs[n] = s.configs[n]
      BY <2>1, <2>2
    <2>4. r.configs = [n \in DOMAIN r.configs |-> r.configs[n]] /\ s.configs = [n \in DOMAIN s.configs |-> s.configs[n]]
      BY DEF Kept
    <2> QED
      BY <2>1, <2>3, <2>4
  <1> QED
    BY <1>9, <1>10 DEF Kept, a, c

-----------------------------------------------------------------------------
(* The inductive invariant of loading.                                       *)

\* The schemas that may be found for an operation.
schemasOf(op) == findJSONSchemaFromResponses(op.responses)

\* What visiting an operation of file f registers, if schema is found.
entryOf(op, f, schema) ==
    Entry(generatedTool(op, schema, deployment.structured),
          generatedConfig(op, extractHostFromOpenAPISpec(deployment.files[f]),
                          generatedTool(op, schema, deployment.structured)))

\* An entry of a registry is what an operation of file f gives.
From(e, f) == \E op \in offeredBy(f) : \E schema \in schemasOf(op) : e = entryOf(op, f, schema)

\* No file before f offers a name.
FirstWith(name, f) == \A g \in specFiles : g < f => name \notin offered(g)

\* Every tool of a registry is from the first file that offers its name.
FromFirst(r) == \A e \in entries(r) : \E f \in specFiles : From(e, f) /\ FirstWith(e.tool.name, f)

offeredBefore(k) == UNION {offered(f) : f \in {g \in specFiles : g < k}}

\* An operation that may have been visited without a crash.
survivable(op) == shouldSkipOperation(op) \/ \E schema \in schemasOf(op) : ~conversionFails(op, schema)

\* What is true of the result and the registry of any start that has ended.
Outcome(res, r) ==
    /\ Kept(r) /\ FromFirst(r)
    /\ res = "crashed" =>
          \E f \in specFiles : \E op \in deployment.files[f].operations : mayCrash(op)
    /\ res # "crashed" =>
          /\ \A f \in specFiles : \A op \in deployment.files[f].operations : survivable(op)
          /\ res = IF allOffered = {} THEN "noTools"
                   ELSE IF deployment.allowlist \subseteq allOffered THEN "serving" ELSE "notInAllowlist"
          /\ toolNames(r) = IF res = "serving" /\ deployment.allowlist # {} THEN deployment.allowlist
                            ELSE allOffered

LoadTypes ==
    /\ deployment \in Deployments
    /\ pc \in {"files", "operations", "done"}
    /\ at \in Nat /\ at # 0
    /\ starts \in Nat /\ starts # 0

\* Files before the one under way.
FilesRead ==
    pc # "done" =>
      /\ result = "none"
      /\ at <= Len(deployment.files) + 1
      /\ toolNames(registry) = offeredBefore(at)
      /\ \A f \in specFiles : f < at =>
            \A op \in deployment.files[f].operations : survivable(op)

\* The file under way.
FileUnderWay ==
    pc = "operations" =>
      /\ at \in specFiles
      /\ todo \subseteq file.operations
      /\ toolNames(loaded) = {op.id : op \in offeredBy(at) \ todo}
      /\ \A e \in entries(loaded) : From(e, at)
      /\ \A op \in file.operations \ todo : survivable(op)

\* The registry of a file, and that of all files.
LoadedFrom   == Kept(loaded) /\ \A e \in entries(loaded) : \E f \in specFiles : From(e, f)
RegistryFrom == Kept(registry) /\ FromFirst(registry)

\* The start under way once it has ended, and the one before.
Ended       == pc = "done" => Outcome(result, registry)
EndedBefore == starts > 1 => Outcome(before.result, before.registry)

LoadInv ==
    LoadTypes /\ LoadedFrom /\ RegistryFrom /\ FilesRead /\ FileUnderWay /\ Ended /\ EndedBefore

\* Nothing changes the documents, so that what is said of them stays as it is.
LEMMA SameDocuments ==
    ASSUME deployment' = deployment
    PROVE  /\ specFiles' = specFiles
           /\ \A f : offeredBy(f)' = offeredBy(f)
           /\ \A f : offered(f)' = offered(f)
           /\ allOffered' = allOffered
           /\ unambiguous' = unambiguous
           /\ \A op, f, schema : entryOf(op, f, schema)' = entryOf(op, f, schema)
           /\ \A e, f : From(e, f)' = From(e, f)
           /\ \A n, f : FirstWith(n, f)' = FirstWith(n, f)
           /\ \A k : offeredBefore(k)' = offeredBefore(k)
           /\ \A r : FromFirst(r)' = FromFirst(r)
           /\ \A res, r : Outcome(res, r)' = Outcome(res, r)
  <1>1. specFiles' = specFiles /\ \A f : offeredBy(f)' = offeredBy(f)
    BY DEF specFiles, offeredBy
  <1>2. \A f : offered(f)' = offered(f)
    BY <1>1 DEF offered
  <1>3. allOffered' = allOffered
    BY <1>1, <1>2 DEF allOffered
  <1>4. \A op, f, schema : entryOf(op, f, schema)' = entryOf(op, f, schema)
    BY DEF entryOf
  <1>5. \A e, f : From(e, f)' = From(e, f)
    BY <1>1, <1>4 DEF From
  <1>6. \A n, f : FirstWith(n, f)' = FirstWith(n, f)
    BY <1>1, <1>2 DEF FirstWith
  <1>7. \A r : FromFirst(r)' = FromFirst(r)
    BY <1>1, <1>5, <1>6 DEF FromFirst
  <1>8. \A k : offeredBefore(k)' = offeredBefore(k)
    BY <1>1, <1>2 DEF offeredBefore
  <1>9. unambiguous' = unambiguous
    BY <1>1 DEF unambiguous
  <1>10. \A res, r : Outcome(res, r)' = Outcome(res, r)
    BY <1>1, <1>3, <1>7 DEF Outcome
  <1> QED
    BY <1>1, <1>2, <1>3, <1>4, <1>5, <1>6, <1>7, <1>8, <1>9, <1>10

\* What the entry of an operation says.
LEMMA EntryOfFacts ==
    ASSUME NEW op, NEW f, NEW schema, NEW e, e = entryOf(op, f, schema)
    PROVE  /\ e.tool = generatedTool(op, schema, deployment.structured)
           /\ e.config = generatedConfig(op, extractHostFromOpenAPISpec(deployment.files[f]), e.tool)
           /\ e.tool.name = op.id
           /\ e.tool.output = IF deployment.structured THEN outputSchema(schema) ELSE NoSchema
           /\ e.config.host = extractHostFromOpenAPISpec(deployment.files[f])
           /\ e.config.path = op.path /\ e.config.method = op.method
           /\ e.config.structured <=> e.tool.output # NoSchema
  <1>1. /\ e.tool = generatedTool(op, schema, deployment.structured)
        /\ e.config = generatedConfig(op, extractHostFromOpenAPISpec(deployment.files[f]), e.tool)
    BY DEF entryOf, Entry
  <1>2. /\ e.tool.name = op.id
        /\ e.tool.output = IF deployment.structured THEN outputSchema(schema) ELSE NoSchema
    BY <1>1 DEF generatedTool
  <1>3. /\ e.config.host = extractHostFromOpenAPISpec(deployment.files[f])
        /\ e.config.path = op.path /\ e.config.method = op.method
        /\ e.config.structured = (e.tool.output # NoSchema)
    BY <1>1 DEF generatedConfig
  <1> QED
    BY <1>1, <1>2, <1>3

\* A tool is from a file that offers its name.
LEMMA FromOffers ==
    ASSUME NEW e, NEW f, From(e, f)
    PROVE  e.tool.name \in offered(f)
  BY EntryOfFacts DEF From, offered

\* The documents of a deployment.
LEMMA Documents ==
    ASSUME deployment \in Deployments
    PROVE  /\ Len(deployment.files) \in Nat
           /\ DOMAIN deployment.files = 1 .. Len(deployment.files)
           /\ \A f \in specFiles : f \in Nat /\ f # 0 /\ f <= Len(deployment.files)
           /\ \A f \in specFiles : f \in DOMAIN deployment.files
  <1>1. /\ Len(deployment.files) \in Nat
        /\ DOMAIN deployment.files = 1 .. Len(deployment.files)
    BY LoadAssumption
  <1>2. specFiles \subseteq DOMAIN deployment.files
    BY DEF specFiles
  <1> QED
    BY <1>1, <1>2

\* What the files before one offer.
LEMMA Before ==
    ASSUME deployment \in Deployments
    PROVE  /\ offeredBefore(1) = {}
           /\ \A k \in Nat : offeredBefore(k + 1) =
                 offeredBefore(k) \cup (IF k \in specFiles THEN offered(k) ELSE {})
           /\ offeredBefore(Len(deployment.files) + 1) = allOffered
  <1>1. \A f \in specFiles : f \in Nat /\ f # 0 /\ f <= Len(deployment.files) /\ Len(deployment.files) \in Nat
    BY Documents
  <1>2. {g \in specFiles : g < 1} = {}
    BY <1>1
  <1>3. ASSUME NEW k \in Nat
        PROVE  {g \in specFiles : g < k + 1} =
                  {g \in specFiles : g < k} \cup (IF k \in specFiles THEN {k} ELSE {})
    BY <1>1
  <1>4. {g \in specFiles : g < Len(deployment.files) + 1} = specFiles
    BY <1>1
  <1>5. ASSUME NEW k \in Nat
        PROVE  offeredBefore(k + 1) = offeredBefore(k) \cup (IF k \in specFiles THEN offered(k) ELSE {})
    <2>1. CASE k \in specFiles
      <3>1. {g \in specFiles : g < k + 1} = {g \in specFiles : g < k} \cup {k}
        BY <1>3, <2>1
      <3> QED
        BY <2>1, <3>1 DEF offeredBefore
    <2>2. CASE k \notin specFiles
      <3>1. {g \in specFiles : g < k + 1} = {g \in specFiles : g < k}
        BY <1>3, <2>2
      <3> QED
        BY <2>2, <3>1 DEF offeredBefore
    <2> QED
      BY <2>1, <2>2
  <1>6. offeredBefore(1) = {}
    BY <1>2 DEF offeredBefore
  <1>7. offeredBefore(Len(deployment.files) + 1) = allOffered
    BY <1>4 DEF offeredBefore, allOffered
  <1> QED
    BY <1>5, <1>6, <1>7

\* A file offers what is not skipped and has a valid name.
LEMMA Offering ==
    ASSUME NEW f, NEW op \in deployment.files[f].operations
    PROVE  op \in offeredBy(f) <=> ~shouldSkipOperation(op) /\ validToolName(op.id)
  <1>1. op.id.length \in 1 .. 128 => op.id.length # 0
    OBVIOUS
  <1> QED
    BY <1>1 DEF offeredBy, shouldSkipOperation, hasSupportedRequestBody, validToolName, maxToolNameLength

\* The names of the operations are names.
LEMMA OperationNames ==
    ASSUME deployment \in Deployments, NEW f \in specFiles, NEW op \in deployment.files[f].operations
    PROVE  op.id \in ToolNames
  <1>1. f \in DOMAIN deployment.files
    BY DEF specFiles
  <1> QED
    BY <1>1 DEF ToolNames

\* R is the registry r with the entry of a visited operation, if that can be added.
VisitAdded(R, r, op, f, schema) ==
    /\ Kept(R)
    /\ toolNames(R) = toolNames(r) \cup (IF op \in offeredBy(f) THEN {op.id} ELSE {})
    /\ \A e \in entries(R) : e \in entries(r) \/ (op \in offeredBy(f) /\ e = entryOf(op, f, schema))

\* Visiting an operation adds its entry to the registry of the file.
LEMMA VisitAdds ==
    ASSUME deployment \in Deployments, NEW r, Kept(r), NEW f \in specFiles,
           NEW op \in deployment.files[f].operations, ~shouldSkipOperation(op), NEW schema,
           NEW host, host = extractHostFromOpenAPISpec(deployment.files[f]),
           NEW R, R = registerOperation(r, op, host, schema, deployment.structured)
    PROVE  VisitAdded(R, r, op, f, schema)
  <1> DEFINE tool == generatedTool(op, schema, deployment.structured)
             config == generatedConfig(op, host, tool)
  <1>1. R = Register(r, tool, config)
    BY DEF registerOperation
  <1>2. tool.name = op.id
    BY DEF generatedTool
  <1>3. op.id \in ToolNames
    BY OperationNames
  <1>4. Entry(tool, config) = entryOf(op, f, schema)
    BY DEF entryOf
  <1>5. op \in offeredBy(f) <=> validToolName(op.id)
    BY Offering
  <1> HIDE DEF tool, config
  <1>6. /\ Kept(R)
        /\ entries(R) = entries(r) \cup
              (IF validToolName(op.id) /\ op.id \notin toolNames(r) THEN {Entry(tool, config)} ELSE {})
        /\ toolNames(R) = toolNames(r) \cup (IF validToolName(op.id) THEN {op.id} ELSE {})
    BY <1>1, <1>2, <1>3, RegisterAdds
  <1>7. \A e \in entries(R) : e \in entries(r) \/ (op \in offeredBy(f) /\ e = entryOf(op, f, schema))
    BY <1>4, <1>5, <1>6
  <1> QED
    BY <1>5, <1>6, <1>7 DEF VisitAdded

-----------------------------------------------------------------------------
(* Every step keeps the invariant.                                           *)

\* What is kept of the invariant by a step that leaves variables alone.
LEMMA LoadFrame ==
    ASSUME LoadInv, deployment' = deployment
    PROVE  /\ (starts' = starts /\ before' = before) => EndedBefore'
           /\ loaded' = loaded => LoadedFrom'
           /\ registry' = registry => RegistryFrom'
  <1>1. (starts' = starts /\ before' = before) => EndedBefore'
    BY SameDocuments DEF LoadInv, EndedBefore
  <1>2. loaded' = loaded => LoadedFrom'
    BY SameDocuments DEF LoadInv, LoadedFrom
  <1>3. registry' = registry => RegistryFrom'
    BY SameDocuments DEF LoadInv, RegistryFrom
  <1> QED
    BY <1>1, <1>2, <1>3

\* A start begins with empty registries.
LEMMA EmptyFrom ==
    ASSUME loaded = newToolRegistry, registry = newToolRegistry
    PROVE  LoadedFrom /\ RegistryFrom
  BY EmptyKept DEF LoadedFrom, RegistryFrom, FromFirst

\* The first start satisfies the invariant.
LEMMA LoadInitHolds == LoadInit => LoadInv
  <1> SUFFICES ASSUME LoadInit PROVE LoadInv
    OBVIOUS
  <1>1. LoadTypes
    BY DEF LoadInit, LoadTypes
  <1>2. LoadedFrom /\ RegistryFrom
    BY EmptyFrom DEF LoadInit
  <1>3. FilesRead
    <2>1. \A f \in specFiles : ~(f < 1)
      BY Documents DEF LoadInit
    <2>2. 1 <= Len(deployment.files) + 1
      BY Documents DEF LoadInit
    <2>3. toolNames(registry) = offeredBefore(1)
      BY Before, EmptyKept DEF LoadInit
    <2> QED
      BY <2>1, <2>2, <2>3 DEF LoadInit, FilesRead
  <1>4. FileUnderWay /\ Ended /\ EndedBefore
    BY DEF LoadInit, FileUnderWay, Ended, EndedBefore
  <1> QED
    BY <1>1, <1>2, <1>3, <1>4 DEF LoadInv

\* A file passed over offers nothing, so the next one finds what it finds.
LEMMA SkipFileKeeps ==
    ASSUME LoadInv, SkipFile
    PROVE  LoadInv'
  <1>1. deployment \in Deployments /\ at \in Nat /\ at # 0
    BY DEF LoadInv, LoadTypes
  <1>2. /\ pc = "files" /\ pc' = "files" /\ at <= Len(deployment.files) /\ at' = at + 1
        /\ deployment' = deployment /\ loaded' = loaded /\ registry' = registry
        /\ result' = result /\ starts' = starts /\ before' = before
    BY DEF SkipFile
  <1>3. at \notin specFiles
    BY DEF SkipFile, specFiles, file
  <1>4. LoadTypes'
    BY <1>1, <1>2 DEF LoadInv, LoadTypes
  <1>5. FilesRead'
    <2>1. /\ result = "none" /\ toolNames(registry) = offeredBefore(at)
          /\ \A f \in specFiles : f < at => \A op \in deployment.files[f].operations : survivable(op)
      BY <1>2 DEF LoadInv, FilesRead
    <2>2. offeredBefore(at + 1) = offeredBefore(at)
      BY <1>1, <1>3, Before
    <2>3. \A f \in specFiles : f < at + 1 => f < at
      BY <1>1, <1>3, Documents
    <2>4. at + 1 <= Len(deployment.files) + 1
      BY <1>1, <1>2, Documents
    <2>5. offeredBefore(at)' = offeredBefore(at + 1)
      BY <1>2, SameDocuments
    <2> QED
      BY <1>2, <2>1, <2>2, <2>3, <2>4, <2>5, SameDocuments DEF FilesRead
  <1>6. FileUnderWay' /\ Ended'
    BY <1>2 DEF FileUnderWay, Ended
  <1> QED
    BY <1>2, <1>4, <1>5, <1>6, LoadFrame DEF LoadInv

\* A file begins with an empty registry and all its operations to visit.
LEMMA OpenFileKeeps ==
    ASSUME LoadInv, OpenFile
    PROVE  LoadInv'
  <1>1. deployment \in Deployments /\ at \in Nat /\ at # 0
    BY DEF LoadInv, LoadTypes
  <1>2. /\ pc = "files" /\ pc' = "operations" /\ at <= Len(deployment.files) /\ at' = at
        /\ todo' = file.operations /\ loaded' = newToolRegistry
        /\ deployment' = deployment /\ registry' = registry
        /\ result' = result /\ starts' = starts /\ before' = before
    BY DEF OpenFile
  <1>3. at \in specFiles
    <2>1. at \in DOMAIN deployment.files
      BY <1>1, <1>2, Documents
    <2> QED
      BY <2>1 DEF OpenFile, specFiles, file
  <1>4. LoadTypes'
    BY <1>1, <1>2 DEF LoadInv, LoadTypes
  <1>5. FilesRead'
    BY <1>2, SameDocuments DEF LoadInv, FilesRead
  <1>6. LoadedFrom'
    BY <1>2, EmptyKept DEF LoadedFrom
  <1>7. FileUnderWay'
    <2>1. file' = file
      BY <1>2 DEF file
    <2>2. offeredBy(at) \ file.operations = {}
      BY DEF offeredBy, file
    <2>3. toolNames(loaded') = {} /\ entries(loaded') = {}
      BY <1>2, EmptyKept
    <2>4. offeredBy(at)' = offeredBy(at)
      BY <1>2, SameDocuments
    <2> QED
      BY <1>2, <1>3, <2>1, <2>2, <2>3, <2>4, SameDocuments DEF FileUnderWay
  <1>8. Ended'
    BY <1>2 DEF Ended
  <1> QED
    BY <1>2, <1>4, <1>5, <1>6, <1>7, <1>8, LoadFrame DEF LoadInv

\* An operation that is skipped is not offered.
LEMMA SkipOperationKeeps ==
    ASSUME LoadInv, NEW op \in todo, SkipOperation(op)
    PROVE  LoadInv'
  <1>1. /\ pc = "operations" /\ pc' = pc /\ at' = at /\ todo' = todo \ {op}
        /\ deployment' = deployment /\ loaded' = loaded /\ registry' = registry
        /\ result' = result /\ starts' = starts /\ before' = before
    BY DEF SkipOperation
  <1>2. LoadTypes' /\ FilesRead'
    BY <1>1, SameDocuments DEF LoadInv, LoadTypes, FilesRead
  <1>3. FileUnderWay'
    <2>1. /\ at \in specFiles /\ todo \subseteq file.operations
          /\ toolNames(loaded) = {o.id : o \in offeredBy(at) \ todo}
          /\ \A e \in entries(loaded) : From(e, at)
          /\ \A o \in file.operations \ todo : survivable(o)
      BY <1>1 DEF LoadInv, FileUnderWay
    <2>2. shouldSkipOperation(op) /\ survivable(op)
      BY DEF SkipOperation, survivable
    <2>3. op \notin offeredBy(at)
      BY <2>1, <2>2, Offering DEF file
    <2>4. offeredBy(at) \ (todo \ {op}) = offeredBy(at) \ todo
      BY <2>3
    <2>5. file' = file /\ offeredBy(at)' = offeredBy(at)
      BY <1>1, SameDocuments DEF file
    <2> QED
      BY <1>1, <2>1, <2>2, <2>4, <2>5, SameDocuments DEF FileUnderWay
  <1>4. Ended'
    BY <1>1 DEF Ended
  <1> QED
    BY <1>1, <1>2, <1>3, <1>4, LoadFrame DEF LoadInv

\* An operation that is visited adds its entry, unless an earlier one has its name.
LEMMA VisitOperationKeeps ==
    ASSUME LoadInv, NEW op \in todo, VisitOperation(op)
    PROVE  LoadInv'
  <1>1. /\ pc = "operations" /\ pc' = pc /\ at' = at /\ todo' = todo \ {op}
        /\ deployment' = deployment /\ registry' = registry
        /\ result' = result /\ starts' = starts /\ before' = before
        /\ ~shouldSkipOperation(op)
    BY DEF VisitOperation
  <1>2. /\ at \in specFiles /\ todo \subseteq file.operations
        /\ toolNames(loaded) = {o.id : o \in offeredBy(at) \ todo}
        /\ \A e \in entries(loaded) : From(e, at)
        /\ \A o \in file.operations \ todo : survivable(o)
    BY <1>1 DEF LoadInv, FileUnderWay
  <1>3. PICK schema \in schemasOf(op) :
           /\ ~conversionFails(op, schema)
           /\ loaded' = registerOperation(loaded, op, extractHostFromOpenAPISpec(file), schema,
                                          deployment.structured)
    BY DEF VisitOperation, schemasOf
  <1>4. /\ Kept(loaded')
        /\ toolNames(loaded') = toolNames(loaded) \cup (IF op \in offeredBy(at) THEN {op.id} ELSE {})
        /\ \A e \in entries(loaded') :
              e \in entries(loaded) \/ (op \in offeredBy(at) /\ e = entryOf(op, at, schema))
    <2>1. Kept(loaded) /\ deployment \in Deployments
      BY DEF LoadInv, LoadTypes, LoadedFrom
    <2>2. op \in deployment.files[at].operations
      BY <1>2 DEF file
    <2>3. PICK host, R :
             /\ host = extractHostFromOpenAPISpec(deployment.files[at])
             /\ R = registerOperation(loaded, op, host, schema, deployment.structured)
      OBVIOUS
    <2>4. VisitAdded(R, loaded, op, at, schema)
      BY <1>1, <1>2, <2>1, <2>2, <2>3, VisitAdds
    <2>5. loaded' = R
      BY <1>3, <2>3 DEF file
    <2> QED
      BY <2>4, <2>5 DEF VisitAdded
  <1>5. \A e \in entries(loaded') : From(e, at)
    BY <1>2, <1>3, <1>4 DEF From
  <1>6. LoadTypes' /\ FilesRead'
    BY <1>1, SameDocuments DEF LoadInv, LoadTypes, FilesRead
  <1>7. LoadedFrom'
    BY <1>1, <1>2, <1>4, <1>5, SameDocuments DEF LoadedFrom
  <1>8. FileUnderWay'
    <2>1. toolNames(loaded') = {o.id : o \in offeredBy(at) \ (todo \ {op})}
      <3>1. CASE op \in offeredBy(at)
        <4>1. offeredBy(at) \ (todo \ {op}) = (offeredBy(at) \ todo) \cup {op}
          BY <3>1
        <4> QED
          BY <1>2, <1>4, <3>1, <4>1
      <3>2. CASE op \notin offeredBy(at)
        <4>1. offeredBy(at) \ (todo \ {op}) = offeredBy(at) \ todo
          BY <3>2
        <4> QED
          BY <1>2, <1>4, <3>2, <4>1
      <3> QED
        BY <3>1, <3>2
    <2>2. survivable(op)
      BY <1>3 DEF survivable
    <2>3. file' = file /\ offeredBy(at)' = offeredBy(at)
      BY <1>1, SameDocuments DEF file
    <2>4. \A e \in entries(loaded') : From(e, at)'
      BY <1>1, <1>5, SameDocuments
    <2> QED
      BY <1>1, <1>2, <2>1, <2>2, <2>3, <2>4, SameDocuments DEF FileUnderWay
  <1>9. Ended'
    BY <1>1 DEF Ended
  <1> QED
    BY <1>1, <1>6, <1>7, <1>8, <1>9, LoadFrame DEF LoadInv

\* A crash ends the start with an operation that may crash.
LEMMA CrashOnOperationKeeps ==
    ASSUME LoadInv, NEW op \in todo, CrashOnOperation(op)
    PROVE  LoadInv'
  <1>1. /\ pc = "operations" /\ pc' = "done" /\ at' = at /\ result' = "crashed"
        /\ deployment' = deployment /\ loaded' = loaded /\ registry' = registry
        /\ starts' = starts /\ before' = before
    BY DEF CrashOnOperation
  <1>2. mayCrash(op)
    BY DEF CrashOnOperation, mayCrash, schemasOf
  <1>3. at \in specFiles /\ op \in deployment.files[at].operations
    BY <1>1 DEF LoadInv, FileUnderWay, file
  <1>4. Outcome("crashed", registry)
    BY <1>2, <1>3 DEF LoadInv, RegistryFrom, Outcome
  <1>5. Ended'
    BY <1>1, <1>4, SameDocuments DEF Ended
  <1>6. LoadTypes' /\ FilesRead' /\ FileUnderWay'
    BY <1>1 DEF LoadInv, LoadTypes, FilesRead, FileUnderWay
  <1> QED
    BY <1>1, <1>5, <1>6, LoadFrame DEF LoadInv

\* The registry of a file is merged: a name that is taken is of an earlier file.
LEMMA MergeFileKeeps ==
    ASSUME LoadInv, MergeFile
    PROVE  LoadInv'
  <1>1. /\ pc = "operations" /\ todo = {} /\ pc' = "files" /\ at' = at + 1
        /\ registry' = registerLoadedTools(registry, loaded)
        /\ deployment' = deployment /\ loaded' = loaded
        /\ result' = result /\ starts' = starts /\ before' = before
    BY DEF MergeFile
  <1>2. /\ deployment \in Deployments /\ at \in Nat /\ at # 0
        /\ Kept(loaded) /\ Kept(registry) /\ FromFirst(registry)
    BY DEF LoadInv, LoadTypes, LoadedFrom, RegistryFrom
  <1>3. /\ at \in specFiles
        /\ toolNames(loaded) = offered(at)
        /\ \A e \in entries(loaded) : From(e, at)
        /\ \A op \in deployment.files[at].operations : survivable(op)
    <2>1. offeredBy(at) \ todo = offeredBy(at) /\ file.operations \ todo = file.operations
      BY <1>1
    <2> QED
      BY <1>1, <2>1 DEF LoadInv, FileUnderWay, offered, file
  <1>4. /\ result = "none" /\ toolNames(registry) = offeredBefore(at)
        /\ \A f \in specFiles : f < at => \A op \in deployment.files[f].operations : survivable(op)
    BY <1>1 DEF LoadInv, FilesRead
  <1>5. PICK R : R = registerAll(registry, loaded.tools, loaded.configs, registered(loaded))
    OBVIOUS
  <1>6. registered(loaded) = toolNames(loaded)
    BY <1>2, KeptShape
  <1>7. Kept(R) /\ entries(R) = entries(registry) \cup
           {e \in entries(loaded) : e.tool.name \in registered(loaded) /\ e.tool.name \notin toolNames(registry)}
    <2>1. Merged(R, registry, loaded, registered(loaded))
      BY <1>2, <1>5, MergeAdds
    <2> QED
      BY <2>1 DEF Merged
  <1>8. /\ \A e \in entries(R) : e \in entries(registry) \/
                                 (e \in entries(loaded) /\ e.tool.name \notin toolNames(registry))
        /\ entries(registry) \subseteq entries(R)
        /\ \A e \in entries(loaded) : e \in entries(R) \/ e.tool.name \in toolNames(registry)
    <2>1. \A e \in entries(loaded) : e.tool.name \in registered(loaded)
      BY <1>2, <1>6, EntryFacts
    <2> QED
      BY <1>7, <2>1
  <1>9. FromFirst(R)
    <2>1. SUFFICES ASSUME NEW e \in entries(R)
                   PROVE  \E f \in specFiles : From(e, f) /\ FirstWith(e.tool.name, f)
      BY DEF FromFirst
    <2>2. CASE e \in entries(registry)
      BY <1>2, <2>2 DEF FromFirst
    <2>3. CASE e \in entries(loaded) /\ e.tool.name \notin toolNames(registry)
      <3>1. FirstWith(e.tool.name, at)
        BY <1>4, <2>3 DEF offeredBefore, FirstWith
      <3> QED
        BY <1>3, <2>3, <3>1
    <2> QED
      BY <1>8, <2>2, <2>3
  <1>10. toolNames(R) = offeredBefore(at + 1)
    <2>1. toolNames(R) = toolNames(registry) \cup toolNames(loaded)
      <3>1. /\ toolNames(R) = {e.tool.name : e \in entries(R)}
            /\ toolNames(registry) = {e.tool.name : e \in entries(registry)}
            /\ toolNames(loaded) = {e.tool.name : e \in entries(loaded)}
        BY NamesOfEntries
      <3>2. \A n \in toolNames(R) : n \in toolNames(registry) \/ n \in toolNames(loaded)
        BY <1>8, <3>1
      <3>3. \A n \in toolNames(registry) : n \in toolNames(R)
        BY <1>8, <3>1
      <3>4. \A n \in toolNames(loaded) : n \in toolNames(R)
        BY <1>8, <3>1, <3>3
      <3> QED
        BY <3>2, <3>3, <3>4
    <2> QED
      BY <1>2, <1>3, <1>4, <2>1, Before
  <1>11. registry' = R
    BY <1>1, <1>5 DEF registerLoadedTools
  <1>12. RegistryFrom'
    BY <1>1, <1>7, <1>9, <1>11, SameDocuments DEF RegistryFrom
  <1>13. FilesRead'
    <2>1. \A f \in specFiles : f < at + 1 => f < at \/ f = at
      BY <1>2, Documents
    <2>2. at + 1 <= Len(deployment.files) + 1
      BY <1>2, <1>3, Documents
    <2>3. offeredBefore(at)' = offeredBefore(at + 1)
      BY <1>1, SameDocuments
    <2>4. \A f \in specFiles : f < at + 1 => \A op \in deployment.files[f].operations : survivable(op)
      BY <1>3, <1>4, <2>1
    <2> QED
      BY <1>1, <1>4, <1>10, <1>11, <2>2, <2>3, <2>4, SameDocuments DEF FilesRead
  <1>14. LoadTypes'
    BY <1>1, <1>2 DEF LoadInv, LoadTypes
  <1>15. FileUnderWay' /\ Ended'
    BY <1>1 DEF FileUnderWay, Ended
  <1> QED
    BY <1>1, <1>12, <1>13, <1>14, <1>15, LoadFrame DEF LoadInv

\* The tools left by the allowlist.
LEMMA Filtered ==
    ASSUME NEW r, Kept(r), FromFirst(r), NEW allowlist, allowlist \subseteq toolNames(r),
           NEW R, R = FilterByAllowlist(r, allowlist)
    PROVE  Kept(R) /\ FromFirst(R) /\ toolNames(R) = allowlist
  <1>1. R = registerAll(newToolRegistry, r.tools, r.configs, allowlist)
    BY DEF FilterByAllowlist
  <1>2. PICK r0 : r0 = newToolRegistry
    OBVIOUS
  <1>3. Kept(r0) /\ entries(r0) = {} /\ toolNames(r0) = {}
    BY <1>2, EmptyKept
  <1>4. Kept(R) /\ entries(R) = entries(r0) \cup
           {e \in entries(r) : e.tool.name \in allowlist /\ e.tool.name \notin toolNames(r0)}
    <2>1. Merged(R, r0, r, allowlist)
      BY <1>1, <1>2, <1>3, MergeAdds
    <2> QED
      BY <2>1 DEF Merged
  <1>5. entries(R) = {e \in entries(r) : e.tool.name \in allowlist}
    BY <1>3, <1>4
  <1>6. FromFirst(R)
    BY <1>5 DEF FromFirst
  <1>7. toolNames(R) = allowlist
    <2>1. \A n \in allowlist : \E e \in entries(R) : e.tool.name = n
      BY <1>5, EntryFacts
    <2>2. \A e \in entries(R) : e.tool.name \in allowlist
      BY <1>5
    <2>3. toolNames(R) = {e.tool.name : e \in entries(R)}
      BY NamesOfEntries
    <2> QED
      BY <2>1, <2>2, <2>3
  <1> QED
    BY <1>4, <1>6, <1>7

\* All files are read: result and registry are the outcome of the start.
LEMMA FinishKeeps ==
    ASSUME LoadInv, Finish
    PROVE  LoadInv'
  <1>1. /\ pc = "files" /\ at > Len(deployment.files) /\ pc' = "done"
        /\ result' = IF registered(registry) = {} THEN "noTools"
                     ELSE IF allowlistMissing(registry, deployment.allowlist) # {} THEN "notInAllowlist"
                     ELSE "serving"
        /\ registry' = IF result' = "serving" /\ deployment.allowlist # {}
                       THEN FilterByAllowlist(registry, deployment.allowlist) ELSE registry
        /\ deployment' = deployment /\ at' = at /\ loaded' = loaded
        /\ starts' = starts /\ before' = before
    BY DEF Finish
  <1>2. /\ deployment \in Deployments /\ at \in Nat /\ Kept(registry) /\ FromFirst(registry)
    BY DEF LoadInv, LoadTypes, RegistryFrom
  <1>3. at = Len(deployment.files) + 1
    BY <1>1, <1>2, Documents DEF LoadInv, FilesRead
  <1>4. toolNames(registry) = allOffered /\ registered(registry) = allOffered
    <2>1. toolNames(registry) = offeredBefore(at)
      BY <1>1 DEF LoadInv, FilesRead
    <2>2. toolNames(registry) = allOffered
      BY <1>2, <1>3, <2>1, Before
    <2> QED
      BY <1>2, <2>2, KeptShape
  <1>5. \A f \in specFiles : \A op \in deployment.files[f].operations : survivable(op)
    <2>1. \A f \in specFiles : f < at
      BY <1>2, <1>3, Documents
    <2> QED
      BY <1>1, <2>1 DEF LoadInv, FilesRead
  <1>6. result' = IF allOffered = {} THEN "noTools"
                  ELSE IF deployment.allowlist \subseteq allOffered THEN "serving" ELSE "notInAllowlist"
    BY <1>1, <1>4 DEF allowlistMissing
  <1>7. /\ Kept(registry') /\ FromFirst(registry')
        /\ toolNames(registry') = IF result' = "serving" /\ deployment.allowlist # {}
                                  THEN deployment.allowlist ELSE allOffered
    <2>1. CASE result' = "serving" /\ deployment.allowlist # {}
      <3>1. deployment.allowlist \subseteq toolNames(registry)
        BY <1>4, <1>6, <2>1
      <3>2. PICK allowlist, R : allowlist = deployment.allowlist /\ R = FilterByAllowlist(registry, allowlist)
        OBVIOUS
      <3>3. Kept(R) /\ FromFirst(R) /\ toolNames(R) = allowlist
        BY <1>2, <3>1, <3>2, Filtered
      <3>4. registry' = R
        BY <1>1, <2>1, <3>2
      <3> QED
        BY <2>1, <3>2, <3>3, <3>4
    <2>2. CASE ~(result' = "serving" /\ deployment.allowlist # {})
      <3>1. registry' = registry
        BY <1>1, <2>2
      <3> QED
        BY <1>2, <1>4, <2>2, <3>1
    <2> QED
      BY <2>1, <2>2
  <1>8. Outcome(result', registry')
    BY <1>5, <1>6, <1>7 DEF Outcome
  <1>9. Ended'
    BY <1>1, <1>8, SameDocuments DEF Ended
  <1>10. RegistryFrom'
    BY <1>1, <1>7, SameDocuments DEF RegistryFrom
  <1>11. LoadTypes' /\ FilesRead' /\ FileUnderWay'
    BY <1>1 DEF LoadInv, LoadTypes, FilesRead, FileUnderWay
  <1> QED
    BY <1>1, <1>9, <1>10, <1>11, LoadFrame DEF LoadInv

\* A restart begins again, and the outcome becomes that of the start before.
LEMMA RestartKeeps ==
    ASSUME LoadInv, Restart
    PROVE  LoadInv'
  <1>1. /\ pc = "done" /\ starts' = starts + 1 /\ deployment' = deployment
        /\ before' = [result |-> result, registry |-> registry]
        /\ pc' = "files" /\ at' = 1 /\ result' = "none"
        /\ loaded' = newToolRegistry /\ registry' = newToolRegistry
    BY DEF Restart, Fresh
  <1>2. deployment \in Deployments
    BY DEF LoadInv, LoadTypes
  <1>3. LoadTypes'
    <2>1. starts + 1 \in Nat /\ starts + 1 # 0
      BY DEF LoadInv, LoadTypes
    <2> QED
      BY <1>1, <1>2, <2>1 DEF LoadTypes
  <1>4. LoadedFrom' /\ RegistryFrom'
    BY <1>1, EmptyKept DEF LoadedFrom, RegistryFrom, FromFirst
  <1>5. FilesRead'
    <2>1. \A f \in specFiles : ~(f < 1)
      BY <1>2, Documents
    <2>2. 1 <= Len(deployment.files) + 1
      BY <1>2, Documents
    <2>3. toolNames(registry') = {} /\ offeredBefore(1) = {}
      BY <1>1, <1>2, Before, EmptyKept
    <2>4. offeredBefore(at)' = offeredBefore(1)
      BY <1>1, SameDocuments
    <2> QED
      BY <1>1, <2>1, <2>2, <2>3, <2>4, SameDocuments DEF FilesRead
  <1>6. FileUnderWay' /\ Ended'
    BY <1>1 DEF FileUnderWay, Ended
  <1>7. EndedBefore'
    <2>1. Outcome(result, registry)
      BY <1>1 DEF LoadInv, Ended
    <2>2. before'.result = result /\ before'.registry = registry
      BY <1>1
    <2>3. Outcome(before.result, before.registry)' = Outcome(before'.result, before'.registry)
      BY <1>1, SameDocuments
    <2> QED
      BY <2>1, <2>2, <2>3 DEF EndedBefore
  <1> QED
    BY <1>3, <1>4, <1>5, <1>6, <1>7 DEF LoadInv

\* newToolRegistryFromConfig and RunServer keep the inductive invariant, for every
\* deployment and every number of starts.
THEOREM LoadInvHolds == LoadSpec => []LoadInv
  <1>1. LoadInv /\ [LoadNext]_loadVars => LoadInv'
    <2> SUFFICES ASSUME LoadInv, [LoadNext]_loadVars PROVE LoadInv'
      OBVIOUS
    <2>1. CASE SkipFile
      BY <2>1, SkipFileKeeps
    <2>2. CASE OpenFile
      BY <2>2, OpenFileKeeps
    <2>3. CASE Visit
      BY <2>3, SkipOperationKeeps, VisitOperationKeeps, CrashOnOperationKeeps DEF Visit
    <2>4. CASE MergeFile
      BY <2>4, MergeFileKeeps
    <2>5. CASE Finish
      BY <2>5, FinishKeeps
    <2>6. CASE Restart
      BY <2>6, RestartKeeps
    <2>7. CASE UNCHANGED loadVars
      <3>1. /\ deployment' = deployment /\ pc' = pc /\ at' = at /\ todo' = todo /\ loaded' = loaded
            /\ registry' = registry /\ result' = result /\ starts' = starts /\ before' = before
        BY <2>7 DEF loadVars
      <3>2. file' = file /\ offeredBy(at)' = offeredBy(at) /\ offeredBefore(at)' = offeredBefore(at)
        BY <3>1, SameDocuments DEF file
      <3>3. LoadTypes' /\ FilesRead' /\ Ended'
        BY <3>1, <3>2, SameDocuments DEF LoadInv, LoadTypes, FilesRead, Ended
      <3>4. FileUnderWay'
        BY <3>1, <3>2, SameDocuments DEF LoadInv, FileUnderWay
      <3> QED
        BY <3>1, <3>3, <3>4, LoadFrame DEF LoadInv
    <2> QED
      BY <2>1, <2>2, <2>3, <2>4, <2>5, <2>6, <2>7 DEF LoadNext, Load
  <1> QED
    BY <1>1, LoadInitHolds, PTL DEF LoadSpec

-----------------------------------------------------------------------------
(* The properties follow from it.                                            *)

\* The least member of a set of integers.
LEMMA MinOf ==
    ASSUME NEW S, S \subseteq Int, NEW m \in S, \A k \in S : m <= k
    PROVE  Min(S) = m
  <1>1. \A k \in S : (\A j \in S : k <= j) => k = m
    OBVIOUS
  <1> QED
    BY <1>1 DEF Min

\* Register, by binary search, keeps the lists sorted and a configuration for
\* exactly the listed tools.
THEOREM RegistriesStayKept == LoadSpec => []RegistriesKept
  <1>1. LoadInv => RegistriesKept
    BY DEF LoadInv, LoadedFrom, RegistryFrom, RegistriesKept, Kept
  <1> QED
    BY <1>1, LoadInvHolds, PTL

\* Whether a start that does not crash comes up, and under which names it serves
\* tools, does not depend on the order in which Go visits its maps.  A start crashes
\* only if some operation can crash it, and always if one must.
THEOREM NamesAreFixedByDocuments == LoadSpec => []NamesFixedByDocuments
  <1>1. \A op : survivable(op) => ~mustCrash(op)
    BY DEF survivable, mustCrash, schemasOf
  <1>2. LoadInv => NamesFixedByDocuments
    <2> SUFFICES ASSUME LoadInv, pc = "done" PROVE NamesFixedByDocuments
      BY DEF NamesFixedByDocuments
    <2>1. Outcome(result, registry)
      BY DEF LoadInv, Ended
    <2>2. CASE result = "crashed"
      BY <2>1, <2>2 DEF Outcome, NamesFixedByDocuments, allOperations
    <2>3. CASE result # "crashed"
      <3>1. \A op \in allOperations : ~mustCrash(op)
        BY <1>1, <2>1, <2>3 DEF Outcome, allOperations
      <3> QED
        BY <2>1, <2>3, <3>1 DEF Outcome, NamesFixedByDocuments
    <2> QED
      BY <2>2, <2>3
  <1> QED
    BY <1>2, LoadInvHolds, PTL

\* registerLoadedTools never lets a later file take a name over.
THEOREM FirstFileAlwaysWins == LoadSpec => []FirstFileWins
  <1>1. LoadInv => FirstFileWins
    <2> SUFFICES ASSUME LoadInv, pc = "done", result = "serving", NEW n \in toolNames(registry)
                 PROVE  LET first == Min({i \in specFiles : n \in offered(i)})
                            conf  == registry.configs[n]
                        IN  /\ conf.host = extractHostFromOpenAPISpec(deployment.files[first])
                            /\ \E op \in offeredBy(first) :
                                  op.id = n /\ op.path = conf.path /\ op.method = conf.method
      BY DEF FirstFileWins
    <2>1. deployment \in Deployments /\ Kept(registry) /\ FromFirst(registry)
      BY DEF LoadInv, LoadTypes, RegistryFrom
    <2>2. PICK e \in entries(registry) : e.tool.name = n /\ e.config = registry.configs[n]
      BY <2>1, EntryFacts
    <2>3. PICK f \in specFiles : From(e, f) /\ FirstWith(n, f)
      BY <2>1, <2>2 DEF FromFirst
    <2>4. n \in offered(f)
      BY <2>2, <2>3, FromOffers
    <2> DEFINE offering == {i \in specFiles : n \in offered(i)}
    <2>5. offering \subseteq Int /\ f \in offering /\ \A i \in offering : f <= i
      <3>1. \A i \in specFiles : i \in Nat
        BY <2>1, Documents
      <3>2. \A i \in specFiles : i < f => n \notin offered(i)
        BY <2>3 DEF FirstWith
      <3> QED
        BY <2>4, <3>1, <3>2
    <2>6. Min(offering) = f
      <3> HIDE DEF offering
      <3> QED
        BY <2>5, MinOf
    <2>7. PICK op \in offeredBy(f) : \E schema \in schemasOf(op) : e = entryOf(op, f, schema)
      BY <2>3 DEF From
    <2>8. /\ e.config.host = extractHostFromOpenAPISpec(deployment.files[f])
          /\ op.id = n /\ op.path = e.config.path /\ op.method = e.config.method
      BY <2>2, <2>7, EntryOfFacts
    <2> QED
      BY <2>2, <2>6, <2>7, <2>8
  <1> QED
    BY <1>1, LoadInvHolds, PTL

\* Structured content, for one registry.
LEMMA StructuredFrom ==
    ASSUME NEW r, Kept(r), \A e \in entries(r) : \E f \in specFiles : From(e, f), NEW i \in DOMAIN r.tools
    PROVE  /\ r.configs[r.tools[i].name].structured <=> r.tools[i].output # NoSchema
           /\ r.tools[i].output # NoSchema => deployment.structured
  <1>1. PICK e \in entries(r) : e = entryAt(r, i)
    BY DEF entries
  <1>2. e.tool = r.tools[i] /\ e.config = r.configs[r.tools[i].name]
    BY <1>1 DEF entryAt, Entry
  <1>3. PICK f \in specFiles : \E op \in offeredBy(f) : \E schema \in schemasOf(op) : e = entryOf(op, f, schema)
    BY <1>1 DEF From
  <1>4. /\ e.config.structured <=> e.tool.output # NoSchema
        /\ e.tool.output # NoSchema => deployment.structured
    BY <1>3, EntryOfFacts
  <1> QED
    BY <1>2, <1>4

\* UseStructuredOutput is set for exactly the tools that are listed with an output
\* schema.
THEOREM StructuredIsAsListed == LoadSpec => []StructuredAsListed
  <1>1. LoadInv => StructuredAsListed
    <2> SUFFICES ASSUME LoadInv PROVE StructuredAsListed
      OBVIOUS
    <2>1. Kept(loaded) /\ \A e \in entries(loaded) : \E f \in specFiles : From(e, f)
      BY DEF LoadInv, LoadedFrom
    <2>2. Kept(registry) /\ \A e \in entries(registry) : \E f \in specFiles : From(e, f)
      BY DEF LoadInv, RegistryFrom, FromFirst
    <2>3. \A i \in DOMAIN loaded.tools :
             /\ loaded.configs[loaded.tools[i].name].structured <=> loaded.tools[i].output # NoSchema
             /\ loaded.tools[i].output # NoSchema => deployment.structured
      BY <2>1, StructuredFrom
    <2>4. \A i \in DOMAIN registry.tools :
             /\ registry.configs[registry.tools[i].name].structured <=> registry.tools[i].output # NoSchema
             /\ registry.tools[i].output # NoSchema => deployment.structured
      BY <2>2, StructuredFrom
    <2> QED
      BY <2>3, <2>4 DEF StructuredAsListed
  <1> QED
    BY <1>1, LoadInvHolds, PTL

-----------------------------------------------------------------------------
\* The schema found is one of a response, of the lowest success response if any
\* success response has one.
LEMMA SchemaFound ==
    ASSUME NEW responses,
           \A r, s \in responses : r.status \in Int /\ (r.status = s.status => r = s),
           NEW schema \in findJSONSchemaFromResponses(responses), schema # NoSchema
    PROVE  LET success == {r \in responses : r.status \in 200 .. 299 /\ r.schemas # {}}
               lowest  == Min({r.status : r \in success})
           IN  \E r \in responses : schema \in r.schemas /\ (success # {} => r.status = lowest)
  <1> DEFINE described == {r \in responses : r.schemas # {}}
             success   == {r \in described : isSuccess(r)}
             fallback  == {r \in described : r.status = DefaultStatus}
             chosen    == IF success # {} THEN {r \in success : \A s \in success : r.status <= s.status}
                          ELSE IF fallback # {} THEN fallback ELSE described
             statuses  == {r.status : r \in success}
  <1>1. success = {r \in responses : r.status \in 200 .. 299 /\ r.schemas # {}}
    BY DEF isSuccess
  <1>2. schema \in (IF chosen = {} THEN {NoSchema} ELSE UNION {r.schemas : r \in chosen})
    BY DEF findJSONSchemaFromResponses
  <1>3. chosen \subseteq responses
    OBVIOUS
  <1>4. success # {} => chosen = {r \in success : \A s \in success : r.status <= s.status}
    OBVIOUS
  <1>5. \A r \in success : r \in responses
    OBVIOUS
  <1> HIDE DEF chosen, success
  <1>6. PICK r \in chosen : schema \in r.schemas
    BY <1>2
  <1>7. ASSUME success # {} PROVE Min(statuses) = r.status
    <2>1. r \in success /\ \A s \in success : r.status <= s.status
      BY <1>4, <1>6, <1>7
    <2>2. r.status \in statuses /\ statuses \subseteq Int /\ \A k \in statuses : r.status <= k
      BY <1>5, <2>1
    <2> HIDE DEF statuses
    <2> QED
      BY <2>2, MinOf
  <1> QED
    BY <1>1, <1>3, <1>6, <1>7

\* findJSONSchemaFromResponses takes the schema of the lowest 2xx response, if any
\* 2xx response has one.
THEOREM OutputSchemaIsFromSuccess == LoadSpec => []OutputSchemaFromSuccess
  <1>1. LoadInv => OutputSchemaFromSuccess
    <2> SUFFICES ASSUME LoadInv, NEW i \in DOMAIN registry.tools, registry.tools[i].output # NoSchema
                 PROVE  \E f \in specFiles : \E op \in offeredBy(f) :
                          LET success == {r \in op.responses : r.status \in 200 .. 299 /\ r.schemas # {}}
                              lowest  == Min({r.status : r \in success})
                          IN  /\ op.id = registry.tools[i].name
                              /\ \E r \in op.responses :
                                    registry.tools[i].output \in r.schemas /\ (success # {} => r.status = lowest)
      BY DEF OutputSchemaFromSuccess
    <2>1. deployment \in Deployments /\ Kept(registry) /\ FromFirst(registry)
      BY DEF LoadInv, LoadTypes, RegistryFrom
    <2>2. PICK e \in entries(registry) : e = entryAt(registry, i)
      BY DEF entries
    <2>3. e.tool = registry.tools[i]
      BY <2>2 DEF entryAt, Entry
    <2>4. PICK f \in specFiles : From(e, f)
      BY <2>1 DEF FromFirst
    <2>5. PICK op \in offeredBy(f) : \E s \in schemasOf(op) : e = entryOf(op, f, s)
      BY <2>4 DEF From
    <2>6. PICK schema \in schemasOf(op) : e = entryOf(op, f, schema)
      BY <2>5
    <2>7. /\ e.tool.name = op.id
          /\ e.tool.output = IF deployment.structured THEN outputSchema(schema) ELSE NoSchema
      BY <2>6, EntryOfFacts
    <2>8. e.tool.output = schema /\ schema # NoSchema
      BY <2>3, <2>7 DEF outputSchema
    <2>9. \A r, s \in op.responses : r.status \in Int /\ (r.status = s.status => r = s)
      <3>1. f \in DOMAIN deployment.files /\ op \in deployment.files[f].operations
        BY <2>1, Documents DEF offeredBy
      <3> QED
        BY <2>1, <3>1, LoadAssumption
    <2> DEFINE success == {r \in op.responses : r.status \in 200 .. 299 /\ r.schemas # {}}
               lowest  == Min({r.status : r \in success})
    <2>10. \E r \in op.responses : schema \in r.schemas /\ (success # {} => r.status = lowest)
      BY <2>6, <2>8, <2>9, SchemaFound DEF schemasOf
    <2> HIDE DEF success, lowest
    <2>11. /\ op.id = registry.tools[i].name
          /\ \E r \in op.responses :
                registry.tools[i].output \in r.schemas /\ (success # {} => r.status = lowest)
      BY <2>3, <2>7, <2>8, <2>10
    <2> QED
      BY <2>4, <2>5, <2>11 DEF success, lowest
  <1> QED
    BY <1>1, LoadInvHolds, PTL

\* The responses of an operation leave one schema to be found.
OneDescribed(responses) ==
    LET described == {r \in responses : r.schemas # {}}
    IN  /\ \A r \in described : Cardinality(r.schemas) = 1
        /\ \/ \E r \in described : isSuccess(r) \/ r.status = DefaultStatus
           \/ Cardinality(described) <= 1

\* Then one is found, whatever the order.
LEMMA OneSchema ==
    ASSUME NEW responses, IsFiniteSet(responses), OneDescribed(responses),
           \A r, s \in responses : r.status \in Int /\ (r.status = s.status => r = s),
           \A r \in responses : IsFiniteSet(r.schemas),
           NEW x \in findJSONSchemaFromResponses(responses),
           NEW y \in findJSONSchemaFromResponses(responses)
    PROVE  x = y
  <1> DEFINE described == {r \in responses : r.schemas # {}}
             success   == {r \in described : isSuccess(r)}
             fallback  == {r \in described : r.status = DefaultStatus}
             chosen    == IF success # {} THEN {r \in success : \A s \in success : r.status <= s.status}
                          ELSE IF fallback # {} THEN fallback ELSE described
  <1>1. findJSONSchemaFromResponses(responses) =
           IF chosen = {} THEN {NoSchema} ELSE UNION {r.schemas : r \in chosen}
    BY DEF findJSONSchemaFromResponses
  <1>2. chosen \subseteq described /\ described \subseteq responses
        /\ success \subseteq responses /\ fallback \subseteq responses
    OBVIOUS
  <1>3. ASSUME NEW r \in chosen, NEW s \in chosen PROVE r = s
    <2>1. r.status \in Int /\ s.status \in Int /\ (r.status = s.status => r = s)
      <3>1. r \in responses /\ s \in responses
        BY <1>2
      <3> QED
        BY <3>1
    <2>2. CASE success # {}
      <3>1. r.status <= s.status /\ s.status <= r.status
        BY <2>2
      <3> QED
        BY <2>1, <3>1
    <2>3. CASE success = {} /\ fallback # {}
      <3>1. r.status = DefaultStatus /\ s.status = DefaultStatus
        BY <2>3
      <3> QED
        BY <2>1, <3>1
    <2>4. CASE success = {} /\ fallback = {}
      <3>1. Cardinality(described) <= 1
        BY <2>4 DEF OneDescribed
      <3>2. r \in described /\ s \in described /\ IsFiniteSet(described)
        BY <1>2, FS_Subset
      <3> HIDE DEF described
      <3>3. Cardinality(described) \in Nat /\ Cardinality(described) # 0
        BY <3>2, FS_CardinalityType, FS_EmptySet
      <3>4. Cardinality(described) = 1
        BY <3>1, <3>3
      <3>5. \E z : described = {z}
        BY <3>2, <3>4, FS_Singleton
      <3> QED
        BY <3>2, <3>5
    <2> QED
      BY <2>2, <2>3, <2>4
  <1>4. \A r \in described : Cardinality(r.schemas) = 1 /\ IsFiniteSet(r.schemas)
    BY DEF OneDescribed
  <1>5. \A r \in chosen : \E z : r.schemas = {z}
    BY <1>2, <1>4, FS_Singleton
  <1> HIDE DEF chosen
  <1>6. CASE chosen = {}
    BY <1>1, <1>6
  <1>7. CASE chosen # {}
    <2>1. PICK r \in chosen : TRUE
      BY <1>7
    <2>2. chosen = {r}
      BY <1>3
    <2>3. findJSONSchemaFromResponses(responses) = r.schemas
      BY <1>1, <1>7, <2>2
    <2> QED
      BY <1>5, <2>3
  <1> QED
    BY <1>6, <1>7

\* Unambiguous documents have one schema for each operation and one operation for
\* each name of a file.
LEMMA Unambiguous ==
    ASSUME deployment \in Deployments, unambiguous, NEW f \in specFiles
    PROVE  /\ \A op \in deployment.files[f].operations : \A x, y \in schemasOf(op) : x = y
           /\ \A o1, o2 \in offeredBy(f) : o1.id = o2.id => o1 = o2
  <1>1. f \in DOMAIN deployment.files
    BY DEF specFiles
  <1>2. ASSUME NEW op \in deployment.files[f].operations, NEW x \in schemasOf(op), NEW y \in schemasOf(op)
        PROVE  x = y
    <2>1. OneDescribed(op.responses)
      BY DEF unambiguous, OneDescribed
    <2>2. /\ IsFiniteSet(op.responses)
          /\ \A r, s \in op.responses : r.status \in Int /\ (r.status = s.status => r = s)
          /\ \A r \in op.responses : IsFiniteSet(r.schemas)
      BY <1>1, LoadAssumption
    <2> QED
      BY <2>1, <2>2, OneSchema DEF schemasOf
  <1>3. \A o1, o2 \in offeredBy(f) : o1.id = o2.id => o1 = o2
    BY DEF unambiguous
  <1> QED
    BY <1>2, <1>3

\* Entries of one name are the same, whichever start has made them.
LEMMA SameEntry ==
    ASSUME deployment \in Deployments, unambiguous,
           NEW e, NEW f \in specFiles, From(e, f), FirstWith(e.tool.name, f),
           NEW d, NEW g \in specFiles, From(d, g), FirstWith(d.tool.name, g),
           e.tool.name = d.tool.name
    PROVE  e = d
  <1>1. e.tool.name \in offered(f) /\ e.tool.name \in offered(g)
    BY FromOffers
  <1>2. f = g
    <2>1. f \in Nat /\ g \in Nat
      BY Documents
    <2>2. ~(g < f) /\ ~(f < g)
      BY <1>1 DEF FirstWith
    <2> QED
      BY <2>1, <2>2
  <1>3. PICK o1 \in offeredBy(f) : \E x \in schemasOf(o1) : e = entryOf(o1, f, x)
    BY DEF From
  <1>4. PICK x \in schemasOf(o1) : e = entryOf(o1, f, x)
    BY <1>3
  <1>5. PICK o2 \in offeredBy(f) : \E y \in schemasOf(o2) : d = entryOf(o2, f, y)
    BY <1>2 DEF From
  <1>6. PICK y \in schemasOf(o2) : d = entryOf(o2, f, y)
    BY <1>5
  <1>7. o1.id = o2.id
    BY <1>4, <1>6, EntryOfFacts
  <1>8. o1 = o2
    BY <1>7, Unambiguous
  <1>9. o1 \in deployment.files[f].operations
    BY DEF offeredBy
  <1>10. x = y
    BY <1>8, <1>9, Unambiguous
  <1> QED
    BY <1>4, <1>6, <1>8, <1>10

\* Two starts on unambiguous documents end in the same way.
LEMMA OutcomesAgree ==
    ASSUME deployment \in Deployments, unambiguous,
           NEW res, NEW r, Outcome(res, r), NEW res2, NEW s, Outcome(res2, s)
    PROVE  res = res2 /\ (res # "crashed" => r = s)
  <1>1. \A f \in specFiles : \A op \in deployment.files[f].operations : ~(survivable(op) /\ mayCrash(op))
    <2>1. SUFFICES ASSUME NEW f \in specFiles, NEW op \in deployment.files[f].operations,
                          survivable(op), mayCrash(op)
                   PROVE  FALSE
      OBVIOUS
    <2>2. PICK x \in schemasOf(op) : ~conversionFails(op, x)
      BY <2>1 DEF survivable, mayCrash
    <2>3. PICK y \in schemasOf(op) : conversionFails(op, y)
      BY <2>1 DEF mayCrash, schemasOf
    <2> QED
      BY <2>2, <2>3, Unambiguous
  <1>2. res = "crashed" <=> res2 = "crashed"
    BY <1>1 DEF Outcome
  <1>3. CASE res = "crashed"
    BY <1>2, <1>3
  <1>4. CASE res # "crashed"
    <2>1. res = res2 /\ toolNames(r) = toolNames(s)
      BY <1>2, <1>4 DEF Outcome
    <2>2. Kept(r) /\ Kept(s) /\ FromFirst(r) /\ FromFirst(s)
      BY DEF Outcome
    <2>3. \A e \in entries(r) : \E d \in entries(s) : d.tool.name = e.tool.name
      BY <2>1, <2>2, EntryFacts
    <2>4. \A d \in entries(s) : \E e \in entries(r) : d.tool.name = e.tool.name
      BY <2>1, <2>2, EntryFacts
    <2>5. \A e \in entries(r), d \in entries(s) : e.tool.name = d.tool.name => e = d
      BY <2>2, SameEntry DEF FromFirst
    <2>6. entries(r) = entries(s)
      <3>1. \A e \in entries(r) : e \in entries(s)
        BY <2>3, <2>5
      <3>2. \A d \in entries(s) : d \in entries(r)
        BY <2>4, <2>5
      <3> QED
        BY <3>1, <3>2
    <2> QED
      BY <2>1, <2>2, <2>6, SameEntries
  <1> QED
    BY <1>3, <1>4

\* A restart on unambiguous documents ends in the same result and registry.
THEOREM RestartIsSameIfUnambiguous == LoadSpec => []RestartSameIfUnambiguous
  <1>1. LoadInv => RestartSameIfUnambiguous
    <2> SUFFICES ASSUME LoadInv, pc = "done", starts > 1, unambiguous
                 PROVE  result = before.result /\ (result # "crashed" => registry = before.registry)
      BY DEF RestartSameIfUnambiguous
    <2>1. /\ deployment \in Deployments
          /\ Outcome(result, registry) /\ Outcome(before.result, before.registry)
      BY DEF LoadInv, LoadTypes, Ended, EndedBefore
    <2> QED
      BY <2>1, OutcomesAgree
  <1> QED
    BY <1>1, LoadInvHolds, PTL
==============================================================================
