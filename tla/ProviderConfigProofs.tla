------------------------ MODULE ProviderConfigProofs ------------------------
(***************************************************************************)
(* Theorems about ProviderConfig, for every configuration.                 *)
(***************************************************************************)
EXTENDS ProviderConfig, TLAPS

\* A generated SNI is one of the configured ones: the remainder stays within
\* the list, whatever the hash of the address (sni.go:10-17).
THEOREM SNIIsConfigured ==
    ASSUME NEW sniCfg, NEW ip, IpHash[ip] \in Nat,
           sniCfg # Nil => sniCfg.names \in Seq(STRING)
    PROVE  \/ GenerateSNI(sniCfg, ip) = Empty
           \/ \E i \in 1 .. Len(sniCfg.names) : GenerateSNI(sniCfg, ip) = sniCfg.names[i]
<1> DEFINE i == (IpHash[ip] % Len(sniCfg.names)) + 1
<1>1. CASE sniCfg = Nil \/ ~sniCfg.use \/ sniCfg.names = <<>>
  BY <1>1 DEF GenerateSNI
<1>2. CASE ~(sniCfg = Nil \/ ~sniCfg.use \/ sniCfg.names = <<>>)
  <2>1. Len(sniCfg.names) \in Nat /\ Len(sniCfg.names) > 0
    BY <1>2
  <2>2. i \in 1 .. Len(sniCfg.names)
    BY <2>1
  <2>3. GenerateSNI(sniCfg, ip) = sniCfg.names[i]
    BY <1>2 DEF GenerateSNI
  <2> QED BY <2>2, <2>3
<1> QED BY <1>1, <1>2

\* The name is the masquerade's own, else the provider's, else the front's
\* domain; without an SNI it is always the domain.
LEMMA NameIsChosen ==
    ASSUME NEW p, NEW m, m.domain # Empty, m.domain # Nil
    PROVE  VerifiedName(ExpandedMasquerade(p, m)) \in
             {m.domain} \cup ({m.verify, p.verify} \ {Nil})
<1> DEFINE f == ExpandedMasquerade(p, m)
<1>1. f.domain = m.domain
  BY DEF ExpandedMasquerade
<1>2. \/ f.verify \in {m.domain} \cup ({m.verify, p.verify} \ {Nil})
      \/ f.verify = Nil /\ f.sni = Empty
  BY DEF ExpandedMasquerade
<1> QED BY <1>1, <1>2 DEF VerifiedName

\* No masquerade that names its front's domain is dialed with a check of the
\* chain alone, which accepts "any cert that chains to a trusted root",
\* unless the configuration asks for it with an empty name: neither the SNI
\* the client generates nor a missing name of the masquerade or the provider
\* leaves the certificate's name unchecked (config.go:197-213,
\* dialer.go:60-99).
THEOREM CertificateNameIsChecked ==
    ASSUME NEW p, NEW m, Nil # Empty, m.domain \notin {Empty, Nil},
           m.verify # Empty, p.verify # Empty
    PROVE  VerifiedName(ExpandedMasquerade(p, m)) # Empty
<1> QED BY NameIsChosen

\* A decoy SNI has no part in the choice of the name that is verified, be it
\* the masquerade's or a generated one (config.go:206-213).
THEOREM DecoyIsNotVerified ==
    ASSUME NEW p, NEW m, m.domain \notin {Empty, Nil}, m.sni # Empty
    PROVE  VerifiedName(ExpandedMasquerade(p, m)) =
             IF m.verify # Nil THEN m.verify
             ELSE IF p.verify # Nil THEN p.verify ELSE m.domain
<1> DEFINE f == ExpandedMasquerade(p, m)
<1>1. f.sni # Empty
  BY DEF ExpandedMasquerade
<1>2. f.verify = IF m.verify # Nil THEN m.verify
                 ELSE IF p.verify # Nil THEN p.verify ELSE m.domain
  BY <1>1 DEF ExpandedMasquerade
<1>3. f.verify # Nil
  BY <1>2
<1> QED BY <1>1, <1>2, <1>3 DEF VerifiedName
-----------------------------------------------------------------------------
LEMMA PrefixProperties ==
    ASSUME NEW S, NEW s \in Seq(S), NEW n \in 1 .. Len(s)
    PROVE  /\ SubSeq(s, 1, n) \in Seq(S) /\ Len(SubSeq(s, 1, n)) = n
           /\ \A i \in 1 .. n : SubSeq(s, 1, n)[i] = s[i]
<1>1. SubSeq(s, 1, n) \in Seq(S) /\ Len(SubSeq(s, 1, n)) = n
  OBVIOUS
<1>2. ASSUME NEW i \in 1 .. n PROVE SubSeq(s, 1, n)[i] = s[i]
  OBVIOUS
<1> QED BY <1>1, <1>2

LEMMA SameElementsSameSequence ==
    ASSUME NEW S, NEW s \in Seq(S), NEW t \in Seq(S), Len(s) = Len(t),
           \A i \in 1 .. Len(s) : s[i] = t[i]
    PROVE  s = t
OBVIOUS

\* IsSuffix is defined by reversing both sequences.
LEMMA SuffixIsSubSeq ==
    ASSUME NEW S, NEW s \in Seq(S) \ {<<>>}, NEW t \in Seq(S)
    PROVE  Sequence!IsSuffix(s, t) /\ Len(s) < Len(t) <=>
             \E n \in 1 .. Len(t) - 1 : SubSeq(t, n + 1, Len(t)) = s
<1> DEFINE m == Len(s)
           k == Len(t)
           rs == Sequence!Reverse(s)
           rt == Sequence!Reverse(t)
<1>1. m \in Nat /\ k \in Nat /\ m > 0
  OBVIOUS
<1>2. /\ rs \in Seq(S) /\ Len(rs) = m /\ \A i \in 1 .. m : rs[i] = s[(m - i) + 1]
      /\ rt \in Seq(S) /\ Len(rt) = k /\ \A i \in 1 .. k : rt[i] = t[(k - i) + 1]
  BY <1>1 DEF Sequence!Reverse
<1> HIDE DEF rs, rt
<1>3. ASSUME Sequence!IsSuffix(s, t), m < k
      PROVE  \E n \in 1 .. k - 1 : SubSeq(t, n + 1, k) = s
  <2>1. m <= k /\ SubSeq(rs, 1, m) = SubSeq(rt, 1, m)
    BY <1>2, <1>3 DEF Sequence!IsSuffix, Sequence!IsPrefix, rs, rt
  <2>2. \A i \in 1 .. m : rs[i] = rt[i]
    <3> SUFFICES ASSUME NEW i \in 1 .. m PROVE rs[i] = rt[i]
      OBVIOUS
    <3>1. SubSeq(rs, 1, m)[i] = rs[i] /\ SubSeq(rt, 1, m)[i] = rt[i]
      BY <1>1, <1>2, <2>1, PrefixProperties
    <3> QED BY <2>1, <3>1
  <2>3. \A j \in 1 .. m : s[j] = t[(k - m) + j]
    <3> SUFFICES ASSUME NEW j \in 1 .. m PROVE s[j] = t[(k - m) + j]
      OBVIOUS
    <3>1. (m - j) + 1 \in 1 .. m /\ (m - j) + 1 \in 1 .. k
      BY <1>1, <2>1
    <3>2. (m - ((m - j) + 1)) + 1 = j /\ (k - ((m - j) + 1)) + 1 = (k - m) + j
      BY <1>1
    <3>3. rs[(m - j) + 1] = s[(m - ((m - j) + 1)) + 1]
      BY <1>2, <3>1
    <3>4. rt[(m - j) + 1] = t[(k - ((m - j) + 1)) + 1]
      BY <1>2, <3>1
    <3> QED BY <2>2, <3>1, <3>2, <3>3, <3>4
  <2>4. SubSeq(t, (k - m) + 1, k) = s
    <3>1. SubSeq(t, (k - m) + 1, k) \in Seq(S) /\ Len(SubSeq(t, (k - m) + 1, k)) = m
      BY <1>1, <1>3
    <3>2. \A j \in 1 .. m : SubSeq(t, (k - m) + 1, k)[j] = t[(k - m) + j]
      BY <1>1, <1>3
    <3> QED BY <2>3, <3>1, <3>2
  <2>5. k - m \in 1 .. k - 1
    BY <1>1, <1>3
  <2> HIDE DEF m, k
  <2> QED BY <2>4, <2>5
<1>4. ASSUME NEW n \in 1 .. k - 1, SubSeq(t, n + 1, k) = s
      PROVE  Sequence!IsSuffix(s, t) /\ m < k
  <2>1. m = k - n /\ m < k
    BY <1>1, <1>4
  <2>2. \A j \in 1 .. m : s[j] = t[n + j]
    BY <1>1, <1>4, <2>1
  <2>3. \A i \in 1 .. m : rs[i] = rt[i]
    <3> SUFFICES ASSUME NEW i \in 1 .. m PROVE rs[i] = rt[i]
      OBVIOUS
    <3>1. (m - i) + 1 \in 1 .. m /\ n + ((m - i) + 1) = (k - i) + 1 /\ i \in 1 .. k
      BY <1>1, <2>1
    <3> QED BY <1>2, <2>2, <3>1
  <2>4. SubSeq(rs, 1, m) = SubSeq(rt, 1, m)
    <3>1. m \in 1 .. Len(rs) /\ m \in 1 .. Len(rt)
      BY <1>1, <1>2, <2>1
    <3> HIDE DEF m
    <3>2. /\ SubSeq(rs, 1, m) \in Seq(S) /\ Len(SubSeq(rs, 1, m)) = m
          /\ \A i \in 1 .. m : SubSeq(rs, 1, m)[i] = rs[i]
      BY <1>2, <3>1, PrefixProperties
    <3>3. /\ SubSeq(rt, 1, m) \in Seq(S) /\ Len(SubSeq(rt, 1, m)) = m
          /\ \A i \in 1 .. m : SubSeq(rt, 1, m)[i] = rt[i]
      BY <1>2, <3>1, PrefixProperties
    <3>4. \A i \in 1 .. m : SubSeq(rs, 1, m)[i] = SubSeq(rt, 1, m)[i]
      BY <2>3, <3>2, <3>3
    <3> QED BY <3>2, <3>3, <3>4, SameElementsSameSequence
  <2>5. Len(rs) <= Len(rt) /\ SubSeq(rs, 1, Len(rs)) = SubSeq(rt, 1, Len(rs))
    <3>1. Len(rs) = m /\ Len(rt) = k /\ m <= k
      BY <1>1, <1>2, <2>1
    <3> HIDE DEF m, k
    <3> QED BY <2>4, <3>1
  <2>6. Sequence!IsPrefix(rs, rt)
    BY <2>5 DEF Sequence!IsPrefix
  <2> QED BY <2>1, <2>6 DEF Sequence!IsSuffix, rs, rt
<1> QED BY <1>3, <1>4

\* A pattern, once it is lowered, covers a host exactly if the pattern as it is
\* written does, whatever the case of either and the port of the host.
LEMMA CoversAsWritten ==
    ASSUME NEW pt \in [wild : BOOLEAN, name : Hosts], NEW h \in Hosts
    PROVE  Covers([pt EXCEPT !.name = Lower(@)], Canonical(h)) <=>
             /\ ~pt.name.port
             /\ IF pt.wild
                  THEN \E n \in 1 .. Len(h.labels) - 1 :
                           SubSeq(h.labels, n + 1, Len(h.labels)) = pt.name.labels
                  ELSE pt.name.labels = h.labels
<1> DEFINE low == [pt EXCEPT !.name = Lower(@)]
           c == Canonical(h)
<1>1. c.labels = h.labels /\ ~c.upper /\ ~c.port /\ c \in Hosts
  BY DEF Canonical, Lower, StripPort, Hosts
<1>2. /\ low.wild = pt.wild /\ low.name = Lower(pt.name)
      /\ Lower(pt.name) \in Hosts
      /\ Lower(pt.name).labels = pt.name.labels
      /\ Lower(pt.name).upper = FALSE /\ Lower(pt.name).port = pt.name.port
  BY DEF Lower, Hosts
<1>3. Lower(pt.name) = c <=> ~pt.name.port /\ pt.name.labels = h.labels
  BY <1>1, <1>2 DEF Hosts
<1>4. h.labels \in Seq(Label) /\ pt.name.labels \in Seq(Label) \ {<<>>}
  BY DEF Hosts
<1>5. pt.name.port \in BOOLEAN /\ pt.wild \in BOOLEAN /\ c.upper = FALSE /\ c.port = FALSE
  BY <1>1 DEF Hosts
<1> HIDE DEF low, c
<1>6. CASE pt.wild
  <2>1. Covers(low, c) <=>
          /\ Sequence!IsSuffix(pt.name.labels, h.labels)
          /\ Len(pt.name.labels) < Len(h.labels)
          /\ pt.name.port = FALSE
    BY <1>1, <1>2, <1>5, <1>6 DEF Covers
  <2>2. Sequence!IsSuffix(pt.name.labels, h.labels) /\ Len(pt.name.labels) < Len(h.labels) <=>
          \E n \in 1 .. Len(h.labels) - 1 :
              SubSeq(h.labels, n + 1, Len(h.labels)) = pt.name.labels
    <3> DEFINE s == pt.name.labels
               t == h.labels
    <3> HIDE DEF s, t
    <3>1. s \in Seq(Label) \ {<<>>} /\ t \in Seq(Label)
      BY <1>4 DEF s, t
    <3>2. Sequence!IsSuffix(s, t) /\ Len(s) < Len(t) <=>
            \E n \in 1 .. Len(t) - 1 : SubSeq(t, n + 1, Len(t)) = s
      BY <3>1, SuffixIsSubSeq, Zenon
    <3> QED BY <3>2 DEF s, t
  <2>3. Covers(low, c) <=>
          /\ ~pt.name.port
          /\ \E n \in 1 .. Len(h.labels) - 1 :
                SubSeq(h.labels, n + 1, Len(h.labels)) = pt.name.labels
    BY <1>5, <2>1, <2>2
  <2> QED BY <1>6, <2>3 DEF low, c
<1>7. CASE ~pt.wild
  <2>1. Covers(low, c) <=> Lower(pt.name) = c
    BY <1>2, <1>7 DEF Covers
  <2> QED BY <1>3, <1>7, <2>1 DEF low, c
<1> QED BY <1>5, <1>6, <1>7

\* A host is sent under a name that the configuration as it is written gives
\* it, whatever the case of keys and patterns and the port of the host, and
\* has no name exactly if the configuration gives it none (config.go:65-90,
\* 157-163).
THEOREM LookupAsWritten ==
    ASSUME NEW p, WellWritten(p), NEW ep \in ExpandedProviders(p), NEW h \in Hosts
    PROVE  /\ AliasesOf(p, h) # {} => Lookup(ep, h) \in AliasesOf(p, h)
           /\ AliasesOf(p, h) = {} =>
                Lookup(ep, h) = IF Maps(p, h) THEN Canonical(h) ELSE Empty
<1> DEFINE c == Canonical(h)
           alias == Entry(ep.aliases, c, Empty)
<1>1. PICK low \in LoweredAliases(p.aliases) :
        /\ ep.aliases = low
        /\ ep.patterns = {[pt EXCEPT !.name = Lower(@)] : pt \in p.patterns}
  BY DEF ExpandedProviders
<1>2. /\ DOMAIN low = {Lower(k) : k \in DOMAIN p.aliases}
      /\ \A l \in DOMAIN low : \E k \in DOMAIN p.aliases : Lower(k) = l /\ low[l] = p.aliases[k]
  BY DEF LoweredAliases
<1>3. alias # Empty => alias \in AliasesOf(p, h)
  BY <1>1, <1>2 DEF Entry, AliasesOf
<1>4. alias = Empty => AliasesOf(p, h) = {}
  <2> SUFFICES ASSUME alias = Empty, NEW k \in DOMAIN p.aliases, Lower(k) = c
               PROVE  p.aliases[k] = Empty
    BY DEF AliasesOf
  <2>1. PICK l \in DOMAIN p.aliases : Lower(l) = c /\ low[c] = p.aliases[l]
    BY <1>2
  <2>2. low[c] = Empty
    BY <1>1, <1>2 DEF Entry
  <2> QED BY <2>1, <2>2 DEF WellWritten
<1>5. AliasesOf(p, h) = {} => (Maps(p, h) <=> \E pt \in ep.patterns : Covers(pt, c))
  <2> SUFFICES ASSUME AliasesOf(p, h) = {}
               PROVE  Maps(p, h) <=> \E pt \in p.patterns : Covers([pt EXCEPT !.name = Lower(@)], c)
    BY <1>1
  <2>1. \A pt \in p.patterns : pt \in [wild : BOOLEAN, name : Hosts]
    BY DEF WellWritten
  <2> QED BY <2>1, CoversAsWritten DEF Maps
<1>6. Lookup(ep, h) = IF alias # Empty THEN alias
                      ELSE IF \E pt \in ep.patterns : Covers(pt, c) THEN c ELSE Empty
  BY DEF Lookup, Canonical
<1> QED BY <1>3, <1>4, <1>5, <1>6
=============================================================================
