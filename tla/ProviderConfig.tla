--------------------------- MODULE ProviderConfig ---------------------------
(***************************************************************************)
(* What a client makes of a provider of its configuration: the names its   *)
(* hosts are sent under (config.go), the SNI and the verified name of its  *)
(* fronts (config.go, sni.go, dialer.go).                                  *)
(*                                                                         *)
(* A host name is its labels, whether it is written with capital letters   *)
(* and whether it carries a port.                                          *)
(***************************************************************************)
EXTENDS Integers, Sequences, FiniteSets

Sequence == INSTANCE SequencesExt

CONSTANTS
    Label,     \* the labels of host names, in lower case
    Country,   \* the client's country code, which may match no entry
    IpHash,    \* the first byte of the hash of each address
    Empty,     \* the empty string
    Nil        \* the nil pointer

Hosts == [labels : Seq(Label) \ {<<>>}, upper : BOOLEAN, port : BOOLEAN]
Host(labels, upper, port) == [labels |-> labels, upper |-> upper, port |-> port]

\* strings.ToLower, net.SplitHostPort
Lower(h) == [h EXCEPT !.upper = FALSE]
StripPort(h) == [h EXCEPT !.port = FALSE]

\* Fault: a wildcard covers the bare domain too.
CoversBareDomain(pt, h) ==
    IF pt.wild THEN Sequence!IsSuffix(pt.name.labels, h.labels) ELSE pt.name = h

\* "*.d" covers the names under d, any other pattern itself.  The case and the
\* port of the pattern's name stay in the comparison.
Covers(pt, h) ==
    IF pt.wild
      THEN /\ Sequence!IsSuffix(pt.name.labels, h.labels)
           /\ Len(pt.name.labels) < Len(h.labels)
           /\ pt.name.upper = h.upper /\ pt.name.port = h.port
      ELSE pt.name = h

\* A map's entry, or the zero value.
Entry(map, key, zero) == IF key \in DOMAIN map THEN map[key] ELSE zero

Lookup(p, hostname) ==
    LET h == Lower(StripPort(hostname))
        alias == Entry(p.aliases, h, Empty)
    IN IF alias # Empty THEN alias
       ELSE IF \E pt \in p.patterns : Covers(pt, h) THEN h ELSE Empty
-----------------------------------------------------------------------------
GenerateSNI(sniCfg, ip) ==
    IF sniCfg = Nil \/ ~sniCfg.use \/ sniCfg.names = <<>>
      THEN Empty
      ELSE sniCfg.names[(IpHash[ip] % Len(sniCfg.names)) + 1]

\* The country's entry, even a nil one, else the default one.
SNIStrategy(p) ==
    Entry(p.frontingSNIs, Country, Entry(p.frontingSNIs, "default", Nil))

\* A masquerade of p as the client dials it.
ExpandedMasquerade(p, m) ==
    LET generated == GenerateSNI(SNIStrategy(p), m.ip)
        sni == IF generated # Empty THEN generated ELSE m.sni
        given == IF m.verify # Nil THEN m.verify ELSE p.verify
    IN [domain |-> m.domain, ip |-> m.ip, sni |-> sni,
        verify |-> IF given = Nil /\ sni # Empty /\ m.domain # Empty
                     THEN m.domain ELSE given]

\* The map is filled in no particular order: of two keys that differ in case
\* only, either may win.
LoweredAliases(aliases) ==
    {low \in [{Lower(k) : k \in DOMAIN aliases} -> {aliases[k] : k \in DOMAIN aliases}] :
        \A h \in DOMAIN low :
            \E k \in DOMAIN aliases : Lower(k) = h /\ low[h] = aliases[k]}

\* What ExpandedProvider may return.
ExpandedProviders(p) ==
    {[aliases |-> low,
      patterns |-> {[pt EXCEPT !.name = Lower(@)] : pt \in p.patterns},
      masquerades |-> {ExpandedMasquerade(p, m) : m \in p.masquerades},
      verify |-> p.verify, frontingSNIs |-> p.frontingSNIs, testURL |-> p.testURL] :
        low \in LoweredAliases(p.aliases)}

\* The name dialFront verifies the edge's certificate against; with Empty it
\* verifies the chain only.
VerifiedName(f) ==
    IF f.sni = Empty THEN f.domain
    ELSE IF f.verify = Nil THEN Empty ELSE f.verify
-----------------------------------------------------------------------------
\* A provider as it may be written: keys and patterns are host names, and keys
\* that differ in case only agree on whether there is an alias.
WellWritten(p) ==
    /\ DOMAIN p.aliases \subseteq Hosts
    /\ \A k, l \in DOMAIN p.aliases :
          Lower(k) = Lower(l) => (p.aliases[k] = Empty <=> p.aliases[l] = Empty)
    /\ p.patterns \subseteq [wild : BOOLEAN, name : Hosts]

\* What a provider's configuration, as it is written, says of a host: an
\* alias under the same name, or a pattern that covers it; case and port do
\* not matter.
Canonical(h) == Lower(StripPort(h))
AliasesOf(p, h) ==
    {p.aliases[k] : k \in {k \in DOMAIN p.aliases : Lower(k) = Canonical(h)}} \ {Empty}
Maps(p, h) ==
    \/ AliasesOf(p, h) # {}
    \/ \E pt \in p.patterns :
          /\ ~pt.name.port
          /\ IF pt.wild
               THEN \E n \in 1 .. Len(h.labels) - 1 :
                        SubSeq(h.labels, n + 1, Len(h.labels)) = pt.name.labels
               ELSE pt.name.labels = h.labels
=============================================================================
