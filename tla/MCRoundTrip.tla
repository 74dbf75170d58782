---------------------------- MODULE MCRoundTrip ----------------------------
(***************************************************************************)
(* Small instances of RoundTrip for TLC.                                   *)
(***************************************************************************)
EXTENDS RoundTrip

CONSTANTS c1, c2, A, B, f1, f2, f3, api, example, edge

\* Two providers: f2 is the only front of the second.
MCProviderOf == [f \in Front |-> IF f = f2 THEN B ELSE A]
MCWarm == <<f1, f2, f3>>
MCWarmPair == <<f1, f2>>

\* The host api.example, and EXAMPLE with a port.
Api == <<api, example>>
MCOrigin ==
    [c \in Call |->
        IF c = c1 THEN Host(Api, FALSE, FALSE) ELSE Host(<<example>>, TRUE, TRUE)]

Says(aliases, patterns) ==
    [aliases |-> aliases, patterns |-> patterns, masquerades |-> {}, verify |-> Nil,
     frontingSNIs |-> <<>>, testURL |-> "url"]
Pattern(wild, labels) == [wild |-> wild, name |-> Host(labels, TRUE, FALSE)]

\* An alias API.EXAMPLE beside *.EXAMPLE, which does not cover EXAMPLE, or the
\* two patterns that cover the two hosts.
MCOffered ==
    {Says([h \in {Host(Api, TRUE, FALSE)} |-> Host(<<edge>>, FALSE, FALSE)],
          {Pattern(TRUE, <<example>>)}),
     Says(<<>>, {Pattern(TRUE, <<example>>), Pattern(FALSE, <<example>>)})}
=============================================================================
