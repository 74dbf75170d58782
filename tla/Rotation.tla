------------------------------ MODULE Rotation ------------------------------
(***************************************************************************)
(* What the front pool promises, without channel, flags or locks: a set of *)
(* available fronts.  A client takes an available front in one step, which *)
(* makes it unavailable, or is lent a known front to vet it; it may put    *)
(* the fronts it has into the set, where each is present at most once.     *)
(***************************************************************************)
CONSTANTS Item, Client, Nothing

VARIABLES
    avail,   \* the fronts available to take
    has,     \* the fronts each client answers for
    lent     \* the front each client vets, if any

vars == <<avail, has, lent>>

Init ==
    /\ avail = {}
    /\ has = [c \in Client |-> {}]
    /\ lent = [c \in Client |-> Nothing]

\* A take hands an available front to one client.
Take(c, x) ==
    /\ x \in avail
    /\ avail' = avail \ {x}
    /\ has' = [has EXCEPT ![c] = @ \cup {x}]
    /\ UNCHANGED lent

\* A client adds a front it has, and need not be rid of it: the client may
\* have come by the front twice.
Put(c, x) ==
    /\ x \in has[c]
    /\ avail' = avail \cup {x}
    /\ \E rest \in {has[c], has[c] \ {x}} : has' = [has EXCEPT ![c] = rest]
    /\ UNCHANGED lent

\* A client vets a known front: it may then answer for it or reject it.
Lend(c, x) ==
    /\ lent[c] = Nothing
    /\ lent' = [lent EXCEPT ![c] = x]
    /\ UNCHANGED <<avail, has>>

Adopt(c) ==
    /\ lent[c] # Nothing
    /\ has' = [has EXCEPT ![c] = @ \cup {lent[c]}]
    /\ lent' = [lent EXCEPT ![c] = Nothing]
    /\ UNCHANGED avail

Reject(c) ==
    /\ lent[c] # Nothing
    /\ lent' = [lent EXCEPT ![c] = Nothing]
    /\ UNCHANGED <<avail, has>>

\* A failed front is not put back.
Fail(c, x) ==
    /\ x \in has[c]
    /\ has' = [has EXCEPT ![c] = @ \ {x}]
    /\ UNCHANGED <<avail, lent>>

\* The pool forgets an available front: it has no room, or the set of known
\* fronts is replaced.
Forget(x) ==
    /\ x \in avail
    /\ avail' = avail \ {x}
    /\ UNCHANGED <<has, lent>>

Next ==
    \/ \E c \in Client, x \in Item :
          Take(c, x) \/ Put(c, x) \/ Lend(c, x) \/ Fail(c, x)
    \/ \E c \in Client : Adopt(c) \/ Reject(c)
    \/ \E x \in Item : Forget(x)

Spec == Init /\ [][Next]_vars
=============================================================================
