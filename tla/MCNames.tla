------------------------------- MODULE MCNames ------------------------------
EXTENDS Names

CONSTANTS cdn, own, six

\* A site on a network of others under the first upstream, and on IPv6 under the second, and one
\* that has nothing but IPv6.
R(a, aaaa) == [t \in Type |-> IF t = "A" THEN a ELSE aaaa]
Two == [u \in Upstream |-> [d \in Domain |->
          IF d = "far" THEN R({}, {six}) ELSE IF u = "u1" THEN R({cdn}, {own}) ELSE R({}, {own})]]

\* The node keeps an answer for a tick, or for as long as its records say but no more than two.
Short == [override |-> 1, min |-> 0, max |-> 3]
Capped == [override |-> 0, min |-> 1, max |-> 2]
Times == {Short, Capped}

\* It starts with the first upstream and room for one answer.
AtFirst == {<<"u1", Capped, 1>>}

\* A rule for the site, one for its network, and one for a program.
Chain == <<[kind |-> "proc", of |-> {}, out |-> "eu"],
           [kind |-> "dom", of |-> {"site"}, out |-> "us"],
           [kind |-> "cidr", of |-> {cdn}, out |-> "de"]>>
=============================================================================
