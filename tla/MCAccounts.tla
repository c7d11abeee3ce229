----------------------------- MODULE MCAccounts -----------------------------
EXTENDS Accounts, TLC

CONSTANTS c1, c2, k1, k2

\* The session limit of 1 comes with the token or is set over rows that are there.
Strict == [revoked |-> FALSE, devices |-> 1, sessions |-> 1]
Loose == [revoked |-> FALSE, devices |-> 1, sessions |-> 0]

Ask == {[NoPatch EXCEPT !.sessions = 1], [NoPatch EXCEPT !.devices = 0],
        [NoPatch EXCEPT !.label = TRUE],
        [NoPatch EXCEPT !.machine = k1, !.revoke = TRUE], [NoPatch EXCEPT !.machine = k1]}

One == k1 :> {c1} @@ k2 :> {c1}
Both == k1 :> {c1} @@ k2 :> {c2}
Single == k1 :> {c1} @@ k2 :> {}

B(issued, uses, bytes, faults, snapshots, edits) ==
    [issued |-> issued, uses |-> uses, bytes |-> bytes, faults |-> faults,
     snapshots |-> snapshots, edits |-> edits]

\* Failures under traffic; one edit over two connections; two edits; two clients and a snapshot.
Small == {B(Strict, One, 1, 1, 0, 0), B(Strict, One, 0, 0, 0, 1), B(Loose, One, 0, 0, 0, 1),
          B(Strict, Single, 0, 0, 0, 2), B(Strict, Both, 0, 0, 1, 0)}
=============================================================================
