------------------------------ MODULE Accounts ------------------------------
(***************************************************************************)
(* What a node keeps of its clients while they come and go: tokens and     *)
(* their limits, devices, rows of live sessions, addresses out of the pool *)
(* and the traffic that a tunnel's accountant writes down (node.go,        *)
(* accounting.go, admin_users.go, db/sqlite.go, db/accounting.go).         *)
(*                                                                         *)
(* Handlers of several connections and of administrators interleave        *)
(* between statements: the database has one connection, but apart from     *)
(* AllocateAddress no two statements are a transaction.  The limit of      *)
(* traffic is in Quota, what nodes report to each other in TrafficReport.  *)
(***************************************************************************)
EXTENDS Integers, FiniteSets, FiniteSetsExt

CONSTANTS
    Client,         \* clients, each with one token
    Conn,           \* QUIC connections
    Admin,          \* calls of the admin API that may be under way at a time
    Sid,            \* identifiers of sessions
    None,
    Pool,           \* number of client addresses in the pool
    Limits,         \* what an administrator may set limits to; 0 is no limit
    Patches,        \* what an administrator may ask to change in one call
    Budgets         \* bounds, a behaviour keeps to one of them: how tokens are issued, who comes
                    \* by which connection, units of traffic, faults, snapshots, calls of the admin API

Token == [revoked : BOOLEAN, devices : Limits, sessions : Limits]

Budget == [issued : Token, uses : [Conn -> SUBSET Client], bytes : Nat, faults : Nat,
           snapshots : Nat, edits : Nat]

\* A field of a patch that is absent is None; machine and revoke go together.
Patch == [devices : Limits \cup {None}, sessions : Limits \cup {None}, label : BOOLEAN,
          machine : Conn \cup {None}, revoke : BOOLEAN]

ASSUME AccountsAssumption ==
    /\ None \notin Client \cup Conn \cup Sid \cup Nat
    /\ IsFiniteSet(Conn) /\ IsFiniteSet(Sid)
    /\ Pool \in Nat /\ Limits \subseteq Nat /\ 0 \in Limits
    /\ Budgets \subseteq Budget /\ Patches \subseteq Patch

VARIABLES
    token,          \* the row of tokens
    devices,        \* devices[c][k]: the row of the machine that connection k comes from
    sessions,       \* sessions[s]: whose row it is, or None
    silent,         \* rows untouched for longer than sessionStale
    traffic,        \* table traffic
    assign,         \* table assignments
    conn,           \* connections, their handlers and accountants
    admin,          \* calls of the admin API
    carried,        \* history: units that went through tunnels of the client
    forgotten,      \* history: units nobody will ever count
    over,           \* history: limits that rows exceed since two handlers overlapped, or
                    \* since the limit or the device changed under them
    want,           \* history: the limits administrators last asked for
    clash,          \* history: an edit was written over one its writer had not read
    left            \* what is left of the budget

rows == <<token, devices, sessions, silent, traffic, assign>>
history == <<carried, forgotten, over, want, clash>>
vars == <<rows, conn, admin, history, left>>

Addr == 1..Pool

\* The last four are the tunnel's: running, over, counted for the last time, closed.
Stage == {"new", "authed", "device", "add device", "session", "add session", "start",
          "tunnel", "ending", "last", "closing"}

\* fresh: no limit, row or device of the client changed since the handler read them; kept: no
\* snapshot replaced the assignments since; last: counted up to; writing: what the accountant
\* has yet to add to table traffic.
Connection == [st : Stage, client : Client \cup {None}, hwid : BOOLEAN, addr : Addr \cup {None},
               kept : BOOLEAN, fresh : BOOLEAN, sid : Sid \cup {None},
               total : Nat, last : Nat, writing : Nat,
               failing : BOOLEAN]

NoConn == [st |-> "new", client |-> None, hwid |-> FALSE, addr |-> None, kept |-> TRUE,
           fresh |-> TRUE, sid |-> None, total |-> 0, last |-> 0, writing |-> 0,
           failing |-> FALSE]

Call == [st : {"idle", "device", "label", "limits", "list", "close"}, client : Client \cup {None},
         cur : Token, patch : Patch, todo : SUBSET Sid]

Unlimited == [revoked |-> FALSE, devices |-> 0, sessions |-> 0]
NoPatch == [devices |-> None, sessions |-> None, label |-> FALSE, machine |-> None,
            revoke |-> FALSE]
Idle == [st |-> "idle", client |-> None, cur |-> Unlimited, patch |-> NoPatch, todo |-> {}]

Init ==
    /\ left \in Budgets
    /\ token = [c \in Client |-> left.issued]
    /\ devices = [c \in Client |-> [k \in Conn |-> "none"]]
    /\ sessions = [s \in Sid |-> None]
    /\ silent = {}
    /\ traffic = [c \in Client |-> 0]
    /\ assign = [c \in Client |-> None]
    /\ conn = [k \in Conn |-> NoConn]
    /\ admin = [a \in Admin |-> Idle]
    /\ carried = [c \in Client |-> 0]
    /\ forgotten = [c \in Client |-> 0]
    /\ over = [c \in Client |-> {}]
    /\ want = token
    /\ clash = [c \in Client |-> FALSE]
-----------------------------------------------------------------------------
(***************************************************************************)
(* Counting rows                                                           *)
(***************************************************************************)

SessionsOf(rs, c) == {s \in Sid : rs[s] = c}
MachinesOf(ds, c) == {k \in Conn : ds[c][k] = "on"}

\* Wrong: one more than allowed gets in.
BelowLate(n, limit) == limit = 0 \/ n <= limit
Below(n, limit) == limit = 0 \/ n < limit

TooMany(c, t, ds, rs) ==
    {x \in {"devices", "sessions"} :
        /\ t[c][x] > 0
        /\ t[c][x] < Cardinality(IF x = "devices" THEN MachinesOf(ds, c) ELSE SessionsOf(rs, c))}

\* Limits of c stay exceeded as long as rows are too many, and become so for a cause.
Excuse(c, cause, t, ds, rs) ==
    over' = [over EXCEPT ![c] = (@ \cup cause) \cap TooMany(c, t, ds, rs)]

\* What other handlers of c have read is out of date.
Outdated(cs, c, k) ==
    [l \in Conn |-> IF l # k /\ cs[l].client = c /\ cs[l].st \in {"add device", "add session"}
                      THEN [cs[l] EXCEPT !.fresh = FALSE] ELSE cs[l]]
-----------------------------------------------------------------------------
(***************************************************************************)
(* A connection is authorised, gets its address and raises the tunnel      *)
(***************************************************************************)

Spend(x) == left[x] > 0 /\ left' = [left EXCEPT ![x] = @ - 1]

At(k, st) == conn[k].st = st
Go(k, st) == conn' = [conn EXCEPT ![k].st = st]

\* Revoked is as good as unknown.
Lookup(c) == ~token[c].revoked

\* Once per connection; the tunnel and every stream inherit it.
Authorize(k, c) ==
    /\ At(k, "new") /\ Lookup(c)
    /\ conn' = [conn EXCEPT ![k] = [NoConn EXCEPT !.st = "authed", !.client = c]]
    /\ UNCHANGED <<rows, admin, history, left>>

\* An old client sends no fingerprint.
SetHWID(k) ==
    /\ At(k, "authed")
    /\ conn' = [conn EXCEPT ![k].hwid = TRUE]
    /\ UNCHANGED <<rows, admin, history, left>>

Taken == {assign[c] : c \in Client}
Free == Addr \ Taken
FirstFree == CHOOSE a \in Free : \A b \in Free : a <= b

assignFor(k, a) == conn' = [conn EXCEPT ![k].st = "device", ![k].addr = a]

\* Wrong: a client that comes again gets another address.
AllocateAnew(k) ==
    /\ At(k, "authed") /\ Free # {}
    /\ assignFor(k, FirstFree)
    /\ assign' = [assign EXCEPT ![conn[k].client] = FirstFree]
    /\ UNCHANGED <<token, devices, sessions, silent, traffic, admin, history, left>>
\* One transaction; with the pool exhausted the client sees the decoy.
AllocateAddress(k) ==
    LET c == conn[k].client
    IN  /\ At(k, "authed")
        /\ \/ assign[c] # None /\ assignFor(k, assign[c]) /\ UNCHANGED assign
           \/ /\ assign[c] = None /\ Free # {}
              /\ assignFor(k, FirstFree)
              /\ assign' = [assign EXCEPT ![c] = FirstFree]
        /\ UNCHANGED <<token, devices, sessions, silent, traffic, admin, history, left>>

\* What TouchDevice reads is one step: whatever comes between its reads could as well come
\* before or after them, not so between the last of them and the INSERT.  beginSession ignores
\* its verdict: a revoked machine and one too many go on.
TouchDevice(k) ==
    LET c == conn[k].client
        new == conn[k].hwid /\ devices[c][k] = "none"
    IN  /\ At(k, "device")
        /\ conn' = [conn EXCEPT
              ![k].hwid = FALSE, ![k].fresh = TRUE,
              ![k].st = IF new /\ Below(Cardinality(MachinesOf(devices, c)), token[c].devices)
                          THEN "add device" ELSE "session"]
        /\ UNCHANGED <<rows, admin, history, left>>

AddDevice(k) ==
    LET c == conn[k].client
        ds == [devices EXCEPT ![c][k] = "on"]
    IN  /\ At(k, "add device")
        /\ devices' = ds
        /\ conn' = [Outdated(conn, c, k) EXCEPT ![k].st = "session", ![k].fresh = TRUE]
        /\ Excuse(c, IF conn[k].fresh THEN {} ELSE {"devices"}, token, ds, sessions)
        /\ UNCHANGED <<token, sessions, silent, traffic, assign, admin, carried, forgotten,
                       want, clash, left>>

\* TokenRowByHash and the count of OpenSession; refused a row, the tunnel runs without an
\* accountant.
CountSessions(k) ==
    LET c == conn[k].client
    IN  /\ At(k, "session")
        /\ conn' = [conn EXCEPT
              ![k].fresh = TRUE,
              ![k].st = IF Below(Cardinality(SessionsOf(sessions, c)), token[c].sessions)
                          THEN "add session" ELSE "start"]
        /\ UNCHANGED <<rows, admin, history, left>>

\* Identifiers are random: one nobody uses is as good as another.
Unused == {s \in Sid : /\ sessions[s] = None /\ \A l \in Conn : conn[l].sid # s
                       /\ \A a \in Admin : s \notin admin[a].todo}

newSessionID == CHOOSE s \in Unused : TRUE

AddSession(k) ==
    LET c == conn[k].client
    IN  /\ At(k, "add session")
        /\ Unused # {}
        /\ sessions' = [sessions EXCEPT ![newSessionID] = c]
        /\ conn' = [Outdated(conn, c, k) EXCEPT ![k].st = "start", ![k].fresh = TRUE,
                                                 ![k].sid = newSessionID]
        /\ Excuse(c, IF conn[k].fresh THEN {} ELSE {"sessions"}, token, devices, sessions')
        /\ UNCHANGED <<token, devices, silent, traffic, assign, admin, carried, forgotten, want,
                       clash, left>>

StartTunnel(k) ==
    /\ At(k, "start") /\ Go(k, "tunnel")
    /\ UNCHANGED <<rows, admin, history, left>>

\* serveTunnel returns before it starts the accountant: the row stays behind.
TunnelFails(k) ==
    /\ At(k, "start") /\ Spend("faults")
    /\ conn' = [conn EXCEPT ![k] = NoConn]
    /\ UNCHANGED <<rows, admin, history>>
-----------------------------------------------------------------------------
(***************************************************************************)
(* The accountant of a tunnel                                              *)
(***************************************************************************)

Bump(f, c, n) == [f EXCEPT ![c] = @ + n]

Carry(k) ==
    LET c == conn[k].client
    IN  /\ At(k, "tunnel") /\ Spend("bytes")
        /\ conn' = [conn EXCEPT ![k].total = @ + 1]
        /\ carried' = Bump(carried, c, 1)
        /\ forgotten' = Bump(forgotten, c, IF conn[k].sid = None THEN 1 ELSE 0)
        /\ UNCHANGED <<rows, admin, over, want, clash>>

\* Counting may be under way, which is why the accountant may write once more afterwards.
EndTunnel(k) ==
    /\ At(k, "tunnel")
    /\ Go(k, IF conn[k].sid = None THEN "new" ELSE "ending")
    /\ UNCHANGED <<rows, admin, history, left>>

\* Wrong: the running total is taken for the increment.
UnwrittenAll(k) == conn[k].total
Unwritten(k) == conn[k].total - conn[k].last

\* The accountant that saw the end of the tunnel closes the row next.
Counted(k) == IF At(k, "ending") THEN "closing" ELSE conn[k].st

\* lastSent and lastRecv move first; TouchSession then touches the row, if it is still there.
TouchSession(k) ==
    LET c == conn[k].client
        n == Unwritten(k)
    IN  /\ conn[k].st \in {"tunnel", "ending"} /\ conn[k].sid # None /\ conn[k].writing = 0
        /\ \/ /\ conn' = [conn EXCEPT ![k].last = conn[k].total, ![k].failing = FALSE,
                                      ![k].writing = n,
                                      ![k].st = IF n > 0 /\ At(k, "ending") THEN "last"
                                                                           ELSE Counted(k)]
              /\ silent' = silent \ {conn[k].sid}
              /\ UNCHANGED <<forgotten, left>>
           \/ /\ Spend("faults")
              /\ conn' = [conn EXCEPT ![k].last = conn[k].total, ![k].failing = TRUE,
                                      ![k].st = Counted(k)]
              /\ forgotten' = Bump(forgotten, c, n)
              /\ UNCHANGED silent
        /\ UNCHANGED <<token, devices, sessions, traffic, assign, admin, carried, over, want,
                       clash>>

\* The second statement of TouchSession, which fails or succeeds on its own.
AddTraffic(k) ==
    LET c == conn[k].client
        n == conn[k].writing
    IN  /\ n > 0
        /\ conn' = [conn EXCEPT ![k].writing = 0, ![k].st = IF @ = "last" THEN "closing" ELSE @]
        /\ \/ traffic' = Bump(traffic, c, n) /\ UNCHANGED <<forgotten, left>>
           \/ /\ Spend("faults")
              /\ forgotten' = Bump(forgotten, c, n)
              /\ UNCHANGED traffic
        /\ UNCHANGED <<token, devices, sessions, silent, assign, admin, carried, over, want,
                       clash>>

Dropped(ss) == [s \in Sid |-> IF s \in ss THEN None ELSE sessions[s]]

\* Rows ss go, by whoever deletes them.
Delete(ss) ==
    /\ sessions' = Dropped(ss)
    /\ silent' = silent \ ss
    /\ over' = [c \in Client |-> over[c] \cap TooMany(c, token, devices, Dropped(ss))]

CloseSession(k) ==
    /\ At(k, "closing")
    /\ conn' = [conn EXCEPT ![k] = NoConn]
    /\ \/ Delete({conn[k].sid}) /\ UNCHANGED left
       \/ /\ Spend("faults") /\ UNCHANGED <<sessions, silent, over>>
    /\ UNCHANGED <<token, devices, traffic, assign, admin, carried, forgotten, want, clash>>
-----------------------------------------------------------------------------
(***************************************************************************)
(* The sweep, crashes, snapshots                                           *)
(***************************************************************************)

Touched == {conn[k].sid : k \in {l \in Conn : conn[l].st \in {"add session", "start", "tunnel",
                                                          "ending"} /\ ~conn[l].failing}}

\* Five minutes pass with no touch: ten of them in a row failed, or nobody is there to touch it.
FallsSilent(s) ==
    /\ sessions[s] # None /\ s \notin silent \cup Touched
    /\ silent' = silent \cup {s}
    /\ UNCHANGED <<token, devices, sessions, traffic, assign, conn, admin, history, left>>

\* Wrong: a row is swept for its age alone while its tunnel is counted no more.
SweepFew ==
    /\ silent # {}
    /\ Delete({s \in silent : \E k \in Conn : conn[k].sid = s})
    /\ UNCHANGED <<token, devices, traffic, assign, conn, admin, carried, forgotten, want, clash,
                   left>>

Sweep ==
    /\ silent # {}
    /\ Delete(silent)
    /\ UNCHANGED <<token, devices, traffic, assign, conn, admin, carried, forgotten, want, clash,
                   left>>
Pending(k) == IF conn[k].sid = None THEN 0 ELSE Unwritten(k) + conn[k].writing
PendingOf(c) == SumFunction([k \in Conn |-> IF conn[k].client = c THEN Pending(k) ELSE 0])

\* A crash and the next start; a node that is told to stop waits for no accountant either.
Crash ==
    /\ Spend("faults")
    /\ \E k \in Conn : conn[k] # NoConn
    /\ conn' = [k \in Conn |-> NoConn]
    /\ admin' = [a \in Admin |-> Idle]
    /\ forgotten' = [c \in Client |-> forgotten[c] + PendingOf(c)]
    /\ UNCHANGED <<rows, carried, over, want, clash>>

Shared(as) == \E c, d \in Client : c # d /\ as[c] # None /\ as[c] = as[d]

\* On a replica: rows of its own are carried over, assignments become the master's, whatever
\* those are (carryLocal; HotSwap has the rest).
Snapshot ==
    /\ Spend("snapshots")
    /\ assign' \in {as \in [Client -> Addr \cup {None}] : as # assign /\ ~Shared(as)}
    /\ conn' = [k \in Conn |-> [conn[k] EXCEPT !.kept = conn[k].addr = None]]
    /\ UNCHANGED <<token, devices, sessions, silent, traffic, admin, history>>
-----------------------------------------------------------------------------
(***************************************************************************)
(* Administrators                                                          *)
(***************************************************************************)

Is(a, st) == admin[a].st = st
Proceed(a, st) == admin' = [admin EXCEPT ![a].st = st]

\* patchUser reads the row first.
PatchRead(a) ==
    /\ Is(a, "idle") /\ Spend("edits")
    /\ \E c \in Client, p \in Patches :
          admin' = [admin EXCEPT ![a] = [st |-> "device", client |-> c, cur |-> token[c],
                                         patch |-> p, todo |-> {}]]
    /\ UNCHANGED <<rows, conn, history>>

\* RevokeDevice; a machine that has no row ends the call.
PatchDevice(a) ==
    LET c == admin[a].client
        k == admin[a].patch.machine
        on == IF admin[a].patch.revoke THEN "revoked" ELSE "on"
        ds == [devices EXCEPT ![c][k] = on]
    IN  /\ Is(a, "device")
        /\ \/ k = None /\ Proceed(a, "label") /\ UNCHANGED <<devices, conn, over>>
           \/ /\ k # None /\ devices[c][k] # "none"
              /\ devices' = ds
              /\ conn' = Outdated(conn, c, None)
              /\ Excuse(c, {"devices"}, token, ds, sessions)
              /\ Proceed(a, "label")
           \/ /\ k # None /\ devices[c][k] = "none"
              /\ admin' = [admin EXCEPT ![a] = Idle]
              /\ UNCHANGED <<devices, conn, over>>
        /\ UNCHANGED <<token, sessions, silent, traffic, assign, carried, forgotten, want, clash,
                       left>>

\* PutToken, which also lifts a revocation.
PatchLabel(a) ==
    /\ Is(a, "label")
    /\ Proceed(a, "limits")
    /\ token' = IF admin[a].patch.label THEN [token EXCEPT ![admin[a].client].revoked = FALSE]
                                        ELSE token
    /\ UNCHANGED <<devices, sessions, silent, traffic, assign, conn, history, left>>

\* Wrong: a limit that is not in the request is taken for none.
LimitedOrNone(t, cur, p) ==
    [t EXCEPT !.devices = IF p.devices = None THEN 0 ELSE p.devices,
              !.sessions = IF p.sessions = None THEN 0 ELSE p.sessions]

\* SetTokenLimits writes every limit: those not asked for as they were read.
Limited(t, cur, p) ==
    [t EXCEPT !.devices = IF p.devices = None THEN cur.devices ELSE p.devices,
              !.sessions = IF p.sessions = None THEN cur.sessions ELSE p.sessions]
Asks(p) == p.devices # None \/ p.sessions # None

PatchLimits(a) ==
    LET c == admin[a].client
        cur == admin[a].cur
        p == admin[a].patch
        t == [token EXCEPT ![c] = Limited(@, cur, p)]
        asked == [x \in {"devices", "sessions"} |-> IF p[x] = None THEN want[c][x] ELSE p[x]]
        unread == token[c].devices # cur.devices \/ token[c].sessions # cur.sessions
    IN  /\ Is(a, "limits")
        /\ admin' = [admin EXCEPT ![a] = Idle]
        /\ IF Asks(p)
             THEN /\ token' = t
                  /\ conn' = Outdated(conn, c, None)
                  /\ Excuse(c, {"devices", "sessions"}, t, devices, sessions)
                  /\ want' = [want EXCEPT ![c].devices = asked.devices, ![c].sessions = asked.sessions]
                  /\ clash' = [clash EXCEPT ![c] = @ \/ unread]
             ELSE UNCHANGED <<token, conn, over, want, clash>>
        /\ UNCHANGED <<devices, sessions, silent, traffic, assign, carried, forgotten, left>>

\* revokeUser: the token first, then the rows that are there, one by one.  Tunnels and
\* connections go on.
Revoke(a) ==
    /\ Is(a, "idle") /\ Spend("edits")
    /\ \E c \in Client :
          /\ token' = [token EXCEPT ![c].revoked = TRUE]
          /\ admin' = [admin EXCEPT ![a] = [Idle EXCEPT !.st = "list", !.client = c]]
    /\ UNCHANGED <<devices, sessions, silent, traffic, assign, conn, history>>

RevokeList(a) ==
    /\ Is(a, "list")
    /\ admin' = [admin EXCEPT ![a].st = "close",
                              ![a].todo = SessionsOf(sessions, admin[a].client)]
    /\ UNCHANGED <<rows, conn, history, left>>

\* Errors of CloseSession are ignored here.
RevokeClose(a) ==
    /\ Is(a, "close")
    /\ \/ /\ admin[a].todo = {} /\ admin' = [admin EXCEPT ![a] = Idle]
          /\ UNCHANGED <<sessions, silent, over>>
       \/ \E s \in admin[a].todo :
             /\ admin' = [admin EXCEPT ![a].todo = @ \ {s}]
             /\ Delete({s})
    /\ UNCHANGED <<token, devices, traffic, assign, conn, carried, forgotten, want, clash, left>>

\* adminSessions: any row, whether its tunnel runs or not.
CloseRow ==
    /\ Spend("edits")
    /\ \E s \in Sid : sessions[s] # None /\ Delete({s})
    /\ UNCHANGED <<token, devices, traffic, assign, conn, admin, carried, forgotten, want, clash>>
-----------------------------------------------------------------------------
Handler(k) ==
    \/ \E c \in left.uses[k] : Authorize(k, c)
    \/ SetHWID(k) \/ AllocateAddress(k)
    \/ TouchDevice(k) \/ AddDevice(k) \/ CountSessions(k) \/ AddSession(k)
    \/ StartTunnel(k) \/ TunnelFails(k)

Accountant(k) ==
    \/ Carry(k) \/ EndTunnel(k)
    \/ TouchSession(k) \/ AddTraffic(k) \/ CloseSession(k)

Administrator(a) ==
    \/ PatchRead(a) \/ PatchDevice(a) \/ PatchLabel(a) \/ PatchLimits(a)
    \/ Revoke(a) \/ RevokeList(a) \/ RevokeClose(a)

Next ==
    \/ \E k \in Conn : Handler(k) \/ Accountant(k)
    \/ \E a \in Admin : Administrator(a)
    \/ \E s \in Sid : FallsSilent(s)
    \/ Sweep \/ Crash \/ Snapshot \/ CloseRow

Spec == Init /\ [][Next]_vars

\* The sweeper's ticker and the clock; accountants write down and close what they opened.
Fairness ==
    /\ WF_vars(Sweep)
    /\ \A s \in Sid : WF_vars(FallsSilent(s))
    /\ \A k \in Conn : WF_vars(CloseSession(k))

FairSpec == Spec /\ Fairness
-----------------------------------------------------------------------------
TypeOK ==
    /\ token \in [Client -> Token]
    /\ devices \in [Client -> [Conn -> {"none", "on", "revoked"}]]
    /\ sessions \in [Sid -> Client \cup {None}]
    /\ silent \subseteq {s \in Sid : sessions[s] # None}
    /\ traffic \in [Client -> Nat]
    /\ assign \in [Client -> Addr \cup {None}]
    /\ conn \in [Conn -> Connection]
    /\ admin \in [Admin -> Call]
    /\ carried \in [Client -> Nat]
    /\ forgotten \in [Client -> Nat]
    /\ over \in [Client -> SUBSET {"devices", "sessions"}]
    /\ want \in [Client -> Token]
    /\ clash \in [Client -> BOOLEAN]
    /\ left \in Budget

\* What went through a client's tunnels is in table traffic, or with an accountant that has yet
\* to write it, or was given up for one of the reasons forgotten is history of: nothing is
\* counted twice, by whatever interleaving of flushes, ends of tunnels, failures and crashes.
TrafficAccounted ==
    \A c \in Client : carried[c] = traffic[c] + forgotten[c] + PendingOf(c)

\* Rows of a client exceed a limit only since two of its handlers counted before either wrote,
\* or since an administrator lowered the limit or gave a machine back (TouchDevice, OpenSession).
LimitKept == \A c \in Client : TooMany(c, token, devices, sessions) \subseteq over[c]

\* Not so that new rows keep within the limits, as long as nobody lowers them (db/accounting.go:49,
\* :145): two handlers of one client count before either writes.
NewRowsWithinLimit ==
    [][\A c \in Client : UNCHANGED token /\ TooMany(c, token, devices, sessions) = {}
          => TooMany(c, token, devices', sessions') = {}]_vars

\* No two clients are assigned one address, and a connection has the address its client is
\* assigned, until a snapshot replaces the assignments (AllocateAddress).
AddressesKept ==
    /\ ~Shared(assign)
    /\ \A k \in Conn : conn[k].addr # None /\ conn[k].kept => conn[k].addr = assign[conn[k].client]

\* Not so that no two clients have one address in their tunnels (db/sqlite.go:304-306): a snapshot
\* takes the assignment of one that is up, and the address goes to another.
AddressOfOneClient ==
    \A j, k \in Conn : conn[j].addr # None /\ conn[j].addr = conn[k].addr =>
        conn[j].client = conn[k].client

\* The limits in force are those last asked for, field by field, unless somebody wrote without
\* having read the latest (patchUser).
EditsKept ==
    \A c \in Client : ~clash[c] => /\ token[c].devices = want[c].devices
                                  /\ token[c].sessions = want[c].sessions

\* Not so without that: of two edits of one client the later undoes what the earlier asked for.
NoEditLost == \A c \in Client : /\ token[c].devices = want[c].devices
                                /\ token[c].sessions = want[c].sessions

\* A row whose tunnel is gone, by whatever failure, goes too: it counts against the limit.
SlotsReturn ==
    \A s \in Sid : (sessions[s] # None /\ \A k \in Conn : conn[k].sid # s) ~> sessions[s] = None

\* Until then nobody takes the row up again, whichever client's it was, nor makes it look used: the
\* sweep can count on what it sees.
Abandoned(s) == sessions[s] # None /\ \A k \in Conn : conn[k].sid # s
AbandonedStays ==
    [][\A s \in Sid : Abandoned(s) /\ sessions'[s] # None =>
          Abandoned(s)' /\ sessions'[s] = sessions[s] /\ (s \in silent => s \in silent')]_vars
=============================================================================
