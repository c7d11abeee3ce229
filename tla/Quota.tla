------------------------------- MODULE Quota -------------------------------
(***************************************************************************)
(* The traffic limit of one client (quota.go): periods that start and end  *)
(* lazily, whenever somebody asks, on a row that the master owns and       *)
(* replicas have as of their last snapshot.                                *)
(*                                                                         *)
(* QuotaOf reads the row, then the total, and then writes up to twice,     *)
(* each in a statement of its own.  Traffic is counted in units, time in   *)
(* ticks; a deadline is how many ticks are left to it, so time itself      *)
(* needs no bound.  How totals reach the master and come back with         *)
(* snapshots is in TrafficReport.                                          *)
(***************************************************************************)
EXTENDS Integers

CONSTANTS
    Node, Master,
    Checker,        \* calls of QuotaOf that may be under way at a time
    Plan,           \* what the administrator may set: limit and days, each 0 for none
    MaxTotal,       \* bound: units of traffic
    MaxLate,        \* bound: ticks a deadline is told to be past
    MaxEvents       \* bound: changes of the plan, resets, lost histories and failures, together

ASSUME QuotaAssumption ==
    /\ Master \in Node
    /\ Plan # {} /\ \A p \in Plan : p.limit \in Nat /\ p.days \in Nat
    /\ MaxTotal \in Nat /\ MaxLate \in Nat \ {0} /\ MaxEvents \in Nat

VARIABLES
    total,          \* total[n]: NetworkTrafficOf, as the database of n has it
    row,            \* row[n]: the client's row of tokens at n
    check,          \* check[c]: a call of QuotaOf, by authorize or by a view
    reset,          \* a call of ResetTraffic
    period,         \* history: period[n]: where the last period that n started, or learned of,
                    \* began, and what is left of it
    lost,           \* history: the row was last written over a change its writer had not read
    events

quotaVars == <<total, row, check, reset, period, lost, events>>

Days == {p.days : p \in Plan} \cup {0}
Left == UNION {-MaxLate..d : d \in Days}

\* set: traffic_reset_at is not 0; left: ticks to it
Row == [limit : {p.limit : p \in Plan} \cup {0}, days : Days, base : 0..MaxTotal,
        set : BOOLEAN, left : Left]

\* waved: let in, since its traffic could not be counted
Phase == {"idle", "total", "write", "verdict", "admitted", "refused", "waved"}

Busy == {"total", "write", "verdict"}

\* old: the database was replaced since; fair: nothing the verdict rests on was
\* changed since by hand, nor the base brought down by another call
Check == [st : Phase, at : Node, row : Row, used : 0..MaxTotal, old : BOOLEAN,
          fair : BOOLEAN]

NoRow == [limit |-> 0, days |-> 0, base |-> 0, set |-> FALSE, left |-> 0]

NoPeriod == [begun |-> FALSE, base |-> 0, left |-> 0]

Fresh(p) == [limit |-> p.limit, days |-> p.days, base |-> 0, set |-> FALSE, left |-> 0]

\* No call is under way; the last one was at n.
Answered(n, st) == [st |-> st, at |-> n, row |-> NoRow, used |-> 0, old |-> FALSE,
                    fair |-> FALSE]

QuotaInit ==
    /\ total = [n \in Node |-> 0]
    /\ \E p \in Plan : row = [n \in Node |-> Fresh(p)]
    /\ check = [c \in Checker |-> Answered(Master, "idle")]
    /\ reset = [st |-> "idle", used |-> 0, days |-> 0]
    /\ period = [n \in Node |-> NoPeriod]
    /\ lost = FALSE
    /\ events = 0
-----------------------------------------------------------------------------
(***************************************************************************)
(* Time, traffic and snapshots                                             *)
(***************************************************************************)

Shorter(left) == IF left > -MaxLate THEN left - 1 ELSE left

\* A period started at n is under way, or the limit is for once and all.
Current(n, days) == days = 0 \/ (period[n].begun /\ period[n].left >= 0)

Tick ==
    /\ row' = [n \in Node |-> [row[n] EXCEPT !.left = IF row[n].set THEN Shorter(@) ELSE @]]
    /\ check' = [c \in Checker |-> [check[c] EXCEPT !.row.left =
                                       IF check[c].row.set THEN Shorter(@) ELSE @]]
    /\ period' = [n \in Node |-> [period[n] EXCEPT !.left =
                                   IF period[n].begun THEN Shorter(@) ELSE @]]
    /\ UNCHANGED <<total, reset, lost, events>>

\* A report of a node reaches the master.
Reported ==
    /\ total[Master] < MaxTotal
    /\ total' = [total EXCEPT ![Master] = @ + 1]
    /\ UNCHANGED <<row, check, reset, period, lost, events>>

\* A node that lost its history reports less than it did.
Dip ==
    /\ events < MaxEvents /\ total[Master] > 0
    /\ total' = [total EXCEPT ![Master] = @ - 1]
    /\ events' = events + 1
    /\ UNCHANGED <<row, check, reset, period, lost>>

\* SwapFile: a replica takes over the master's row and totals; calls under way keep the
\* database they have.  The replica learns of the master's period, if that has one.
SwapFile(n) ==
    /\ n # Master
    /\ total' = [total EXCEPT ![n] = total[Master]]
    /\ row' = [row EXCEPT ![n] = row[Master]]
    /\ check' = [c \in Checker |-> IF check[c].at = n THEN [check[c] EXCEPT !.old = TRUE,
                                                                        !.fair = FALSE]
                                   ELSE check[c]]
    /\ period' = IF Current(Master, row[Master].days)
                 THEN [period EXCEPT ![n] = period[Master]] ELSE period
    /\ UNCHANGED <<reset, lost, events>>
-----------------------------------------------------------------------------
(***************************************************************************)
(* The administrator                                                       *)
(***************************************************************************)

Unfair == check' = [c \in Checker |-> [check[c] EXCEPT !.fair = FALSE]]

\* SetTrafficLimit.
SetTrafficLimit(p) ==
    /\ events < MaxEvents
    /\ row' = [row EXCEPT ![Master].limit = p.limit, ![Master].days = p.days]
    /\ Unfair
    /\ events' = events + 1
    /\ UNCHANGED <<total, reset, period, lost>>

\* ResetTraffic reads the total ...
ResetRead ==
    /\ reset.st = "idle" /\ events < MaxEvents
    /\ reset' = [st |-> "days", used |-> total[Master], days |-> 0]
    /\ events' = events + 1
    /\ UNCHANGED <<total, row, check, period, lost>>

\* ... then the length of the period ...
ResetDays ==
    /\ reset.st = "days"
    /\ reset' = [reset EXCEPT !.st = "write", !.days = row[Master].days]
    /\ UNCHANGED <<total, row, check, period, lost, events>>

\* ... and starts a period.
ResetWrite ==
    /\ reset.st = "write"
    /\ row' = [row EXCEPT ![Master].base = reset.used, ![Master].set = reset.days > 0,
                          ![Master].left = reset.days]
    /\ period' = [n \in Node |-> IF n = Master
                     THEN [begun |-> reset.days > 0, base |-> reset.used, left |-> reset.days]
                     ELSE NoPeriod]
    /\ Unfair
    /\ reset' = [st |-> "idle", used |-> 0, days |-> 0]
    /\ lost' = FALSE
    /\ UNCHANGED <<total, events>>
-----------------------------------------------------------------------------
(***************************************************************************)
(* QuotaOf                                                                 *)
(***************************************************************************)

\* The row is read.
ReadRow(c, n) ==
    /\ check[c].st \notin Busy
    /\ check' = [check EXCEPT ![c] = [st |-> "total", at |-> n, row |-> row[n],
                                      used |-> total[n], old |-> FALSE,
                                      fair |-> Current(n, row[n].days)]]
    /\ UNCHANGED <<total, row, reset, period, lost, events>>

\* The total is read, from the same database.
ReadTotal(c) ==
    /\ check[c].st = "total"
    /\ check' = [check EXCEPT ![c].st = "write",
                              ![c].used = IF check[c].old THEN @ ELSE total[check[c].at]]
    /\ UNCHANGED <<total, row, reset, period, lost, events>>

\* setTrafficBase, in the database the call has.
SetBase(c, st, base, set, left) ==
    LET n == check[c].at
        r == check[c].row
    IN  /\ check' = [k \in Checker |->
              IF k = c THEN [check[c] EXCEPT !.st = st, !.row = [r EXCEPT !.base = base,
                                                            !.set = set, !.left = left]]
              ELSE [check[k] EXCEPT !.fair = @ /\ (check[k].at = n => base >= r.base)]]
        /\ row' = IF check[c].old THEN row
                  ELSE [row EXCEPT ![n].base = base, ![n].set = set, ![n].left = left]
        /\ lost' = (lost \/ (~check[c].old /\
                             <<row[n].base, row[n].set, row[n].left>> # <<r.base, r.set, r.left>>))

\* The total is below the base: the base comes down.
WriteDip(c) ==
    /\ check[c].st = "write" /\ check[c].used < check[c].row.base
    /\ SetBase(c, "write", check[c].used, check[c].row.set, check[c].row.left)
    /\ period' = [period EXCEPT ![check[c].at].base =
                                   IF check[c].used < @ THEN check[c].used ELSE @]
    /\ UNCHANGED <<total, reset, events>>

\* Wrong: the period that is running counts as missed only when it is over twice.
NextLeftShort(r) == IF ~r.set THEN r.days ELSE r.left + ((-r.left) \div r.days) * r.days

\* The deadline of the period that starts now: after the missed ones.
NextLeft(r) == IF ~r.set THEN r.days ELSE r.left + ((-r.left) \div r.days + 1) * r.days

\* No period was started, or it is over.
Over(r) == r.days > 0 /\ (~r.set \/ r.left < 0)

\* A period starts in the database of the node, unless one is under way.
Begin(c) ==
    LET n == check[c].at
        r == check[c].row
    IN  period' = IF Current(n, r.days) \/ check[c].old THEN period
                  ELSE [period EXCEPT ![n] = [begun |-> TRUE, base |-> check[c].used,
                                              left |-> NextLeft(r)]]

\* Wrong: the count goes on into the new period.
WritePeriodKeeps(c) ==
    /\ check[c].st = "write" /\ check[c].used >= check[c].row.base /\ Over(check[c].row)
    /\ SetBase(c, "verdict", check[c].row.base, TRUE, NextLeft(check[c].row))
    /\ Begin(c)
    /\ UNCHANGED <<total, reset, events>>

WritePeriod(c) ==
    /\ check[c].st = "write" /\ check[c].used >= check[c].row.base /\ Over(check[c].row)
    /\ SetBase(c, "verdict", check[c].used, TRUE, NextLeft(check[c].row))
    /\ Begin(c)
    /\ UNCHANGED <<total, reset, events>>

\* Wrong: what is used is compared with more than the limit.
ExceededLate(c) ==
    check[c].row.limit > 0 /\ check[c].used - check[c].row.base > check[c].row.limit

\* Exceeded.
Exceeded(c) ==
    check[c].row.limit > 0 /\ check[c].used - check[c].row.base >= check[c].row.limit

\* What quotaExceeded tells authorize.
Verdict(c) ==
    /\ \/ check[c].st = "verdict"
       \/ check[c].st = "write" /\ check[c].used >= check[c].row.base /\ ~Over(check[c].row)
    /\ check' = [check EXCEPT ![c] =
                    Answered(check[c].at, IF Exceeded(c) THEN "refused" ELSE "admitted")]
    /\ UNCHANGED <<total, row, reset, period, lost, events>>

\* A statement fails: what was written stays, and the client is let in.
Fails(c) ==
    /\ check[c].st \in {"total", "write"} /\ events < MaxEvents
    /\ check' = [check EXCEPT ![c] = Answered(check[c].at, "waved")]
    /\ events' = events + 1
    /\ UNCHANGED <<total, row, reset, period, lost>>

GoOn(c) == ReadTotal(c) \/ WriteDip(c) \/ WritePeriod(c) \/ Verdict(c)

QuotaNext ==
    \/ Tick \/ Reported \/ Dip
    \/ \E n \in Node : SwapFile(n)
    \/ \E p \in Plan : SetTrafficLimit(p)
    \/ ResetRead \/ ResetDays \/ ResetWrite
    \/ \E c \in Checker, n \in Node : ReadRow(c, n)
    \/ \E c \in Checker : GoOn(c) \/ Fails(c)

QuotaSpec == QuotaInit /\ [][QuotaNext]_quotaVars

\* Time passes, calls come to their end, snapshots are pulled, and the client tries
\* again, at every node.
QuotaFairSpec ==
    /\ QuotaSpec
    /\ WF_quotaVars(Tick)
    /\ \A n \in Node : WF_quotaVars(SwapFile(n))
    /\ \A c \in Checker : WF_quotaVars(GoOn(c)) /\ \A n \in Node : SF_quotaVars(ReadRow(c, n))
-----------------------------------------------------------------------------
(***************************************************************************)
(* Properties                                                              *)
(***************************************************************************)

QuotaTypeOK ==
    /\ total \in [Node -> 0..MaxTotal]
    /\ row \in [Node -> Row]
    /\ check \in [Checker -> Check]
    /\ reset \in [st : {"idle", "days", "write"}, used : 0..MaxTotal, days : Days]
    /\ period \in [Node -> [begun : BOOLEAN, base : 0..MaxTotal, left : Left]]
    /\ lost \in BOOLEAN /\ events \in 0..MaxEvents

\* The verdict of c is given: it admits a client that, as far as the node knows, has
\* spent its limit since the period began that was under way at the node when c was
\* called.
Overlooked(c) ==
    /\ check[c].st \in Busy /\ check'[c].st = "admitted"
    /\ check[c].fair /\ Current(check[c].at, check[c].row.days) /\ ~lost
    /\ check[c].row.limit > 0
    /\ check[c].used - period[check[c].at].base >= check[c].row.limit

\* The master admits nobody who has spent the limit in the current period, however
\* resets, changes of the plan, lost histories and the end of periods fall, unless two
\* of those who write the row overlap: a reset and the start of a period, or two calls
\* that start it, or one that brings the base down (quota.go:43-106).
OverrunRefused ==
    [][\A c \in Checker : check[c].at = Master => ~Overlooked(c)]_quotaVars

\* The same of every node: node.go:478-480 says that a replica notices an overrun with
\* the delay of replication.
OverrunRefusedAnywhere == [][\A c \in Checker : ~Overlooked(c)]_quotaVars

\* A period that QuotaOf starts ends in the future, and no later than its length from
\* now, however many were missed (quota.go:84-99).
PeriodAhead ==
    [][\A c \in Checker :
          LET r == check[c].row  s == check'[c].row
          IN  check[c].st = "write" /\ check'[c].st = "verdict" =>
                  s.left \in 1..r.days]_quotaVars

\* A client that runs into its limit is admitted again when the period is over, with
\* nobody's help (quota_test.go:59).
Reopens ==
    \A n \in Node :
        <>[](row[Master].days > 0) =>
            []<>(\E c \in Checker : check[c].at = n /\ check[c].st = "admitted")

Spent == row[Master].limit > 0 /\ total[Master] - row[Master].base >= row[Master].limit

\* A limit without a period that has been spent is noticed at every node, for good.
SpentNoticed ==
    <>[](row[Master].days = 0 /\ Spent) =>
        <>[](\A c \in Checker : check[c].st # "admitted")
=============================================================================
