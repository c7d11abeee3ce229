------------------------------ MODULE Balance ------------------------------
(***************************************************************************)
(* The choice of a node under the label auto:<tag> (balance.go), for one   *)
(* tag, fed by the polls of NodeLinks (links.go, PollStats).               *)
(*                                                                         *)
(* A flow first gathers the candidates under the lock of NodeLinks and     *)
(* then picks under the lock of the balancer; a poll first copies the      *)
(* connections and then observes them one at a time.  Reload may run in    *)
(* between.  A window is one period of the poll, and ages are counted in   *)
(* windows; a path costs what Score says, here a number.                   *)
(***************************************************************************)
EXTENDS Naturals

CONSTANTS
    Neighbour,      \* the neighbours that carry the tag, as numbers: the order of their names
    Picker,         \* the flows that may be picking at one time
    Cost,           \* what a path may cost
    HoldWindows, Cooldown, StaleAfter, MinGain,
    MaxBreaks       \* bound: how often connections break or the registry changes

None == 0

ASSUME BalanceAssumption ==
    /\ Neighbour \subseteq Nat \ {None} /\ Cost \subseteq Nat \ {0}
    /\ HoldWindows \in Nat \ {0, 1} /\ Cooldown \in Nat /\ StaleAfter \in Nat
    /\ MinGain \in Nat /\ MaxBreaks \in Nat

VARIABLES
    listed,         \* the candidates: nodes the registry lists as enabled
    kept,           \* kept[n]: the connection NodeLinks keeps to n
    due,            \* the connections copied by the poll under way and not yet observed
    sample,         \* sample[n]: the last measurement, of cost 0 when there is none
    choice,         \* decision.node
    since,          \* windows since the choice was made, up to Cooldown
    challenger,     \* decision.challenger, decision.wins
    wins,
    pick,           \* pick[p]: the candidates flow p has gathered
    beat,           \* history: picks in a row at which a node beat the choice
    span,           \* history: windows since the challenger's first win, up to HoldWindows
    breaks

net == <<listed, kept, due, breaks>>
decision == <<choice, since, challenger, wins>>
history == <<beat, span>>
balanceVars == <<net, sample, decision, pick, history>>

Sample == [cost : Cost \cup {0}, age : 0..StaleAfter + 1]
NoSample == [cost |-> 0, age |-> 0]

BalanceInit ==
    /\ listed = Neighbour
    /\ kept = [n \in Neighbour |-> "none"]
    /\ due = {}
    /\ sample = [n \in Neighbour |-> NoSample]
    /\ choice = None /\ since = 0 /\ challenger = None /\ wins = 0
    /\ pick = [p \in Picker |-> {}]
    /\ beat = [n \in Neighbour |-> 0] /\ span = 0
    /\ breaks = 0
-----------------------------------------------------------------------------
(***************************************************************************)
(* Connections and polls                                                   *)
(***************************************************************************)

\* Some flow, of this label or another, raises the connection.
Raise(n) ==
    /\ n \in listed /\ kept[n] = "none"
    /\ kept' = [kept EXCEPT ![n] = "open"]
    /\ UNCHANGED <<listed, due, breaks, sample, decision, pick, history>>

\* The path dies.  NodeLinks keeps the connection.
PathDies(n) ==
    /\ breaks < MaxBreaks /\ kept[n] = "open"
    /\ kept' = [kept EXCEPT ![n] = "dead"]
    /\ breaks' = breaks + 1
    /\ UNCHANGED <<listed, due, sample, decision, pick, history>>

\* Reload finds the node deleted, disabled or moved: its connection is closed, and if it is
\* deleted, what was measured on a connection to it is forgotten.
Reread(n) ==
    /\ breaks < MaxBreaks /\ n \in listed
    /\ \E fate \in {"deleted", "disabled", "moved"} :
          /\ listed' = IF fate = "moved" THEN listed ELSE listed \ {n}
          /\ sample' = IF fate = "deleted" /\ kept[n] # "none"
                       THEN [sample EXCEPT ![n] = NoSample] ELSE sample
    /\ kept' = [kept EXCEPT ![n] = "none"]
    /\ breaks' = breaks + 1
    /\ UNCHANGED <<due, decision, pick, history>>

\* The node is listed again.
Return(n) ==
    /\ n \notin listed
    /\ listed' = listed \cup {n}
    /\ UNCHANGED <<kept, due, breaks, sample, decision, pick, history>>

Older(s) == IF s.cost # 0 /\ s.age <= StaleAfter THEN [s EXCEPT !.age = @ + 1] ELSE s

\* A window passes and the next poll copies the connections.
Tick ==
    /\ due = {}
    /\ due' = {n \in Neighbour : kept[n] # "none"}
    /\ sample' = [n \in Neighbour |-> Older(sample[n])]
    /\ since' = IF since < Cooldown THEN since + 1 ELSE since
    /\ span' = IF wins > 0 /\ span < HoldWindows THEN span + 1 ELSE span
    /\ UNCHANGED <<listed, kept, breaks, choice, challenger, wins, pick, beat>>

\* Observe.  QUIC says what it measured last, also of a connection that is dead or
\* was closed since it was copied (cip.Link.Stats).
Observe(n) ==
    /\ n \in due
    /\ due' = due \ {n}
    /\ \E c \in Cost :
          /\ kept[n] # "open" /\ sample[n].cost # 0 => c = sample[n].cost
          /\ sample' = [sample EXCEPT ![n] = [cost |-> c, age |-> 0]]
    /\ UNCHANGED <<listed, kept, breaks, decision, pick, history>>
-----------------------------------------------------------------------------
(***************************************************************************)
(* Picks                                                                   *)
(***************************************************************************)

Fresh(n) == sample[n].cost # 0 /\ sample[n].age <= StaleAfter

First(S) == CHOOSE n \in S : \A m \in S : n <= m

\* bestLocked: the cheapest of the candidates measured of late, else the first by name.
Best(S) ==
    LET measured == {n \in S : Fresh(n)}
        cheap == {n \in measured : \A m \in measured : sample[n].cost <= sample[m].cost}
    IN  IF measured = {} THEN First(S) ELSE First(cheap)

\* Wrong: the choice has to be measured of late as well.
WorthMeasured(cur, n) ==
    /\ Fresh(n) /\ Fresh(cur)
    /\ 5 * sample[n].cost < 4 * sample[cur].cost
    /\ sample[cur].cost >= sample[n].cost + MinGain

\* worthSwitchLocked: 4/5 is betterBy.
Worth(cur, n) ==
    /\ Fresh(n)
    /\ \/ ~Fresh(cur)
       \/ /\ 5 * sample[n].cost < 4 * sample[cur].cost
          /\ sample[cur].cost >= sample[n].cost + MinGain

\* pickByCategory gathers the candidates.
Gather(p) ==
    /\ pick[p] = {} /\ listed # {}
    /\ pick' = [pick EXCEPT ![p] = listed]
    /\ UNCHANGED <<net, sample, decision, history>>

Decide(node, age, rival, count) ==
    /\ choice' = node /\ since' = age /\ challenger' = rival /\ wins' = count

\* Wrong: a choice that is no candidate any more is kept.
LostNever(S) == choice = None

\* There is no choice, or it is no candidate any more.
Lost(S) == choice \notin S

PickFirst(S) == Lost(S) /\ Decide(Best(S), 0, None, 0)

PickSame(S) ==
    /\ ~Lost(S) /\ Best(S) = choice
    /\ Decide(choice, since, None, 0)

PickCooling(S) ==
    /\ ~Lost(S) /\ Best(S) # choice /\ since < Cooldown
    /\ UNCHANGED decision

PickUnworthy(S) ==
    /\ ~Lost(S) /\ Best(S) # choice /\ since >= Cooldown /\ ~Worth(choice, Best(S))
    /\ Decide(choice, since, None, 0)

Winning(S) == ~Lost(S) /\ Best(S) # choice /\ since >= Cooldown /\ Worth(choice, Best(S))

PickChallenger(S) ==
    /\ Winning(S) /\ challenger # Best(S)
    /\ Decide(choice, since, Best(S), 1)

PickWin(S) ==
    /\ Winning(S) /\ challenger = Best(S) /\ wins + 1 < HoldWindows
    /\ Decide(choice, since, challenger, wins + 1)

PickSwitch(S) ==
    /\ Winning(S) /\ challenger = Best(S) /\ wins + 1 >= HoldWindows
    /\ Decide(Best(S), 0, None, 0)

\* Which node beats the choice at a pick from S.
Beats(n, S) == n = Best(S) /\ choice \in S \ {n} /\ Worth(choice, n)

\* Pick, for the candidates the flow has gathered.
Pick(p) ==
    /\ pick[p] # {}
    /\ LET S == pick[p]
       IN  /\ \/ PickFirst(S) \/ PickSame(S) \/ PickCooling(S) \/ PickUnworthy(S)
              \/ PickChallenger(S) \/ PickWin(S) \/ PickSwitch(S)
           /\ beat' = [n \in Neighbour |->
                         IF Beats(n, S) /\ choice' = choice
                         THEN IF beat[n] < HoldWindows THEN beat[n] + 1 ELSE beat[n]
                         ELSE 0]
    /\ span' = IF wins' > 1 THEN span ELSE 0
    /\ pick' = [pick EXCEPT ![p] = {}]
    /\ UNCHANGED <<net, sample>>

BalanceNext ==
    \/ \E n \in Neighbour : Raise(n) \/ PathDies(n) \/ Reread(n) \/ Return(n) \/ Observe(n)
    \/ Tick
    \/ \E p \in Picker : Gather(p) \/ Pick(p)

BalanceSpec == BalanceInit /\ [][BalanceNext]_balanceVars

\* Polls go on and come to their end (PollStats), and flows with the label keep coming.
BalanceFairSpec ==
    /\ BalanceSpec
    /\ WF_balanceVars(Tick)
    /\ \A n \in Neighbour : WF_balanceVars(Observe(n))
    /\ \A p \in Picker : WF_balanceVars(Gather(p)) /\ WF_balanceVars(Pick(p))
-----------------------------------------------------------------------------
(***************************************************************************)
(* Properties                                                              *)
(***************************************************************************)

BalanceTypeOK ==
    /\ listed \subseteq Neighbour /\ due \subseteq Neighbour
    /\ kept \in [Neighbour -> {"none", "open", "dead"}]
    /\ sample \in [Neighbour -> Sample]
    /\ choice \in Neighbour \cup {None} /\ challenger \in Neighbour \cup {None}
    /\ since \in 0..Cooldown /\ wins \in 0..HoldWindows - 1
    /\ pick \in [Picker -> SUBSET Neighbour]
    /\ beat \in [Neighbour -> 0..HoldWindows] /\ span \in 0..HoldWindows
    /\ breaks \in 0..MaxBreaks

\* The wins the balancer has counted are wins: the challenger, and nobody else, has
\* beaten the choice at each of the last picks (balance.go:148-156).
WinsAreReal ==
    wins > 0 => challenger \in Neighbour \ {choice} /\ beat[challenger] >= wins

\* A pick that moves the flows of the label off a node that is still a candidate.
MovesOff(p) == pick[p] # {} /\ pick'[p] = {} /\ choice \in pick[p] /\ choice' # choice

\* It does so only after the cooldown, for a node that is measured and better, and has been
\* at HoldWindows picks in a row, whatever other flows pick at the same time and whatever
\* Reload does (balance.go:134-158).
SwitchesEarned ==
    [][\A p \in Picker : MovesOff(p) =>
              /\ since = Cooldown
              /\ Fresh(choice') /\ Worth(choice, choice')
              /\ beat[choice'] + 1 >= HoldWindows]_balanceVars

\* balance.go:45-47, links.go:214: the challenger wins HoldWindows measurements in a row, one
\* in each period of the poll, before flows move to it.  It does not: picks are counted, and
\* HoldWindows of them may follow one measurement.
WindowsInARow ==
    [][\A p \in Picker : MovesOff(p) => span + 1 >= HoldWindows]_balanceVars

Gone(n) == n \notin listed /\ listed # {}
Beaten(n) == n \in listed /\ \E m \in Neighbour \ {n} : listed = {n, m} /\ kept[m] = "open"
Silent(n) == kept[n] = "none" /\ Beaten(n)

\* A node that has left the network does not stay chosen for ever (balance.go:126-132), nor
\* does one without measurements while the other candidate has a connection that works
\* (balance.go:189-193).
LeavesLost ==
    \A n \in Neighbour : <>[]Gone(n) \/ <>[]Silent(n) => <>[](choice # n)

\* balance.go:189: no measurements of a node means that its connection broke or stopped;
\* so a choice whose connection is dead is left as well.  It is not: its last
\* measurement is taken for a new one at every poll.
LeavesDead ==
    \A n \in Neighbour : <>[](kept[n] = "dead" /\ Beaten(n)) => <>[](choice # n)
=============================================================================
