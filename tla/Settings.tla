------------------------------ MODULE Settings ------------------------------
(***************************************************************************)
(* The settings of the client and its control channel: the file and the    *)
(* copy in memory (config.go, service.go), the panel that edits them       *)
(* (api.go, routes.go), the subscription that brings the network's entry   *)
(* points (subscribe.go, and subscription.go on the node), and the channel *)
(* that carries the panel's and the subscription's requests (control.go).  *)
(*                                                                         *)
(* Of the settings there are the entry points, in order, and the token.    *)
(* An entry point stands for its node.  A dial fails when the node is down *)
(* or does not know the token.                                             *)
(***************************************************************************)
EXTENDS Naturals, Sequences, FiniteSets, SequencesExt

CONSTANTS
    Node,           \* nodes of the network
    Known,          \* tokens the network accepts
    Flags,          \* the node that the command line names, or the build
    Edits,          \* settings that an edit in the panel leads to
    Bundles,        \* links that the user may be given
    Registries,     \* entry points the network may publish
    Budgets         \* bounds of a behaviour: edits, failures of the disk, crashes, changes of the
                    \* network, requests of the panel

Caller == {"panel", "poll", "admin"}    \* an edit; the subscription; a request to the admin API
LinkId == 0..(Cardinality(Caller) + 1)  \* links in use, with spare ones; 0 is none
NoLink == 0

Config == [entries : Seq(Node), token : Known \cup {"none"}]

ASSUME SettingsAssumption ==
    /\ "none" \notin Node /\ {"nothing", "torn"} \cap Known = {}
    /\ Edits \cup Bundles \cup {Flags} \subseteq Config
    /\ Registries \subseteq Seq(Node)
    /\ Budgets \subseteq [edits : Nat, disk : Nat, crashes : Nat, network : Nat, asks : Nat]

VARIABLES
    file,           \* config.json: its settings, and whether they have reached the disk
    earlier,        \* settings that were in the file before, which a loss of power may bring back
    mem,            \* liveConfig.cfg
    op,             \* what each caller is doing
    ctl,            \* Control.entries and Control.token
    link,           \* Control.link
    links,          \* links[i]: node and state of each link
    failed,         \* Control.failedAt is less than retryAfter ago
    up, registry,   \* the network: nodes that are up, entry points they publish
    left            \* what is left of the budget

client == <<file, earlier, mem>>
control == <<ctl, link, links, failed>>
network == <<up, registry>>
vars == <<client, op, control, network, left>>

Default == [entries |-> <<>>, token |-> "none"]

\* once: the request has no body that could be read again, or has been made before; late: it has.
Idle == [pc |-> "idle", cfg |-> Default, todo |-> <<>>, token |-> "none", link |-> NoLink,
         once |-> TRUE, late |-> FALSE]
Torn == [entries |-> <<>>, token |-> "torn"]        \* what no save has written
Content == IF file.safe THEN file.cfg ELSE Torn

\* A start reads the file, or takes the settings without one where it is not to be read, ...
LoadFrom == IF file.safe THEN file.cfg ELSE Default

\* ... and adds in memory what the file does not say of the node.
WithRuntimeNode(cfg) ==
    [entries |-> IF cfg.entries = <<>> THEN Flags.entries ELSE cfg.entries,
     token |-> IF cfg.token = "none" THEN Flags.token ELSE cfg.token]
NoSuchLink == [node |-> "none", state |-> "closed"]

Init ==
    /\ file = [cfg |-> Default, safe |-> TRUE] /\ earlier = {} /\ mem = WithRuntimeNode(Default)
    /\ op = [p \in Caller |-> Idle]
    /\ ctl = mem /\ link = NoLink /\ links = [i \in LinkId |-> NoSuchLink] /\ failed = FALSE
    /\ up = Node /\ registry \in Registries
    /\ left \in Budgets

At(p, pc) == op[p].pc = pc
Step(p, pc) == op' = [op EXCEPT ![p].pc = pc]
Ends(p) == op' = [op EXCEPT ![p] = Idle]
Spend(what) == left[what] > 0 /\ left' = [left EXCEPT ![what] = @ - 1]

\* A link that nobody refers to any more.
Spare == {i \in LinkId \ {NoLink, link} :
            links[i].state = "closed" /\ \A p \in Caller : op[p].link # i}
-----------------------------------------------------------------------------
(***************************************************************************)
(* Saving                                                                  *)
(***************************************************************************)

\* SaveTo: a temporary file of its own, written ...
WriteTemp(p) ==
    /\ At(p, "save") /\ Step(p, "written")
    /\ UNCHANGED <<client, control, network, left>>

\* ... and flushed to the disk ...
SyncTemp(p) ==
    /\ At(p, "written") /\ Step(p, "synced")
    /\ UNCHANGED <<client, control, network, left>>

\* Wrong: the file is replaced before its content has reached the disk.
RenameUnsynced(p) ==
    /\ op[p].pc \in {"written", "synced"}
    /\ file' = [cfg |-> op[p].cfg, safe |-> At(p, "synced")]
    /\ earlier' = earlier \cup {file.cfg}

\* ... and put in place of the file.  The directory is not flushed: when the change of name
\* reaches the disk is left to the system.
Rename(p) ==
    /\ At(p, "synced")
    /\ file' = [cfg |-> op[p].cfg, safe |-> TRUE]
    /\ earlier' = earlier \cup {file.cfg}

Replace(p) ==
    /\ Rename(p)
    /\ Step(p, "loaded")
    /\ UNCHANGED <<mem, control, network, left>>

\* One of these steps fails: the temporary file is removed, and nothing has changed.
SaveFails(p) ==
    /\ op[p].pc \in {"save", "written", "synced"}
    /\ Spend("disk")
    /\ Ends(p)
    /\ UNCHANGED <<client, control, network>>

\* liveConfig.Save takes its lock for the copy in memory only.  The panel goes on to SetNode.
Load(p) ==
    /\ At(p, "loaded")
    /\ mem' = op[p].cfg
    /\ IF p = "panel" THEN Step(p, "node") ELSE Ends(p)
    /\ UNCHANGED <<file, earlier, control, network, left>>

Edited(c) ==
    /\ At("panel", "idle") /\ Spend("edits")
    /\ op' = [op EXCEPT !["panel"].pc = "save", !["panel"].cfg = c]
    /\ UNCHANGED <<client, control, network>>

\* putConfig, up to Save.  A set of rules that does not compile ends it before.
Edit(c) == Edited(c)

\* applyBundle, up to Save: a link brings entry points and token in the place of those there.
Applied(cfg, b) == [cfg EXCEPT !.entries = b.entries, !.token = b.token]
ApplyBundle(b) == Edited(Applied(mem, b))

\* Killed, with the disk as it is; or without power, when what had not reached the disk may be lost,
\* renames included.  The client starts again.
Crash ==
    /\ Spend("crashes")
    /\ \/ UNCHANGED <<file, earlier>>
       \/ /\ \E c \in earlier \cup {file.cfg} : file' = [cfg |-> c, safe |-> file.safe]
          /\ earlier' = {}
    /\ mem' = WithRuntimeNode(LoadFrom')
    /\ op' = [p \in Caller |-> Idle]
    /\ ctl' = mem' /\ link' = NoLink /\ links' = [i \in LinkId |-> NoSuchLink] /\ failed' = FALSE
    /\ UNCHANGED network
-----------------------------------------------------------------------------
(***************************************************************************)
(* The control channel                                                     *)
(***************************************************************************)

\* dropLocked.
Closed(i) == [links EXCEPT ![i] = NoSuchLink]

\* SetNode.
SetNode ==
    /\ At("panel", "node")
    /\ ctl' = op["panel"].cfg
    /\ IF ctl = ctl' THEN UNCHANGED <<link, links>>
       ELSE link' = NoLink /\ links' = Closed(link)
    /\ Ends("panel")
    /\ UNCHANGED <<client, failed, network, left>>

Request(once) ==
    /\ At("admin", "idle") /\ Spend("asks")
    /\ op' = [op EXCEPT !["admin"].pc = "link", !["admin"].once = once]
    /\ UNCHANGED <<client, control, network>>

\* A request of the panel to the node's admin API, whose body the panel keeps; its request for the
\* list of exits, which has none; and the subscription's, by Run or by the panel.
Ask == Request(FALSE)
Exits == Request(TRUE)

Fetch ==
    /\ At("poll", "idle") /\ mem.entries # <<>>
    /\ Step("poll", "link")
    /\ UNCHANGED <<client, control, network, left>>

\* linkFor: the link there is ...
Reuse(p) ==
    /\ At(p, "link") /\ link # NoLink
    /\ op' = [op EXCEPT ![p].pc = "ask", ![p].link = link]
    /\ UNCHANGED <<client, control, network, left>>

\* ... or none, just after a failure or without a node ...
Refuse(p) ==
    /\ At(p, "link") /\ link = NoLink
    /\ failed \/ ctl.entries = <<>> \/ ctl.token = "none"
    /\ Ends(p)
    /\ UNCHANGED <<client, control, network, left>>

\* ... or a new one, dialled without the lock.
DialStart(p) ==
    /\ At(p, "link") /\ link = NoLink
    /\ ~failed /\ ctl.entries # <<>> /\ ctl.token # "none"
    /\ op' = [op EXCEPT ![p].pc = "dial", ![p].todo = ctl.entries, ![p].token = ctl.token]
    /\ UNCHANGED <<client, control, network, left>>

\* Wrong: only the first entry point is tried.
OthersNone(p) == <<>>

\* The entry points still to be tried when this one has failed.
Others(p) == Tail(op[p].todo)

\* The node is there and knows the token.
Authorized(token) == token \in Known
DialLink(n, token) == n \in up /\ Authorized(token)

Dial(p) ==
    /\ At(p, "dial") /\ op[p].todo # <<>>
    /\ LET n == Head(op[p].todo) IN
       IF DialLink(n, op[p].token)
       THEN \E i \in Spare :
            /\ \A j \in Spare : i <= j
            /\ links' = [links EXCEPT ![i] = [node |-> n, state |-> "open"]]
            /\ op' = [op EXCEPT ![p].pc = "store", ![p].link = i, ![p].todo = <<>>]
       ELSE op' = [op EXCEPT ![p].todo = Others(p)] /\ UNCHANGED links
    /\ UNCHANGED <<client, ctl, link, failed, network, left>>

DialFails(p) ==
    /\ At(p, "dial") /\ op[p].todo = <<>>
    /\ failed' = TRUE
    /\ Ends(p)
    /\ UNCHANGED <<client, ctl, link, links, network, left>>

\* Wrong: of two links dialled at once the later one stays.
KeepLater(p) == link' = op[p].link /\ links' = links

\* Of two links dialled at once the earlier one stays, and the other is closed.
KeepEarlier(p) ==
    IF link = NoLink THEN link' = op[p].link /\ links' = links
    ELSE link' = link /\ links' = Closed(op[p].link)

StoreLink(p) ==
    /\ At(p, "store")
    /\ KeepEarlier(p)
    /\ failed' = (failed /\ link # NoLink)
    /\ op' = [op EXCEPT ![p].pc = "ask", ![p].link = link']
    /\ UNCHANGED <<client, ctl, network, left>>

\* Do: the request over the link.  The node answers the subscription with its entry points, and the
\* panel with what the panel passes on.
Answers(p) == At(p, "ask") /\ links[op[p].link].state = "open"
Answer ==
    /\ Answers("poll")
    /\ op' = [op EXCEPT !["poll"].pc = "apply", !["poll"].todo = registry, !["poll"].link = NoLink]
    /\ UNCHANGED <<client, control, network, left>>

Relay ==
    /\ Answers("admin") /\ Ends("admin")
    /\ UNCHANGED <<client, control, network, left>>

\* drop: the link that failed is closed, if it is still the one in use.
Dropped(p) ==
    IF link = op[p].link THEN link' = NoLink /\ links' = Closed(link)
    ELSE UNCHANGED <<link, links>>

\* The link fails.  Only a request whose body can be read again is repeated, once; a link that
\* fails the second time stays.
Breaks(p) ==
    /\ At(p, "ask") /\ links[op[p].link].state # "open"
    /\ IF op[p].late THEN UNCHANGED <<link, links>> ELSE Dropped(p)
    /\ IF op[p].once THEN Ends(p)
       ELSE op' = [op EXCEPT ![p] = [Idle EXCEPT !.pc = "link", !.late = TRUE]]
    /\ UNCHANGED <<client, ctl, failed, network, left>>

\* applyEntries: the entry point in use stays the first.  The settings are read here and saved
\* later, whole.
Arranged(entries) ==
    IF mem.entries = <<>> THEN entries
    ELSE SelectSeq(entries, LAMBDA e : e = Head(mem.entries))
         \o SelectSeq(entries, LAMBDA e : e # Head(mem.entries))

Apply ==
    /\ At("poll", "apply")
    /\ LET next == Arranged(op["poll"].todo) IN
       IF next \in {<<>>, mem.entries} THEN Ends("poll")
       ELSE op' = [op EXCEPT !["poll"] = [Idle EXCEPT !.pc = "save",
                                                      !.cfg = [mem EXCEPT !.entries = next]]]
    /\ UNCHANGED <<client, control, network, left>>

\* retryAfter has passed.
Cool == failed /\ failed' = FALSE /\ UNCHANGED <<client, ctl, link, links, op, network, left>>
-----------------------------------------------------------------------------
(***************************************************************************)
(* The network                                                             *)
(***************************************************************************)

\* A node stops: its links break, which nobody notices before the next request.
NodeDown(n) ==
    /\ n \in up /\ Spend("network")
    /\ up' = up \ {n}
    /\ links' = [i \in LinkId |-> IF links[i].node = n THEN [links[i] EXCEPT !.state = "broken"]
                                  ELSE links[i]]
    /\ UNCHANGED <<client, op, ctl, link, failed, registry>>

NodeUp(n) ==
    /\ n \notin up
    /\ up' = up \cup {n}
    /\ UNCHANGED <<client, op, control, registry, left>>

Publish ==
    /\ Spend("network")
    /\ registry' \in Registries
    /\ UNCHANGED <<client, op, control, up>>
-----------------------------------------------------------------------------
Saving(p) == WriteTemp(p) \/ SyncTemp(p) \/ Replace(p) \/ Load(p)
Linking(p) == Reuse(p) \/ Refuse(p) \/ DialStart(p) \/ Dial(p) \/ DialFails(p) \/ StoreLink(p)
Asking(p) == (p = "poll" /\ Answer) \/ (p = "admin" /\ Relay) \/ Breaks(p)
Work(p) == Saving(p) \/ Linking(p) \/ Asking(p)

Next ==
    \/ \E p \in Caller : Work(p) \/ SaveFails(p)
    \/ SetNode \/ Ask \/ Exits \/ Fetch \/ Apply \/ Cool
    \/ \E c \in Edits : Edit(c)
    \/ \E b \in Bundles : ApplyBundle(b)
    \/ \E n \in Node : NodeDown(n) \/ NodeUp(n)
    \/ Publish \/ Crash

\* Every call that has begun goes on, the subscription polls for ever, and time passes.
Fairness ==
    /\ \A p \in Caller : WF_vars(Work(p))
    /\ WF_vars(SetNode) /\ WF_vars(Fetch) /\ WF_vars(Apply) /\ WF_vars(Cool)

Spec == Init /\ [][Next]_vars
FairSpec == Spec /\ Fairness
-----------------------------------------------------------------------------
(***************************************************************************)
(* Properties                                                              *)
(***************************************************************************)

TypeOK ==
    /\ file \in [cfg : Config, safe : BOOLEAN]
    /\ earlier \subseteq Config
    /\ mem.entries \in Seq(Node) /\ ctl.entries \in Seq(Node)
    /\ link \in LinkId /\ failed \in BOOLEAN /\ up \subseteq Node
    /\ links \in [LinkId -> [node : Node \cup {"none"}, state : {"open", "broken", "closed"}]]

\* Every link that has been dialled is the one in use, or held by the call that has just dialled
\* it, or closed, whichever of several dials, edits and failures came first (control.go:207-244).
LinksHeld ==
    \A i \in LinkId : links[i].state # "closed" =>
        i = link \/ \E p \in Caller : At(p, "store") /\ op[p].link = i

\* The file of the settings keeps what a register promises: two saves at once and a crash between
\* any two steps leave it whole, with what one of them saved or what was there; only a loss of power
\* may bring back a save before the last, and that whole too (config.go:220-262).
NotSaving == [entries |-> <<>>, token |-> "nothing"]
InSave(p) == op[p].pc \in {"save", "written", "synced"}
Saves == INSTANCE Register WITH
    Writer <- Caller, Nothing <- NotSaving,
    value <- Content, earlier <- earlier,
    writing <- [p \in Caller |-> IF InSave(p) THEN op[p].cfg ELSE NotSaving]
FileIsRegister == Saves!Spec

\* As long as one of the entry points the channel has been given is up and knows its token, the
\* subscription goes on arriving, whatever broke before (subscribe.go:104-123, control.go:174-228).
Reachable == ctl.token \in Known /\ mem.entries # <<>>
             /\ \E i \in DOMAIN ctl.entries : ctl.entries[i] \in up
SubscriptionArrives == <>[]Reachable => []<><<Answer>>_vars
=============================================================================
