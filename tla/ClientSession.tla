--------------------------- MODULE ClientSession ---------------------------
(***************************************************************************)
(* What one client does to the settings of its machine: the session that   *)
(* the service keeps up (service.go), the steps by which it takes over the *)
(* system's DNS and proxy and gives them back (run_windows.go, sysdns,     *)
(* sysproxy), and the supervisor, which may take over the DNS once more    *)
(* when the network changes (supervisor.go).                               *)
(*                                                                         *)
(* The settings outlive the process.  It may die between any two steps,    *)
(* and the next session heals from two files, one for the DNS and one for  *)
(* the proxy.  The user leaves the settings alone meanwhile.  Writing all  *)
(* adapters is one step; an adapter has one setting for both families.     *)
(***************************************************************************)
EXTENDS Naturals, FiniteSets

CONSTANTS
    Adapter,        \* network adapters of the machine
    MaxCrash,       \* bound: crashes and failed writes of settings and files, together
    MaxMoves        \* bound: changes of the network the supervisor sees

ASSUME SessionAssumption == MaxCrash \in Nat /\ MaxMoves \in Nat

VARIABLES
    proc,           \* the client runs
    state,          \* service.state
    cancelled,      \* the context of the loop is
    loop,           \* service.loop: "none", "top", "session", "pause"
    pc,             \* how far run has come
    live,           \* the adapters that are up
    dns,            \* dns[a]: NameServer of the adapter, "user" or "ours"
    stash,          \* dns-restore.json: what it has for each adapter, "none" for nothing
    saved,          \* the Saved of the session: the same, in memory
    port,           \* our listener holds port 53
    proxy,          \* the system's proxy, "user" or "off"
    pstash,         \* sysproxy_stash.json, "none" when there is none
    psaved,         \* the Saved of sysproxy, in memory
    sup,            \* the supervisor: "idle", "moving", "applying", "stashing", "writing"
    supSaved,       \* the Saved of its Apply
    crashes, moves,
    tidied,         \* history: a session of this process has come to take over the proxy, and
                    \* none has failed to give it back since
    exposed         \* history: adapters, or "proxy", whose setting was nowhere but in memory at
                    \* a crash, in no file after a write that failed, or kept by nobody
                    \* after a change of the network (see SupApply)

svc == <<proc, state, cancelled, loop>>
dnsVars == <<dns, stash, saved, port>>
proxyVars == <<proxy, pstash, psaved>>
supVars == <<sup, supSaved>>
history == <<crashes, moves, tidied, exposed>>
vars == <<svc, pc, live, dnsVars, proxyVars, supVars, history>>

Entries == [Adapter -> {"none", "user", "ours"}]
NoEntries == [a \in Adapter |-> "none"]
Kept(e) == {a \in Adapter : e[a] # "none"}

Phase == {"none", "recover", "unstash", "proxy", "heal", "save", "off", "dial", "listen", "apply",
          "stash", "run", "back", "drop", "close", "proxyBack", "proxyDrop", "over"}

\* run has not returned.
InRun == pc \notin {"none", "over"}

Init ==
    /\ proc = FALSE /\ state = "stopped" /\ cancelled = FALSE /\ loop = "none" /\ pc = "none"
    /\ live \in SUBSET Adapter \ {{}}
    /\ dns = [a \in Adapter |-> "user"] /\ stash = NoEntries /\ saved = NoEntries /\ port = FALSE
    /\ proxy = "user" /\ pstash = "none" /\ psaved = "none"
    /\ sup = "idle" /\ supSaved = NoEntries
    /\ crashes = 0 /\ moves = 0 /\ tidied = FALSE /\ exposed = {}
-----------------------------------------------------------------------------
(***************************************************************************)
(* The process and its service                                             *)
(***************************************************************************)

Launch ==
    /\ ~proc
    /\ proc' = TRUE
    /\ tidied' = FALSE
    /\ UNCHANGED <<state, cancelled, loop, pc, live, dnsVars, proxyVars, supVars, crashes, moves,
                   exposed>>

Gone ==
    /\ proc' = FALSE /\ state' = "stopped" /\ cancelled' = FALSE /\ loop' = "none" /\ pc' = "none"
    /\ saved' = NoEntries /\ port' = FALSE /\ psaved' = "none"
    /\ sup' = "idle" /\ supSaved' = NoEntries
    /\ UNCHANGED <<live, dns, stash, proxy, pstash, moves, tidied>>

\* Quit: the session is off and the process ends.
Exit ==
    /\ proc /\ loop = "none"
    /\ Gone
    /\ UNCHANGED <<crashes, exposed>>

\* Killed, also when a session takes longer than 15 seconds to end.
Crash ==
    /\ proc /\ crashes < MaxCrash
    /\ Gone
    /\ crashes' = crashes + 1
    /\ exposed' = exposed \cup (IF pc = "stash" THEN Kept(saved) ELSE {})

\* Connect.
Connect ==
    /\ proc /\ state = "stopped"
    /\ state' = "connecting" /\ cancelled' = FALSE /\ loop' = "top"
    /\ UNCHANGED <<proc, pc, live, dnsVars, proxyVars, supVars, history>>

\* Wrong: the service does not wait for the session to end.
DisconnectAtOnce ==
    /\ loop # "none" /\ ~cancelled
    /\ cancelled' = TRUE /\ state' = "stopped"
    /\ UNCHANGED <<proc, loop, pc, live, dnsVars, proxyVars, supVars, history>>

\* Disconnect.  It waits, and the state stays, until the loop ends.
Disconnect ==
    /\ loop # "none" /\ ~cancelled
    /\ cancelled' = TRUE
    /\ UNCHANGED <<proc, state, loop, pc, live, dnsVars, proxyVars, supVars, history>>

\* A session is said to be connected before it has begun.
LoopSession ==
    /\ loop = "top" /\ ~cancelled
    /\ state' = "connected" /\ loop' = "session" /\ pc' = "recover"
    /\ UNCHANGED <<proc, cancelled, live, dnsVars, proxyVars, supVars, history>>

\* The session ended by itself, always with an error.
LoopRetry ==
    /\ loop = "session" /\ pc = "over" /\ ~cancelled
    /\ state' = "connecting" /\ loop' = "pause" /\ pc' = "none"
    /\ UNCHANGED <<proc, cancelled, live, dnsVars, proxyVars, supVars, history>>

\* The pause is over.
LoopPause ==
    /\ loop = "pause" /\ ~cancelled
    /\ loop' = "top"
    /\ UNCHANGED <<proc, state, cancelled, pc, live, dnsVars, proxyVars, supVars, history>>

LoopExit ==
    /\ cancelled /\ (loop \in {"top", "pause"} \/ (loop = "session" /\ pc = "over"))
    /\ state' = "stopped" /\ cancelled' = FALSE /\ loop' = "none" /\ pc' = "none"
    /\ UNCHANGED <<proc, live, dnsVars, proxyVars, supVars, history>>
-----------------------------------------------------------------------------
(***************************************************************************)
(* sysdns: what Apply does, and what Restore writes back                   *)
(***************************************************************************)

\* What Apply changes: the adapters that are up and do not have our setting yet.
Taken == [a \in Adapter |-> IF a \in live /\ dns[a] # "ours" THEN dns[a] ELSE "none"]

TakeOver == dns' = [a \in Adapter |-> IF a \in live THEN "ours" ELSE dns[a]]

Restored(e) == dns' = [a \in Adapter |-> IF e[a] = "none" THEN dns[a] ELSE e[a]]
-----------------------------------------------------------------------------
(***************************************************************************)
(* run, until the session works                                            *)
(***************************************************************************)

Goto(p) == pc' = p

\* recoverDNS, RestoreStale: if nobody holds the port, what a dead session left.
Recover ==
    /\ pc = "recover" /\ ~port /\ Kept(stash) # {}
    /\ Restored(stash)
    /\ Goto("unstash")
    /\ UNCHANGED <<svc, live, stash, saved, port, proxyVars, supVars, history>>

\* A setting cannot be written: the file stays.
RecoverFails ==
    /\ pc = "recover" /\ ~port /\ Kept(stash) # {} /\ crashes < MaxCrash
    /\ crashes' = crashes + 1
    /\ exposed' = exposed \cup Kept(stash)
    /\ Goto("proxy")
    /\ UNCHANGED <<svc, live, dnsVars, proxyVars, supVars, moves, tidied>>

RecoverDrop ==
    /\ pc = "unstash"
    /\ stash' = NoEntries
    /\ Goto("proxy")
    /\ UNCHANGED <<svc, live, dns, saved, port, proxyVars, supVars, history>>

RecoverNothing ==
    /\ pc = "recover" /\ (port \/ Kept(stash) = {})
    /\ Goto("proxy")
    /\ UNCHANGED <<svc, live, dnsVars, proxyVars, supVars, history>>

\* No address of our own, or none of the node, or the registry cannot be written.
FailEarly ==
    /\ pc \in {"proxy", "save", "off"}
    /\ psaved' = "none"
    /\ Goto("over")
    /\ UNCHANGED <<svc, live, dnsVars, proxy, pstash, supVars, history>>

\* Disable, EnsureRestored: what a dead session left ...
ProxyHeal ==
    /\ pc = "proxy" /\ pstash # "none"
    /\ proxy' = pstash
    /\ Goto("heal")
    /\ UNCHANGED <<svc, live, dnsVars, pstash, psaved, supVars, history>>

ProxyHealDrop ==
    /\ pc = "heal"
    /\ pstash' = "none"
    /\ Goto("save")
    /\ UNCHANGED <<svc, live, dnsVars, proxy, psaved, supVars, history>>

\* That cannot be written, and the file goes all the same.
ProxyHealFails ==
    /\ pc = "proxy" /\ pstash # "none" /\ crashes < MaxCrash
    /\ crashes' = crashes + 1
    /\ exposed' = exposed \cup {"proxy"}
    /\ Goto("heal")
    /\ UNCHANGED <<svc, live, dnsVars, proxyVars, supVars, moves, tidied>>

\* Wrong: the file is not written.
ProxySaveNoFile ==
    /\ pc = "save" \/ (pc = "proxy" /\ pstash = "none")
    /\ psaved' = proxy
    /\ tidied' = TRUE
    /\ Goto("off")
    /\ UNCHANGED <<svc, live, dnsVars, proxy, pstash, supVars, crashes, moves, exposed>>

\* ... then what is there now is put into the file ...
ProxySave ==
    /\ pc = "save" \/ (pc = "proxy" /\ pstash = "none")
    /\ psaved' = proxy /\ pstash' = proxy
    /\ tidied' = TRUE
    /\ Goto("off")
    /\ UNCHANGED <<svc, live, dnsVars, proxy, supVars, crashes, moves, exposed>>

\* The file cannot be written, and the session goes on.
ProxySaveFails ==
    /\ pc = "save" \/ (pc = "proxy" /\ pstash = "none")
    /\ crashes < MaxCrash
    /\ crashes' = crashes + 1
    /\ exposed' = exposed \cup {"proxy"}
    /\ psaved' = proxy
    /\ tidied' = TRUE
    /\ Goto("off")
    /\ UNCHANGED <<svc, live, dnsVars, proxy, pstash, supVars, moves>>

\* ... and the proxy is off.
ProxyOff ==
    /\ pc = "off"
    /\ proxy' = "off"
    /\ Goto("dial")
    /\ UNCHANGED <<svc, live, dnsVars, pstash, psaved, supVars, history>>

\* The capture opens, the node answers and authorises, and assigns addresses.
DialOk ==
    /\ pc = "dial"
    /\ Goto("listen")
    /\ UNCHANGED <<svc, live, dnsVars, proxyVars, supVars, history>>

DialFail ==
    /\ pc = "dial"
    /\ Goto("close")
    /\ UNCHANGED <<svc, live, dnsVars, proxyVars, supVars, history>>

\* startDNS: the listener first, ...
Listen ==
    /\ pc = "listen" /\ ~port
    /\ port' = TRUE
    /\ Goto("apply")
    /\ UNCHANGED <<svc, live, dns, stash, saved, proxyVars, supVars, history>>

\* the listener of the session before has not let go of the port yet
ListenFail ==
    /\ pc = "listen" /\ port
    /\ Goto("close")
    /\ UNCHANGED <<svc, live, dnsVars, proxyVars, supVars, history>>

\* ... then the settings, ...
Apply ==
    /\ pc = "apply" /\ Kept(Taken) # {}
    /\ saved' = Taken
    /\ TakeOver
    /\ Goto("stash")
    /\ UNCHANGED <<svc, live, stash, port, proxyVars, supVars, history>>

\* no adapter is left to change, or the system does not say which there are
ApplyNothing ==
    /\ pc = "apply"
    /\ \/ Kept(Taken) = {} /\ UNCHANGED crashes
       \/ crashes < MaxCrash /\ crashes' = crashes + 1
    /\ Goto("close")
    /\ UNCHANGED <<svc, live, dnsVars, proxyVars, supVars, moves, tidied, exposed>>

\* Wrong: the file is not written.
StashSkipped ==
    /\ pc = "stash"
    /\ Goto("run")
    /\ UNCHANGED <<svc, live, dnsVars, proxyVars, supVars, history>>

\* ... then the file that says what they were.  A crash in the middle leaves one that cannot be
\* read, which a healing removes: as good as none, and what was in it before is exposed already.
Stash ==
    /\ pc = "stash"
    /\ stash' = saved
    /\ Goto("run")
    /\ UNCHANGED <<svc, live, dns, saved, port, proxyVars, supVars, history>>

\* The file cannot be written, and the session goes on.
StashFails ==
    /\ pc = "stash" /\ crashes < MaxCrash
    /\ crashes' = crashes + 1
    /\ exposed' = exposed \cup Kept(saved)
    /\ Goto("run")
    /\ UNCHANGED <<svc, live, dnsVars, proxyVars, supVars, moves, tidied>>
-----------------------------------------------------------------------------
(***************************************************************************)
(* run, from its end on: what was deferred, last first                     *)
(***************************************************************************)

\* The engine fails, the supervisor finds the connection dead, or the context ends.
Ends ==
    /\ pc = "run"
    /\ Goto("back")
    /\ UNCHANGED <<svc, live, dnsVars, proxyVars, supVars, history>>

DnsBack ==
    /\ pc = "back"
    /\ Restored(saved)
    /\ Goto("drop")
    /\ UNCHANGED <<svc, live, stash, saved, port, proxyVars, supVars, history>>

\* A setting cannot be written: the file goes all the same.
DnsBackFails ==
    /\ pc = "back" /\ crashes < MaxCrash
    /\ crashes' = crashes + 1
    /\ exposed' = exposed \cup Kept(saved)
    /\ Goto("drop")
    /\ UNCHANGED <<svc, live, dnsVars, proxyVars, supVars, moves, tidied>>

DnsDrop ==
    /\ pc = "drop"
    /\ stash' = NoEntries
    /\ Goto("close")
    /\ UNCHANGED <<svc, live, dns, saved, port, proxyVars, supVars, history>>

\* The connection is closed, if it is open; it cannot move any more.
CloseClient ==
    /\ pc = "close"
    /\ saved' = NoEntries
    /\ sup' = IF sup = "moving" THEN "idle" ELSE sup
    /\ Goto("proxyBack")
    /\ UNCHANGED <<svc, live, dns, stash, port, proxyVars, supSaved, history>>

\* Wrong: the listener stays as long as the loop.
PortFreeWithLoop ==
    /\ port /\ loop = "none"
    /\ port' = FALSE
    /\ UNCHANGED <<svc, pc, live, dns, stash, saved, proxyVars, supVars, history>>

\* The listener lets go of the port, in a goroutine of its own.
PortFree ==
    /\ port /\ pc \notin {"apply", "stash", "run"}
    /\ port' = FALSE
    /\ UNCHANGED <<svc, pc, live, dns, stash, saved, proxyVars, supVars, history>>

ProxyBack ==
    /\ pc = "proxyBack"
    /\ proxy' = psaved
    /\ Goto("proxyDrop")
    /\ UNCHANGED <<svc, live, dnsVars, pstash, psaved, supVars, history>>

\* The key cannot be opened: the file stays.
ProxyBackFails ==
    /\ pc = "proxyBack" /\ crashes < MaxCrash
    /\ crashes' = crashes + 1
    /\ tidied' = FALSE
    /\ psaved' = "none"
    /\ Goto("over")
    /\ UNCHANGED <<svc, live, dnsVars, proxy, pstash, supVars, moves, exposed>>

ProxyDrop ==
    /\ pc = "proxyDrop"
    /\ pstash' = "none" /\ psaved' = "none"
    /\ Goto("over")
    /\ UNCHANGED <<svc, live, dnsVars, proxy, supVars, history>>
-----------------------------------------------------------------------------
(***************************************************************************)
(* The supervisor, whose goroutines end with the loop and not with run     *)
(***************************************************************************)

\* Adapters come up and go down.
Plug ==
    /\ live' \in SUBSET Adapter \ {{}}
    /\ UNCHANGED <<svc, pc, dnsVars, proxyVars, supVars, history>>

\* The network changes, and the supervisor notices.
Move ==
    /\ pc = "run" /\ sup = "idle" /\ moves < MaxMoves
    /\ live' \in SUBSET Adapter \ {{}}
    /\ sup' = "moving"
    /\ moves' = moves + 1
    /\ UNCHANGED <<svc, pc, dnsVars, proxyVars, supSaved, crashes, tidied, exposed>>

\* handle: the connection has moved.
Moved ==
    /\ sup = "moving"
    /\ sup' = "applying"
    /\ UNCHANGED <<svc, pc, live, dnsVars, proxyVars, supSaved, history>>

MoveFail ==
    /\ sup = "moving"
    /\ sup' = "idle"
    /\ UNCHANGED <<svc, pc, live, dnsVars, proxyVars, supSaved, history>>

\* OnNetworkChange: Apply again; what it returns is dropped, ...
SupApply ==
    /\ sup = "applying"
    /\ supSaved' = Taken
    /\ TakeOver
    /\ sup' = IF Kept(Taken) = {} THEN "idle" ELSE "stashing"
    /\ exposed' = exposed \cup Kept(Taken)
    /\ UNCHANGED <<svc, pc, live, stash, saved, port, proxyVars, crashes, moves, tidied>>

\* ... and the file of the session's own Apply is overwritten: first it is emptied, ...
SupTruncate ==
    /\ sup = "stashing"
    /\ stash' = NoEntries
    /\ sup' = "writing"
    /\ exposed' = exposed \cup Kept(stash)
    /\ UNCHANGED <<svc, pc, live, dns, saved, port, proxyVars, supSaved, crashes, moves, tidied>>

\* ... then it is written.  Of two who write at once a mixture may be left, which cannot be read.
SupStash ==
    /\ sup = "writing"
    /\ stash' = supSaved \/ (stash # NoEntries /\ stash' = NoEntries)
    /\ sup' = "idle" /\ supSaved' = NoEntries
    /\ exposed' = exposed \cup Kept(stash)
    /\ UNCHANGED <<svc, pc, live, dns, saved, port, proxyVars, crashes, moves, tidied>>
-----------------------------------------------------------------------------
Loop == LoopSession \/ LoopRetry \/ LoopPause \/ LoopExit

Run == \/ Recover \/ RecoverFails \/ RecoverDrop \/ RecoverNothing \/ FailEarly
       \/ ProxyHeal \/ ProxyHealFails \/ ProxyHealDrop \/ ProxySave \/ ProxySaveFails \/ ProxyOff
       \/ DialOk \/ DialFail \/ Listen \/ ListenFail
       \/ Apply \/ ApplyNothing \/ Stash \/ StashFails
       \/ Ends \/ DnsBack \/ DnsBackFails \/ DnsDrop \/ CloseClient
       \/ ProxyBack \/ ProxyBackFails \/ ProxyDrop

Supervise == Plug \/ Move \/ Moved \/ MoveFail \/ SupApply \/ SupTruncate \/ SupStash

Next == Launch \/ Exit \/ Crash \/ Connect \/ Disconnect \/ Loop \/ Run \/ PortFree \/ Supervise

Spec == Init /\ [][Next]_vars

\* The loop, run and the listener's goroutine go on; a node that is asked again and
\* again answers some time, and so do the steps before it succeed.
Fairness ==
    /\ WF_vars(Loop) /\ WF_vars(Run /\ pc # "run") /\ WF_vars(PortFree)
    /\ SF_vars(DialOk) /\ SF_vars(ProxySave) /\ SF_vars(ProxyHeal) /\ SF_vars(ProxyOff) /\ SF_vars(Listen)

FairSpec == Spec /\ Fairness /\ WF_vars(Ends /\ cancelled)
-----------------------------------------------------------------------------
(***************************************************************************)
(* Properties                                                              *)
(***************************************************************************)

TypeOK ==
    /\ proc \in BOOLEAN /\ cancelled \in BOOLEAN /\ port \in BOOLEAN /\ tidied \in BOOLEAN
    /\ state \in {"stopped", "connecting", "connected"}
    /\ loop \in {"none", "top", "session", "pause"} /\ pc \in Phase
    /\ live \subseteq Adapter
    /\ dns \in [Adapter -> {"user", "ours"}] /\ stash \in Entries /\ saved \in Entries
    /\ proxy \in {"user", "off"} /\ {pstash, psaved} \subseteq {"none", "user", "off"}
    /\ sup \in {"idle", "moving", "applying", "stashing", "writing"} /\ supSaved \in Entries
    /\ crashes \in 0..MaxCrash /\ moves \in 0..MaxMoves /\ exposed \subseteq Adapter \cup {"proxy"}

ProxyKept == proxy = "user" \/ pstash = "user"
DnsKept(a) == dns[a] = "user" \/ stash[a] = "user" \/ (pc = "stash" /\ saved[a] = "user")

\* The user's proxy is in place or in the file that the next session heals from,
\* whenever the process dies, but for a write that fails (sysproxy_windows.go:111-145), and
\* so is the DNS of every adapter, but for a crash between the change of the settings and
\* the file, a write that fails, and adapters that a change of the network brings in
\* (sysdns_windows.go:80-84).
SettingsRecoverable ==
    /\ ProxyKept \/ "proxy" \in exposed
    /\ \A a \in Adapter \ exposed : DnsKept(a)

\* sysdns_windows.go:83-84 says that whoever kills the client the next second finds the DNS written
\* down.  Not so between the change of the settings and the file.
DnsOnDisk == crashes = 0 /\ moves = 0 => \A a \in Adapter : dns[a] = "user" \/ stash[a] = "user"

Quiet == (proxy = "user" \/ "proxy" \in exposed) /\ \A a \in Adapter \ exposed : dns[a] = "user"

\* When the service says that the session is off, the machine is the user's again, also
\* what sessions before a crash had left (service.go:9-11, :186-190).
QuietWhenStopped == proc /\ state = "stopped" /\ tidied => Quiet

\* The same for every adapter, whatever the network does.
QuietWhereverMoved ==
    proc /\ state = "stopped" /\ tidied /\ crashes = 0 => \A a \in Adapter : dns[a] = "user"

\* A session that is wanted comes up, after any failure and after a crash.
Wanted == loop # "none" /\ ~cancelled
Reconnects == [](exposed = {}) => (Wanted ~> pc = "run" \/ ~Wanted)

\* service.go:30: a session that is said to be connected carries traffic.
ConnectedMeansSo == state = "connected" => pc = "run"
=============================================================================
