----------------------- MODULE SettingsMobile_proofs -----------------------
(***************************************************************************)
(* Two modules of the client, each for itself: they share no variable.     *)
(*                                                                         *)
(* Settings, proved for any nodes, edits and failures: the file of the     *)
(* settings implements Register, and no link of the control channel is     *)
(* lost.                                                                   *)
(*                                                                         *)
(* Mobile, proved for any number of starts, packets and failures and for   *)
(* channels of any size: an engine that a call has let go is never stuck   *)
(* with something it took, and no engine goes on for ever by itself.       *)
(***************************************************************************)
EXTENDS Settings, Mobile, FiniteSetTheorems, TLAPS

Field == {"pc", "cfg", "todo", "token", "link", "once", "late"}

\* The settings that a call saves, or has saved, are settings.
IsSettings(c) == DOMAIN c = {"entries", "token"} /\ c.token \in Known \cup {"none"}

OpShape == op = [p \in Caller |-> op[p]] /\ \A p \in Caller : DOMAIN op[p] = Field

SavesInv ==
    /\ OpShape
    /\ file.safe = TRUE /\ IsSettings(file.cfg) /\ IsSettings(mem)
    /\ \A c \in earlier : IsSettings(c)
    /\ \A p \in Caller : InSave(p) \/ At(p, "loaded") => IsSettings(op[p].cfg)

\* A closed link leads nowhere, so that no node that stops can break it.
LinksInv ==
    /\ OpShape
    /\ links = [i \in LinkId |-> links[i]]
    /\ \A i \in LinkId : DOMAIN links[i] = {"node", "state"}
    /\ \A i \in LinkId : links[i].state = "closed" => links[i].node = "none"
    /\ links[NoLink].state = "closed"
    /\ LinksHeld

-----------------------------------------------------------------------------
(* The steps of Next by what they do to the calls. *)

LEMMA Constants ==
    /\ \A c \in Edits \cup Bundles \cup {Flags} : IsSettings(c)
    /\ "none" \notin Node
    /\ \A c : IsSettings(c) => c # NotSaving
    /\ {"panel", "poll", "admin"} = Caller
  BY SettingsAssumption DEF IsSettings, Config, NotSaving, Caller

LEMMA InitShape == Init => OpShape
  BY DEF Init, OpShape, Idle, Field

\* What a step leaves of the calls: their shape, and all of the calls of others.
LEMMA ShapeKept == OpShape /\ [Next]_vars => OpShape'
  <1> SUFFICES ASSUME OpShape, [Next]_vars PROVE OpShape'
    OBVIOUS
  <1>c. Constants!4
    BY Constants
  <1> USE <1>c DEF OpShape, Field, Step, Ends, Idle
  <1>1. ASSUME NEW p \in Caller, Saving(p) PROVE OpShape'
    BY <1>1 DEF Saving, WriteTemp, SyncTemp, Replace, Rename, Load
  <1>2. ASSUME NEW p \in Caller, Linking(p) PROVE OpShape'
    <2>1. CASE Reuse(p) \/ Refuse(p) \/ DialStart(p)
      BY <2>1 DEF Reuse, Refuse, DialStart
    <2>2. CASE Dial(p)
      BY <2>2 DEF Dial
    <2>3. CASE DialFails(p) \/ StoreLink(p)
      BY <2>3 DEF DialFails, StoreLink
    <2> QED  BY <1>2, <2>1, <2>2, <2>3 DEF Linking
  <1>3. ASSUME NEW p \in Caller, Asking(p) PROVE OpShape'
    BY <1>3 DEF Asking, Answer, Relay, Breaks
  <1>4. ASSUME NEW p \in Caller, SaveFails(p) PROVE OpShape'
    BY <1>4 DEF SaveFails
  <1>5. CASE SetNode \/ Ask \/ Exits \/ Fetch \/ Cool
    BY <1>5 DEF SetNode, Ask, Exits, Request, Fetch, Cool
  <1>6. CASE Apply
    BY <1>6 DEF Apply
  <1>7. ASSUME NEW c, Edited(c) PROVE OpShape'
    BY <1>7 DEF Edited
  <1>8. ASSUME NEW n \in Node, NodeDown(n) \/ NodeUp(n) PROVE OpShape'
    BY <1>8 DEF NodeDown, NodeUp
  <1>9. CASE Publish \/ Crash
    BY <1>9 DEF Publish, Crash
  <1>10. CASE UNCHANGED vars
    BY <1>10 DEF vars
  <1> QED  BY <1>1, <1>2, <1>3, <1>4, <1>5, <1>6, <1>7, <1>8, <1>9, <1>10 DEF Next, Work, Edit, ApplyBundle
-----------------------------------------------------------------------------
(* No link is lost. *)

LEMMA NoLinkIsOne == NoLink \in LinkId
  <1>1. IsFiniteSet({"panel", "poll", "admin"})
    <2>1. IsFiniteSet({"panel"} \cup {"poll"} \cup {"admin"})
      BY FS_Singleton, FS_Union
    <2>2. {"panel", "poll", "admin"} = {"panel"} \cup {"poll"} \cup {"admin"}
      OBVIOUS
    <2> QED  BY <2>1, <2>2
  <1>2. Cardinality(Caller) \in Nat
    BY <1>1, FS_CardinalityType DEF Caller
  <1> QED  BY <1>2 DEF LinkId, NoLink

LEMMA LinksInit == Init => LinksInv
  BY InitShape, NoLinkIsOne DEF Init, LinksInv, LinksHeld, NoSuchLink

\* A step that leaves the links alone, taken by a call that holds none.
LEMMA LinksFrame ==
  ASSUME LinksInv, OpShape', UNCHANGED <<link, links>>,
         \A p \in Caller : At(p, "store") => UNCHANGED op[p]
  PROVE  LinksInv'
  BY DEF LinksInv, LinksHeld, At

\* The link in use, which a call other than one that stores its own closes.
LEMMA LinksClosed ==
  ASSUME LinksInv, OpShape', link' = NoLink, links' = Closed(link),
         \A p \in Caller : At(p, "store") => UNCHANGED op[p]
  PROVE  LinksInv'
  <1>1. /\ links' = [i \in LinkId |-> links'[i]]
        /\ \A i \in LinkId : links'[i] = IF i = link THEN NoSuchLink ELSE links[i]
    BY DEF LinksInv, Closed
  <1> QED  BY <1>1, NoLinkIsOne DEF LinksInv, LinksHeld, At, NoSuchLink

LEMMA LinksKept == LinksInv /\ [Next]_vars => LinksInv'
  <1> SUFFICES ASSUME LinksInv, [Next]_vars PROVE LinksInv'
    OBVIOUS
  <1>c. Constants!2 /\ Constants!4
    BY Constants
  <1>s. OpShape /\ OpShape'
    BY ShapeKept DEF LinksInv
  <1>1. ASSUME NEW p \in Caller, Saving(p) PROVE LinksInv'
    <2>1. UNCHANGED <<link, links>>
      BY <1>1 DEF Saving, WriteTemp, SyncTemp, Replace, Load, control
    <2>2. \A q \in Caller : At(q, "store") => UNCHANGED op[q]
      <3>1. CASE WriteTemp(p) \/ SyncTemp(p) \/ Replace(p)
        BY <3>1, <1>s DEF WriteTemp, SyncTemp, Replace, Rename, Step, At, OpShape
      <3>2. CASE Load(p)
        <4>1. CASE p = "panel"
          BY <3>2, <4>1, <1>s DEF Load, Step, At, OpShape
        <4>2. CASE p # "panel"
          BY <3>2, <4>2, <1>s DEF Load, Ends, At, OpShape
        <4> QED  BY <4>1, <4>2
      <3> QED  BY <1>1, <3>1, <3>2 DEF Saving
    <2> QED  BY <2>1, <2>2, <1>s, LinksFrame
  <1>2. ASSUME NEW p \in Caller, Reuse(p) \/ Refuse(p) \/ DialStart(p) \/ DialFails(p)
        PROVE  LinksInv'
    <2>1. UNCHANGED <<link, links>>
      BY <1>2 DEF Reuse, Refuse, DialStart, DialFails, control
    <2>2. \A q \in Caller : At(q, "store") => UNCHANGED op[q]
      BY <1>2, <1>s DEF Reuse, Refuse, DialStart, DialFails, Ends, At, OpShape
    <2> QED  BY <2>1, <2>2, <1>s, LinksFrame
  <1>3. ASSUME NEW p \in Caller, Dial(p) PROVE LinksInv'
    <2>1. \A q \in Caller : At(q, "store") => UNCHANGED op[q]
      BY <1>3, <1>s DEF Dial, At, OpShape
    <2>2. CASE DialLink(Head(op[p].todo), op[p].token)
      <3>1. PICK i \in Spare :
              /\ links' = [links EXCEPT ![i] = [node |-> Head(op[p].todo), state |-> "open"]]
              /\ op' = [op EXCEPT ![p].pc = "store", ![p].link = i, ![p].todo = <<>>]
        BY <1>3, <2>2 DEF Dial
      <3>2. At(p, "store")' /\ op'[p].link = i
        BY <3>1, <1>s DEF At, OpShape, Field
      <3>3. i \in LinkId /\ i # NoLink
        BY DEF Spare
      <3>4. /\ links' = [j \in LinkId |-> links'[j]]
            /\ \A j \in LinkId : links'[j] = IF j = i THEN [node |-> Head(op[p].todo), state |-> "open"]
                                            ELSE links[j]
        BY <3>1, <3>3 DEF LinksInv
      <3>5. link' = link
        BY <1>3 DEF Dial
      <3> QED  BY <3>2, <3>3, <3>4, <3>5, <2>1, <1>s, NoLinkIsOne DEF LinksInv, LinksHeld, At
    <2>3. CASE ~DialLink(Head(op[p].todo), op[p].token)
      <3>1. UNCHANGED <<link, links>>
        BY <1>3, <2>3 DEF Dial
      <3> QED  BY <3>1, <2>1, <1>s, LinksFrame
    <2> QED  BY <2>2, <2>3
  <1>4. ASSUME NEW p \in Caller, StoreLink(p) PROVE LinksInv'
    <2>1. \A q \in Caller \ {p} : UNCHANGED op[q]
      BY <1>4, <1>s DEF StoreLink, OpShape
    <2>2. CASE link = NoLink
      <3>1. link' = op[p].link /\ links' = links
        BY <1>4, <2>2 DEF StoreLink, KeepEarlier
      <3> QED  BY <3>1, <2>1, <2>2, <1>s DEF LinksInv, LinksHeld, At
    <2>3. CASE link # NoLink
      <3>1. link' = link /\ links' = Closed(op[p].link)
        BY <1>4, <2>3 DEF StoreLink, KeepEarlier
      <3>2. /\ links' = [i \in LinkId |-> links'[i]]
            /\ \A i \in LinkId : links'[i] = IF i = op[p].link THEN NoSuchLink ELSE links[i]
        BY <3>1 DEF LinksInv, Closed
      <3> QED  BY <3>1, <3>2, <2>1, <1>s, NoLinkIsOne DEF LinksInv, LinksHeld, At, NoSuchLink
    <2> QED  BY <2>2, <2>3
  <1>5. ASSUME NEW p \in Caller, Asking(p) PROVE LinksInv'
    <2>1. \A q \in Caller : At(q, "store") => UNCHANGED op[q]
      BY <1>5, <1>c, <1>s DEF Asking, Answer, Relay, Answers, Breaks, Ends, At, OpShape
    <2>2. CASE UNCHANGED <<link, links>>
      BY <2>1, <2>2, <1>s, LinksFrame
    <2>3. CASE link' = NoLink /\ links' = Closed(link)
      BY <2>1, <2>3, <1>s, LinksClosed
    <2> QED  BY <1>5, <2>2, <2>3 DEF Asking, Answer, Relay, Breaks, Dropped, control
  <1>6. ASSUME NEW p \in Caller, SaveFails(p) PROVE LinksInv'
    <2>1. UNCHANGED <<link, links>>
      BY <1>6 DEF SaveFails, control
    <2>2. \A q \in Caller : At(q, "store") => UNCHANGED op[q]
      BY <1>6, <1>s DEF SaveFails, Ends, At, OpShape
    <2> QED  BY <2>1, <2>2, <1>s, LinksFrame
  <1>7. CASE SetNode
    <2>1. \A q \in Caller : At(q, "store") => UNCHANGED op[q]
      BY <1>7, <1>c, <1>s DEF SetNode, Ends, At, OpShape
    <2>2. CASE UNCHANGED <<link, links>>
      BY <2>1, <2>2, <1>s, LinksFrame
    <2>3. CASE link' = NoLink /\ links' = Closed(link)
      BY <2>1, <2>3, <1>s, LinksClosed
    <2> QED  BY <1>7, <2>2, <2>3 DEF SetNode
  <1>8. CASE Ask \/ Exits \/ Fetch \/ Apply \/ Cool
    <2>1. UNCHANGED <<link, links>>
      BY <1>8 DEF Ask, Exits, Request, Fetch, Apply, Cool, control
    <2>2. \A q \in Caller : At(q, "store") => UNCHANGED op[q]
      BY <1>8, <1>c, <1>s DEF Ask, Exits, Request, Fetch, Apply, Cool, Step, Ends, At, OpShape
    <2> QED  BY <2>1, <2>2, <1>s, LinksFrame
  <1>9. ASSUME NEW c, Edited(c) PROVE LinksInv'
    <2>1. UNCHANGED <<link, links>>
      BY <1>9 DEF Edited, control
    <2>2. \A q \in Caller : At(q, "store") => UNCHANGED op[q]
      BY <1>9, <1>c, <1>s DEF Edited, At, OpShape
    <2> QED  BY <2>1, <2>2, <1>s, LinksFrame
  <1>10. ASSUME NEW n \in Node, NodeDown(n) PROVE LinksInv'
    <2>1. /\ links' = [i \in LinkId |-> links'[i]]
          /\ \A i \in LinkId : /\ DOMAIN links'[i] = {"node", "state"}
                               /\ links'[i].node = links[i].node
                               /\ links'[i].state = "closed" <=> links[i].state = "closed"
      BY <1>10, <1>c DEF NodeDown, LinksInv
    <2>2. UNCHANGED <<link, op>>
      BY <1>10 DEF NodeDown
    <2> QED  BY <2>1, <2>2, <1>s, NoLinkIsOne DEF LinksInv, LinksHeld, At
  <1>11. ASSUME NEW n \in Node, NodeUp(n) PROVE LinksInv'
    BY <1>11, <1>s, LinksFrame DEF NodeUp, control
  <1>12. CASE Publish
    BY <1>12, <1>s, LinksFrame DEF Publish, control
  <1>13. CASE Crash
    <2>1. links' = [i \in LinkId |-> NoSuchLink]
      BY <1>13 DEF Crash
    <2> QED  BY <2>1, <1>s, NoLinkIsOne DEF LinksInv, LinksHeld, NoSuchLink
  <1>14. CASE UNCHANGED vars
    BY <1>14, <1>s, LinksFrame DEF vars, control
  <1> QED  BY <1>1, <1>2, <1>3, <1>4, <1>5, <1>6, <1>7, <1>8, <1>9, <1>10, <1>11, <1>12, <1>13, <1>14
           DEF Next, Work, Linking, Edit, ApplyBundle

\* Whatever dials overlap, whatever breaks and whatever settings replace the node meanwhile, a link
\* that is not closed is the one in use or about to be stored (control.go:207-244).
THEOREM LinksHeldAlways == Spec => []LinksHeld
  <1>1. LinksInv => LinksHeld
    BY DEF LinksInv
  <1> QED  BY LinksInit, LinksKept, <1>1, PTL DEF Spec
-----------------------------------------------------------------------------
(* The file is a register. *)

Saved == [Saves!Next]_<<Content, earlier, [p \in Caller |-> IF InSave(p) THEN op[p].cfg ELSE NotSaving]>>

\* A step that saves nothing: each call goes on as it was, or is not saving before and after.
Quiet ==
    /\ UNCHANGED client
    /\ \A q \in Caller : UNCHANGED op[q] \/ (~InSave(q) /\ ~InSave(q)' /\ ~At(q, "loaded")')

LEMMA SavesInit == Init => SavesInv /\ Saves!Init
  <1> SUFFICES ASSUME Init PROVE SavesInv /\ Saves!Init
    OBVIOUS
  <1>1. \A p \in Caller : ~InSave(p) /\ ~At(p, "loaded")
    BY DEF Init, InSave, At, Idle
  <1>2. IsSettings(Flags)
    BY Constants
  <1>3. IsSettings(Default) /\ IsSettings(WithRuntimeNode(Default))
    BY <1>2 DEF IsSettings, Default, WithRuntimeNode
  <1>4. SavesInv
    BY <1>1, <1>3, InitShape DEF SavesInv, Init
  <1>5. Saves!Init
    BY <1>1 DEF Init, Saves!Init
  <1> QED  BY <1>4, <1>5

LEMMA QuietSaves ==
  ASSUME SavesInv, OpShape', Quiet
  PROVE  SavesInv' /\ Saved
  <1>1. UNCHANGED <<file, earlier, mem, Content>>
    BY DEF Quiet, client, Content
  <1>2. \A q \in Caller : InSave(q) \/ InSave(q)' => InSave(q) /\ InSave(q)' /\ UNCHANGED op[q]
    BY DEF Quiet, InSave
  <1>3. SavesInv'
    <2>1. \A q \in Caller : (InSave(q) \/ At(q, "loaded"))' => UNCHANGED op[q]
      BY <1>2 DEF Quiet
    <2>2. \A q \in Caller : (InSave(q) \/ At(q, "loaded"))' => IsSettings(op'[q].cfg)
      BY <2>1 DEF SavesInv, InSave, At
    <2> QED  BY <1>1, <2>2 DEF SavesInv
  <1>4. UNCHANGED [p \in Caller |-> IF InSave(p) THEN op[p].cfg ELSE NotSaving]
    BY <1>2
  <1> QED  BY <1>1, <1>3, <1>4 DEF Saved

\* The steps of a call that is saving nothing.
LEMMA QuietSteps ==
  ASSUME OpShape, NEW p \in Caller, Linking(p) \/ Asking(p)
  PROVE  Quiet
  <1>c. Constants!4
    BY Constants
  <1> USE DEF OpShape, Field, Ends, Step, At, InSave, Quiet
  <1>1. CASE Reuse(p) \/ Refuse(p) \/ DialStart(p)
    <2>1. UNCHANGED client /\ At(p, "link")
      BY <1>1 DEF Reuse, Refuse, DialStart
    <2>2. CASE Reuse(p)
      BY <2>1, <2>2 DEF Reuse
    <2>3. CASE Refuse(p)
      BY <2>1, <2>3 DEF Refuse, Idle
    <2>4. CASE DialStart(p)
      BY <2>1, <2>4 DEF DialStart
    <2> QED  BY <1>1, <2>2, <2>3, <2>4
  <1>2. CASE Dial(p)
    <2>1. UNCHANGED client /\ At(p, "dial")
      BY <1>2 DEF Dial
    <2>2. CASE DialLink(Head(op[p].todo), op[p].token)
      <3>1. PICK i \in Spare :
              op' = [op EXCEPT ![p].pc = "store", ![p].link = i, ![p].todo = <<>>]
        BY <1>2, <2>2 DEF Dial
      <3> QED  BY <3>1, <2>1
    <2>3. CASE ~DialLink(Head(op[p].todo), op[p].token)
      BY <1>2, <2>1, <2>3 DEF Dial
    <2> QED  BY <2>2, <2>3
  <1>3. CASE DialFails(p) \/ StoreLink(p)
    BY <1>3 DEF DialFails, StoreLink, Idle
  <1>4. CASE Asking(p)
    <2>1. CASE (p = "poll" /\ Answer) \/ (p = "admin" /\ Relay)
      BY <2>1 DEF Answer, Relay, Answers, Idle
    <2>2. CASE Breaks(p)
      <3>1. UNCHANGED client /\ At(p, "ask")
        BY <2>2 DEF Breaks
      <3>2. CASE op[p].once
        BY <2>2, <3>1, <3>2 DEF Breaks, Idle
      <3>3. CASE ~op[p].once
        BY <2>2, <3>1, <3>3 DEF Breaks, Idle
      <3> QED  BY <3>2, <3>3
    <2> QED  BY <1>4, <2>1, <2>2 DEF Asking
  <1> QED  BY <1>1, <1>2, <1>3, <1>4 DEF Linking

LEMMA QuietOthers ==
  ASSUME OpShape,
         \/ SetNode \/ Ask \/ Exits \/ Fetch \/ Cool \/ Publish \/ UNCHANGED vars
         \/ \E n \in Node : NodeDown(n) \/ NodeUp(n)
  PROVE  Quiet
  <1>c. Constants!4
    BY Constants
  <1> USE DEF OpShape, Field, Ends, Step, At, InSave, Quiet
  <1>1. CASE SetNode
    BY <1>1, <1>c DEF SetNode, Idle
  <1>2. CASE Ask \/ Exits \/ Fetch
    BY <1>2, <1>c DEF Ask, Exits, Request, Fetch
  <1>3. CASE Cool \/ Publish \/ UNCHANGED vars
    BY <1>3 DEF Cool, Publish, vars
  <1>4. CASE \E n \in Node : NodeDown(n) \/ NodeUp(n)
    BY <1>4 DEF NodeDown, NodeUp
  <1> QED  BY <1>1, <1>2, <1>3, <1>4

\* A call that begins to save settings, of which nobody else's step takes note.
LEMMA BeginSaves ==
  ASSUME SavesInv, OpShape', UNCHANGED client, NEW p \in Caller, ~InSave(p),
         \A q \in Caller \ {p} : UNCHANGED op[q],
         At(p, "save")', IsSettings(op'[p].cfg)
  PROVE  SavesInv' /\ Saved
  <1>1. UNCHANGED <<file, earlier, mem, Content>>
    BY DEF client, Content
  <1>2. InSave(p)'
    BY DEF At, InSave
  <1>3. \A q \in Caller \ {p} : /\ InSave(q)' = InSave(q) /\ At(q, "loaded")' = At(q, "loaded")
                                /\ op'[q].cfg = op[q].cfg
    BY DEF At, InSave
  <1>4. SavesInv'
    BY <1>1, <1>3 DEF SavesInv
  <1>5. op'[p].cfg # NotSaving
    BY Constants
  <1>6. Saves!Begin(p)
    BY <1>1, <1>2, <1>3, <1>5 DEF Saves!Begin
  <1> QED  BY <1>4, <1>6 DEF Saved, Saves!Next

LEMMA SavingSaves ==
  ASSUME SavesInv, OpShape', NEW p \in Caller, Saving(p) \/ SaveFails(p)
  PROVE  SavesInv' /\ Saved
  <1>s. OpShape
    BY DEF SavesInv
  <1>1. \A q \in Caller \ {p} : UNCHANGED op[q]
    <2>1. CASE WriteTemp(p) \/ SyncTemp(p) \/ Replace(p) \/ SaveFails(p)
      BY <2>1, <1>s DEF WriteTemp, SyncTemp, Replace, SaveFails, Step, Ends, OpShape
    <2>2. CASE Load(p)
      BY <2>2, <1>s DEF Load, Step, Ends, OpShape
    <2> QED  BY <2>1, <2>2 DEF Saving
  <1>2. \A q \in Caller \ {p} : /\ InSave(q)' = InSave(q) /\ At(q, "loaded")' = At(q, "loaded")
                                /\ op'[q].cfg = op[q].cfg
    BY <1>1 DEF At, InSave
  <1>3. CASE WriteTemp(p) \/ SyncTemp(p)
    <2>1. InSave(p) /\ InSave(p)' /\ op'[p].cfg = op[p].cfg
      BY <1>3, <1>s DEF WriteTemp, SyncTemp, Step, At, InSave, OpShape, Field
    <2>2. UNCHANGED <<file, earlier, mem, Content>>
      BY <1>3 DEF WriteTemp, SyncTemp, client, Content
    <2>3. SavesInv'
      BY <2>1, <2>2, <1>2, <1>3 DEF SavesInv, InSave, At
    <2>4. UNCHANGED [q \in Caller |-> IF InSave(q) THEN op[q].cfg ELSE NotSaving]
      BY <2>1, <1>2
    <2> QED  BY <2>2, <2>3, <2>4 DEF Saved
  <1>4. CASE Replace(p)
    <2>1. InSave(p) /\ ~InSave(p)' /\ At(p, "loaded")' /\ op'[p].cfg = op[p].cfg
      BY <1>4, <1>s DEF Replace, Rename, Step, At, InSave, OpShape, Field
    <2>2. IsSettings(op[p].cfg)
      BY <2>1 DEF SavesInv
    <2>3. /\ file' = [cfg |-> op[p].cfg, safe |-> TRUE] /\ mem' = mem
          /\ earlier' = earlier \cup {file.cfg}
      BY <1>4 DEF Replace, Rename
    <2>4. SavesInv'
      BY <2>1, <2>2, <2>3, <1>2 DEF SavesInv
    <2>5. op[p].cfg # NotSaving
      BY <2>2, Constants
    <2>6. Content' = op[p].cfg /\ earlier' = earlier \cup {Content}
      BY <2>3 DEF Content, SavesInv
    <2>7. Saves!Commit(p)
      BY <2>1, <2>5, <2>6, <1>2 DEF Saves!Commit
    <2> QED  BY <2>4, <2>7 DEF Saved, Saves!Next
  <1>5. CASE Load(p)
    <2>1. At(p, "loaded") /\ ~InSave(p)
      BY <1>5 DEF Load, At, InSave
    <2>2. ~InSave(p)' /\ ~At(p, "loaded")'
      <3>1. CASE p = "panel"
        BY <1>5, <3>1, <1>s DEF Load, Step, At, InSave, OpShape, Field
      <3>2. CASE p # "panel"
        BY <1>5, <3>2, <1>s DEF Load, Ends, Idle, At, InSave, OpShape
      <3> QED  BY <3>1, <3>2
    <2>3. IsSettings(op[p].cfg) /\ mem' = op[p].cfg /\ UNCHANGED <<file, earlier, Content>>
      BY <1>5, <2>1 DEF Load, SavesInv, Content
    <2>4. SavesInv'
      BY <2>2, <2>3, <1>2 DEF SavesInv
    <2>5. UNCHANGED [q \in Caller |-> IF InSave(q) THEN op[q].cfg ELSE NotSaving]
      BY <2>1, <2>2, <1>2
    <2> QED  BY <2>3, <2>4, <2>5 DEF Saved
  <1>6. CASE SaveFails(p)
    <2>1. InSave(p) /\ ~InSave(p)' /\ ~At(p, "loaded")'
      BY <1>6, <1>s DEF SaveFails, Ends, Idle, At, InSave, OpShape
    <2>2. UNCHANGED <<file, earlier, mem, Content>>
      BY <1>6 DEF SaveFails, client, Content
    <2>3. SavesInv'
      BY <2>1, <2>2, <1>2 DEF SavesInv
    <2>4. op[p].cfg # NotSaving
      BY <2>1, Constants DEF SavesInv
    <2>5. Saves!Abandon(p)
      BY <2>1, <2>2, <2>4, <1>2 DEF Saves!Abandon
    <2> QED  BY <2>3, <2>5 DEF Saved, Saves!Next
  <1> QED  BY <1>3, <1>4, <1>5, <1>6 DEF Saving

LEMMA SavesKept == SavesInv /\ [Next]_vars => SavesInv' /\ Saved
  <1> SUFFICES ASSUME SavesInv, [Next]_vars PROVE SavesInv' /\ Saved
    OBVIOUS
  <1>c. Constants!1 /\ Constants!4
    BY Constants
  <1>s. OpShape /\ OpShape'
    BY ShapeKept DEF SavesInv
  <1>1. ASSUME NEW p \in Caller, Saving(p) \/ SaveFails(p) PROVE SavesInv' /\ Saved
    BY <1>1, <1>s, SavingSaves
  <1>2. ASSUME NEW p \in Caller, Linking(p) \/ Asking(p) PROVE SavesInv' /\ Saved
    BY <1>2, <1>s, QuietSteps, QuietSaves
  <1>3. ASSUME \/ SetNode \/ Ask \/ Exits \/ Fetch \/ Cool \/ Publish \/ UNCHANGED vars
               \/ \E n \in Node : NodeDown(n) \/ NodeUp(n)
        PROVE  SavesInv' /\ Saved
    BY <1>3, <1>s, QuietOthers, QuietSaves
  <1>4. ASSUME NEW c, IsSettings(c), Edited(c) PROVE SavesInv' /\ Saved
    <2>1. UNCHANGED client /\ ~InSave("panel")
      BY <1>4 DEF Edited, At, InSave
    <2>2. /\ \A q \in Caller \ {"panel"} : UNCHANGED op[q]
          /\ At("panel", "save")' /\ op'["panel"].cfg = c
      BY <1>4, <1>c, <1>s DEF Edited, At, OpShape, Field
    <2> QED  BY <2>1, <2>2, <1>4, <1>c, <1>s, BeginSaves
  <1>5. ASSUME NEW b \in Bundles PROVE IsSettings(Applied(mem, b))
    BY <1>c DEF Applied, IsSettings, SavesInv
  <1>6. CASE Apply
    <2> DEFINE arr == Arranged(op["poll"].todo)
    <2>1. CASE arr \in {<<>>, mem.entries}
      <3>1. Quiet
        BY <1>6, <2>1, <1>c, <1>s DEF Apply, Ends, Idle, At, InSave, Quiet, OpShape
      <3> QED  BY <3>1, <1>s, QuietSaves
    <2>2. CASE arr \notin {<<>>, mem.entries}
      <3>1. op' = [op EXCEPT !["poll"] = [Idle EXCEPT !.pc = "save",
                                                      !.cfg = [mem EXCEPT !.entries = arr]]]
        BY <1>6, <2>2 DEF Apply
      <3>2. UNCHANGED client /\ ~InSave("poll")
        BY <1>6 DEF Apply, At, InSave
      <3>3. IsSettings([mem EXCEPT !.entries = arr])
        BY DEF IsSettings, SavesInv
      <3> HIDE DEF arr
      <3>4. /\ \A q \in Caller \ {"poll"} : UNCHANGED op[q]
            /\ At("poll", "save")' /\ op'["poll"].cfg = [mem EXCEPT !.entries = arr]
        BY <3>1, <1>c, <1>s DEF At, OpShape, Idle
      <3> QED  BY <3>2, <3>3, <3>4, <1>c, <1>s, BeginSaves
    <2> QED  BY <2>1, <2>2
  <1>7. CASE Crash
    <2>1. \A q \in Caller : ~InSave(q)' /\ ~At(q, "loaded")'
      BY <1>7 DEF Crash, InSave, At, Idle
    <2>2. /\ file'.safe = TRUE /\ IsSettings(file'.cfg)
          /\ \A c \in earlier' : IsSettings(c)
          /\ \/ UNCHANGED <<Content, earlier>>
             \/ Content' \in earlier \cup {Content} /\ earlier' = {}
      <3>1. CASE UNCHANGED <<file, earlier>>
        BY <3>1 DEF SavesInv, Content
      <3>2. ASSUME NEW c \in earlier \cup {file.cfg}, file' = [cfg |-> c, safe |-> file.safe],
                   earlier' = {}
            PROVE  /\ file'.safe = TRUE /\ IsSettings(file'.cfg) /\ earlier' = {}
                   /\ Content' \in earlier \cup {Content}
        <4>1. file'.cfg = c /\ file'.safe = TRUE /\ IsSettings(c)
          BY <3>2 DEF SavesInv
        <4>2. Content' = c /\ Content = file.cfg
          BY <4>1 DEF Content, SavesInv
        <4> QED  BY <3>2, <4>1, <4>2
      <3> QED  BY <1>7, <3>1, <3>2 DEF Crash
    <2>3. IsSettings(mem')
      BY <1>7, <2>2, <1>c DEF Crash, WithRuntimeNode, LoadFrom, IsSettings
    <2>4. SavesInv'
      BY <2>1, <2>2, <2>3, <1>s DEF SavesInv
    <2>5. Saves!Crash
      BY <2>1, <2>2 DEF Saves!Crash
    <2> QED  BY <2>4, <2>5 DEF Saved, Saves!Next
  <1> QED  BY <1>1, <1>2, <1>3, <1>4, <1>5, <1>6, <1>7, <1>c DEF Next, Work, Edit, ApplyBundle

\* Whatever saves overlap, fail or are cut short by a crash, the file holds what one of them wrote,
\* whole: the client's handling of its file implements Register (config.go:220-262).
THEOREM FileRegister == Spec => FileIsRegister
  <1>1. Init => Saves!Init
    BY SavesInit
  <1> QED  BY SavesInit, SavesKept, <1>1, PTL DEF Spec, FileIsRegister, Saves!Spec, Saved
-----------------------------------------------------------------------------
(***************************************************************************)
(* Mobile.  Sound says what one adapter is like between two steps, and     *)
(* MobileInv what they are like together.                                  *)
(***************************************************************************)

\* The worker has handed nothing to an engine yet.
Early == {"begin", "dial", "dialled", "local"}

Engine ==
    [running : BOOLEAN, state : {"none", "connecting", "connected", "stopped"}, cancelled : BOOLEAN,
     fd : {"none", "open", "closed"}, remote : BOOLEAN, tun : {"none", "open", "closed"}, held : BOOLEAN,
     pc : Early \cup {"none", "run", "close", "defer", "end"},
     go : [Goroutine -> {"none", "read", "write", "end"}],
     errc : Nat, ch : 0..InSize, up : 0..PairSize, down : 0..PairSize]

Ended(go, g) == IF go[g] = "end" THEN 1 ELSE 0

\* A tunnel is open only where the worker will close it, and goroutines run only over a tunnel; who
\* cancels an adapter closes its descriptor; an error is told once by each goroutine that can.
Sound(a) ==
    /\ a \in Engine
    /\ a.running <=> ~a.cancelled /\ a.pc \notin {"none", "end"}
    /\ a.cancelled => a.fd = "closed" /\ a.pc # "none"
    /\ a.pc = "end" => a.state = "stopped"
    /\ a.tun = "open" => a.pc \in {"dialled", "run", "close"}
    /\ a.pc \in Early \cup {"none"} => \A g \in Goroutine : a.go[g] = "none"
    /\ a.pc \in {"dialled", "run", "close"} \/ (\E g \in Goroutine : a.go[g] # "none") => a.tun # "none"
    /\ a.go["in"] # "write" /\ a.go["ns"] # "write"
    /\ a.errc <= Ended(a.go, "out") + Ended(a.go, "rd")

\* Only the adapter that calls work on may run: another was cancelled or has ended.
MobileInv ==
    /\ ad = [i \in Adapter |-> ad[i]] /\ \A i \in Adapter : Sound(ad[i]) /\ (Made(i) <=> i <= made)
    /\ globalAdapter \in Nat /\ made \in Nat /\ globalAdapter <= made
    /\ globalAdapter # 0 => ~ad[globalAdapter].cancelled
    /\ \A i \in Adapter : Made(i) /\ i # globalAdapter => ad[i].cancelled \/ ad[i].pc = "end"
    /\ call \in {"none", "stop", "new"}
    /\ call = "new" /\ globalAdapter # 0 => ~ad[globalAdapter].running
    /\ starts \in Nat /\ packets \in Nat /\ fails \in Nat
    /\ made + starts + (IF call = "none" THEN 0 ELSE 1) <= MaxStarts

\* A new adapter, and the place of one that is not made.
LEMMA FreshSound ==
    /\ \A r \in BOOLEAN : Sound(Fresh(r)) /\ Fresh(r).pc # "none" /\ ~Fresh(r).cancelled /\ Fresh(r).running
    /\ Sound(Absent) /\ Absent.pc = "none"
  <1> USE MobileAssumption
  <1>1. ASSUME NEW r \in BOOLEAN PROVE Fresh(r) \in Engine
    BY DEF Fresh, Engine, Early
  <1>2. ASSUME NEW r \in BOOLEAN
        PROVE  Sound(Fresh(r)) /\ Fresh(r).pc # "none" /\ ~Fresh(r).cancelled /\ Fresh(r).running
    <2> HIDE DEF Engine
    <2>1. Fresh(r).running /\ ~Fresh(r).cancelled /\ Fresh(r).pc = "begin" /\ Fresh(r).errc = 0
         /\ Fresh(r).tun = "none"
      BY DEF Fresh
    <2>2. \A g \in Goroutine : Fresh(r).go[g] = "none"
      BY DEF Fresh
    <2> QED  BY <1>1, <2>1, <2>2 DEF Sound, Early, Ended, Goroutine
  <1>3. Absent \in Engine
    BY <1>1 DEF Absent, Engine
  <1>4. ~Absent.running /\ ~Absent.cancelled /\ Absent.pc = "none" /\ Absent.errc = 0 /\ Absent.tun = "none"
    BY DEF Absent, Fresh
  <1>5. \A g \in Goroutine : Absent.go[g] = "none"
    BY DEF Absent, Fresh
  <1>6. Sound(Absent)
    BY <1>3, <1>4, <1>5 DEF Sound, Early, Ended, Goroutine
  <1> QED  BY <1>2, <1>4, <1>6

\* Nothing is made at the start.
LEMMA Beginnings == MobileInit => MobileInv
  <1> SUFFICES ASSUME MobileInit PROVE MobileInv
    OBVIOUS
  <1> USE MobileAssumption DEF MobileInit
  <1>1. \A i \in Adapter : ad[i] = Absent
    OBVIOUS
  <1>2. Sound(Absent) /\ Absent.pc = "none"
    BY FreshSound
  <1>3. \A i \in Adapter : Sound(ad[i]) /\ (Made(i) <=> i <= made)
    BY <1>1, <1>2 DEF Made, Adapter
  <1>4. starts \in 0..MaxStarts /\ packets \in Nat /\ fails \in Nat
    OBVIOUS
  <1> QED  BY <1>1, <1>2, <1>3, <1>4 DEF MobileInv, Made

\* What an engine's own steps may do to it.
Later(r, a) ==
    /\ r.pc # "none" /\ a.pc # "none" /\ a.cancelled = r.cancelled
    /\ r.pc = "end" => a.pc = "end"
    /\ a.running => r.running

\* A step of one engine alone keeps the whole, if it keeps that engine sound and lets it not go back.
LEMMA OneKeeps ==
    ASSUME MobileInv, NEW i \in Adapter, NEW a, Becomes(i, a), Sound(a), Later(ad[i], a),
           packets' \in Nat, fails' \in Nat
    PROVE  MobileInv'
  <1> USE DEF Becomes, Later
  <1>1. ad' = [j \in Adapter |-> ad'[j]] /\ \A j \in Adapter : Sound(ad'[j])
    BY DEF MobileInv
  <1>2. \A j \in Adapter : ad'[j].cancelled = ad[j].cancelled /\ (ad[j].pc = "end" => ad'[j].pc = "end")
                           /\ (ad'[j].running => ad[j].running) /\ (ad'[j].pc = "none" <=> ad[j].pc = "none")
    BY DEF MobileInv
  <1>3. globalAdapter # 0 => globalAdapter \in Adapter
    BY MobileAssumption DEF MobileInv, Adapter
  <1>4. \A j \in Adapter : (Made(j))' <=> Made(j)
    BY <1>2 DEF Made
  <1>5. \A j \in Adapter : (Made(j))' /\ j # globalAdapter' => ad'[j].cancelled \/ ad'[j].pc = "end"
    BY <1>2, <1>4 DEF MobileInv
  <1>6. (globalAdapter' # 0 => ~ad'[globalAdapter'].cancelled)
        /\ (call' = "new" /\ globalAdapter' # 0 => ~ad'[globalAdapter'].running)
    BY <1>2, <1>3 DEF MobileInv
  <1> HIDE DEF Sound
  <1> QED  BY <1>1, <1>4, <1>5, <1>6 DEF MobileInv

\* The goroutines that Run and the netstack start: each in its loop, or ended.
LEMMA SpawnedSound ==
    ASSUME NEW gs, NEW r \in Engine
    PROVE  /\ Spawned(gs, r) \in [Goroutine -> {"none", "read", "write", "end"}]
           /\ \A g \in Goroutine : Spawned(gs, r)[g] # "write"
  BY DEF Spawned

\* What they have before them is less than what the worker had.
LEMMA SpawnLeft ==
    ASSUME NEW r \in Engine
    PROVE  /\ GoLeft(r.go) \in Nat
           /\ \A gs : GoLeft(Spawned(gs, r)) \in 0..5
  <1>1. r.go \in [Goroutine -> {"none", "read", "write", "end"}]
    BY DEF Engine
  <1>2. \A gs : \A g \in Goroutine : Spawned(gs, r)[g] \in {"none", "read", "end"}
    BY DEF Spawned
  <1> QED  BY <1>1, <1>2 DEF GoLeft, Hand, Goroutine

\* A step of the worker keeps its adapter sound and leaves less to do, action by action.
LEMMA WorkerTurns ==
    ASSUME MobileInv, NEW i \in Adapter, Worker(i)
    PROVE  \E a : /\ Becomes(i, a) /\ Sound(a) /\ Later(ad[i], a) /\ LeftOf(a) < LeftOf(ad[i])
                 /\ packets' = packets /\ fails' \in Nat
  <1> DEFINE r == ad[i]
  <1>0. Sound(r) /\ r \in Engine /\ packets \in Nat /\ fails \in Nat
    BY DEF MobileInv, Sound
  <1>1. CASE WorkerBegins(i)
    <2> DEFINE a == [ad[i] EXCEPT !.pc = IF ad[i].remote THEN "dial" ELSE "local"]
    <2>1. a \in Engine
      BY <1>0, SpawnedSound DEF Engine, Early
    <2>2. Sound(a)
      BY <1>0, <1>1, <2>1, SpawnedSound DEF WorkerBegins, Sound, Engine, Early, Ended, Goroutine
    <2>3. Becomes(i, a) /\ packets' = packets /\ fails' \in Nat
      BY <1>0, <1>1 DEF WorkerBegins, NoFault, Fails
    <2>4. Later(r, a)
      BY <1>0, <1>1 DEF WorkerBegins, Engine, Later
    <2>5. LeftOf(a) < LeftOf(r)
      BY <1>0, <1>1, <2>1, SpawnLeft DEF WorkerBegins, Engine, Early, LeftOf, WorkerLeft
    <2> HIDE DEF a
    <2> QED  BY <2>2, <2>3, <2>4, <2>5
  <1>2. CASE DialOk(i)
    <2> DEFINE a == [ad[i] EXCEPT !.pc = "dialled", !.tun = "open"]
    <2>1. a \in Engine
      BY <1>0, SpawnedSound DEF Engine, Early
    <2>2. Sound(a)
      BY <1>0, <1>2, <2>1, SpawnedSound DEF DialOk, Sound, Engine, Early, Ended, Goroutine
    <2>3. Becomes(i, a) /\ packets' = packets /\ fails' \in Nat
      BY <1>0, <1>2 DEF DialOk, NoFault, Fails
    <2>4. Later(r, a)
      BY <1>0, <1>2 DEF DialOk, Engine, Later
    <2>5. LeftOf(a) < LeftOf(r)
      BY <1>0, <1>2, <2>1, SpawnLeft DEF DialOk, Engine, Early, LeftOf, WorkerLeft
    <2> HIDE DEF a
    <2> QED  BY <2>2, <2>3, <2>4, <2>5
  <1>3. CASE NodeFails(i)
    <2> DEFINE a == [ad[i] EXCEPT !.pc = "local", !.remote = FALSE]
    <2>1. a \in Engine
      BY <1>0, SpawnedSound DEF Engine, Early
    <2>2. Sound(a)
      BY <1>0, <1>3, <2>1, SpawnedSound DEF NodeFails, Sound, Engine, Early, Ended, Goroutine
    <2>3. Becomes(i, a) /\ packets' = packets /\ fails' \in Nat
      BY <1>0, <1>3 DEF NodeFails, NoFault, Fails
    <2>4. Later(r, a)
      BY <1>0, <1>3 DEF NodeFails, Engine, Later
    <2>5. LeftOf(a) < LeftOf(r)
      BY <1>0, <1>3, <2>1, SpawnLeft DEF NodeFails, Engine, Early, LeftOf, WorkerLeft
    <2> HIDE DEF a
    <2> QED  BY <2>2, <2>3, <2>4, <2>5
  <1>4. CASE EngineOnNode(i)
    <2> DEFINE a == [ad[i] EXCEPT !.pc = "run", !.held = TRUE, !.state = "connected",
                                !.go = Spawned({"out", "rd", "in"}, ad[i])]
    <2>1. a \in Engine
      BY <1>0, SpawnedSound DEF Engine, Early
    <2>0. r.pc \in Early /\ r.errc = 0
      BY <1>0, <1>4 DEF EngineOnNode, Sound, Engine, Early, Ended, Goroutine
    <2>a. /\ a.pc = "run" /\ a.errc = 0 /\ a.running = r.running /\ a.cancelled = r.cancelled
          /\ a.fd = r.fd /\ a.tun # "none"
          /\ \A g \in Goroutine : a.go[g] # "write"
      BY <1>0, <1>4, <2>0, SpawnedSound DEF EngineOnNode, Sound, Engine
    <2>2. Sound(a)
      <3>1. (a.running <=> ~a.cancelled) /\ (a.cancelled => a.fd = "closed")
        BY <1>0, <2>0, <2>a DEF Sound, Early
      <3>2. a.go["in"] # "write" /\ a.go["ns"] # "write" /\ 0 <= Ended(a.go, "out") + Ended(a.go, "rd")
        BY <2>a DEF Goroutine, Ended
      <3> HIDE DEF a
      <3> QED  BY <2>1, <2>a, <3>1, <3>2 DEF Sound, Early
    <2>3. Becomes(i, a) /\ packets' = packets /\ fails' \in Nat
      BY <1>0, <1>4 DEF EngineOnNode, NoFault, Fails
    <2>4. Later(r, a)
      BY <1>0, <1>4 DEF EngineOnNode, Engine, Later
    <2>5. LeftOf(a) < LeftOf(r)
      BY <1>0, <1>4, <2>1, SpawnLeft DEF EngineOnNode, Engine, Early, LeftOf, WorkerLeft
    <2> HIDE DEF a
    <2> QED  BY <2>2, <2>3, <2>4, <2>5
  <1>5. CASE runNetstackFallback(i)
    <2> DEFINE a == [ad[i] EXCEPT !.pc = "run", !.tun = "open", !.state = "connected",
                                !.go = Spawned(Goroutine, ad[i])]
    <2>1. a \in Engine
      BY <1>0, SpawnedSound DEF Engine, Early
    <2>0. r.pc \in Early /\ r.errc = 0
      BY <1>0, <1>5 DEF runNetstackFallback, Sound, Engine, Early, Ended, Goroutine
    <2>a. /\ a.pc = "run" /\ a.errc = 0 /\ a.running = r.running /\ a.cancelled = r.cancelled
          /\ a.fd = r.fd /\ a.tun # "none"
          /\ \A g \in Goroutine : a.go[g] # "write"
      BY <1>0, <1>5, <2>0, SpawnedSound DEF runNetstackFallback, Sound, Engine
    <2>2. Sound(a)
      <3>1. (a.running <=> ~a.cancelled) /\ (a.cancelled => a.fd = "closed")
        BY <1>0, <2>0, <2>a DEF Sound, Early
      <3>2. a.go["in"] # "write" /\ a.go["ns"] # "write" /\ 0 <= Ended(a.go, "out") + Ended(a.go, "rd")
        BY <2>a DEF Goroutine, Ended
      <3> HIDE DEF a
      <3> QED  BY <2>1, <2>a, <3>1, <3>2 DEF Sound, Early
    <2>3. Becomes(i, a) /\ packets' = packets /\ fails' \in Nat
      BY <1>0, <1>5 DEF runNetstackFallback, NoFault, Fails
    <2>4. Later(r, a)
      BY <1>0, <1>5 DEF runNetstackFallback, Engine, Later
    <2>5. LeftOf(a) < LeftOf(r)
      BY <1>0, <1>5, <2>1, SpawnLeft DEF runNetstackFallback, Engine, Early, LeftOf, WorkerLeft
    <2> HIDE DEF a
    <2> QED  BY <2>2, <2>3, <2>4, <2>5
  <1>6. CASE NetstackFails(i)
    <2> DEFINE a == [ad[i] EXCEPT !.pc = "defer", !.state = "stopped"]
    <2>1. a \in Engine
      BY <1>0, SpawnedSound DEF Engine, Early
    <2>2. Sound(a)
      BY <1>0, <1>6, <2>1, SpawnedSound DEF NetstackFails, Sound, Engine, Early, Ended, Goroutine
    <2>3. Becomes(i, a) /\ packets' = packets /\ fails' \in Nat
      BY <1>0, <1>6 DEF NetstackFails, NoFault, Fails
    <2>4. Later(r, a)
      BY <1>0, <1>6 DEF NetstackFails, Engine, Later
    <2>5. LeftOf(a) < LeftOf(r)
      BY <1>0, <1>6, <2>1, SpawnLeft DEF NetstackFails, Engine, Early, LeftOf, WorkerLeft
    <2> HIDE DEF a
    <2> QED  BY <2>2, <2>3, <2>4, <2>5
  <1>7. CASE RunReturns(i)
    <2> DEFINE a == [ad[i] EXCEPT !.pc = "close"]
    <2>1. a \in Engine
      BY <1>0, SpawnedSound DEF Engine, Early
    <2>2. Sound(a)
      BY <1>0, <1>7, <2>1, SpawnedSound DEF RunReturns, Sound, Engine, Early, Ended, Goroutine
    <2>3. Becomes(i, a) /\ packets' = packets /\ fails' \in Nat
      BY <1>0, <1>7 DEF RunReturns, NoFault, Fails
    <2>4. Later(r, a)
      BY <1>0, <1>7 DEF RunReturns, Engine, Later
    <2>5. LeftOf(a) < LeftOf(r)
      BY <1>0, <1>7, <2>1, SpawnLeft DEF RunReturns, Engine, Early, LeftOf, WorkerLeft
    <2> HIDE DEF a
    <2> QED  BY <2>2, <2>3, <2>4, <2>5
  <1>8. CASE TunnelCloses(i)
    <2> DEFINE a == [ad[i] EXCEPT !.pc = "defer", !.tun = "closed"]
    <2>1. a \in Engine
      BY <1>0, SpawnedSound DEF Engine, Early
    <2>2. Sound(a)
      BY <1>0, <1>8, <2>1, SpawnedSound DEF TunnelCloses, Sound, Engine, Early, Ended, Goroutine
    <2>3. Becomes(i, a) /\ packets' = packets /\ fails' \in Nat
      BY <1>0, <1>8 DEF TunnelCloses, NoFault, Fails
    <2>4. Later(r, a)
      BY <1>0, <1>8 DEF TunnelCloses, Engine, Later
    <2>5. LeftOf(a) < LeftOf(r)
      BY <1>0, <1>8, <2>1, SpawnLeft DEF TunnelCloses, Engine, Early, LeftOf, WorkerLeft
    <2> HIDE DEF a
    <2> QED  BY <2>2, <2>3, <2>4, <2>5
  <1>9. CASE WorkerEnds(i)
    <2> DEFINE a == [ad[i] EXCEPT !.pc = "end", !.running = FALSE, !.state = "stopped"]
    <2>1. a \in Engine
      BY <1>0, SpawnedSound DEF Engine, Early
    <2>2. Sound(a)
      BY <1>0, <1>9, <2>1, SpawnedSound DEF WorkerEnds, Sound, Engine, Early, Ended, Goroutine
    <2>3. Becomes(i, a) /\ packets' = packets /\ fails' \in Nat
      BY <1>0, <1>9 DEF WorkerEnds, NoFault, Fails
    <2>4. Later(r, a)
      BY <1>0, <1>9 DEF WorkerEnds, Engine, Later
    <2>5. LeftOf(a) < LeftOf(r)
      BY <1>0, <1>9, <2>1, SpawnLeft DEF WorkerEnds, Engine, Early, LeftOf, WorkerLeft
    <2> HIDE DEF a
    <2> QED  BY <2>2, <2>3, <2>4, <2>5
  <1> QED  BY <1>1, <1>2, <1>3, <1>4, <1>5, <1>6, <1>7, <1>8, <1>9 DEF Worker

\* What a goroutine with a packet in hand has before it.
Weight == [out |-> 3, rd |-> 3, in |-> 1, ns |-> 1, eg |-> 5]

\* A turn of goroutine g of an engine: r becomes a, g goes on with st, and n packets came from outside.
Turn(r, a, g, st, n) ==
    /\ a \in Engine
    /\ a.running = r.running /\ a.state = r.state /\ a.cancelled = r.cancelled /\ a.fd = r.fd
    /\ a.tun = r.tun /\ a.pc = r.pc
    /\ r.go[g] \in {"read", "write"} /\ (st = "write" => g \notin {"in", "ns"})
    /\ a.go = [r.go EXCEPT ![g] = st]
    /\ a.errc = r.errc \/ (a.errc = r.errc + 1 /\ st = "end" /\ g \in {"out", "rd"})
    /\ Hand(st, Weight[g]) + a.up + 3 * a.down + a.ch
         < 5 * n + Hand(r.go[g], Weight[g]) + r.up + 3 * r.down + r.ch

\* It keeps the adapter sound.
LEMMA TurnSound ==
    ASSUME NEW r, Sound(r), NEW a, NEW g \in Goroutine, NEW st \in {"read", "write", "end"}, NEW n,
           Turn(r, a, g, st, n)
    PROVE  Sound(a) /\ a.pc # "none"
  <1>1. r \in Engine /\ r.go \in [Goroutine -> {"none", "read", "write", "end"}]
    BY DEF Sound, Engine
  <1>2. a \in Engine /\ a.go = [r.go EXCEPT ![g] = st] /\ r.go[g] \in {"read", "write"}
    BY DEF Turn
  <1>3. a.running = r.running /\ a.state = r.state /\ a.cancelled = r.cancelled /\ a.fd = r.fd
        /\ a.tun = r.tun /\ a.pc = r.pc
    BY DEF Turn
  <1>4. r.pc \notin Early \cup {"none"} /\ r.tun # "none"
    BY <1>2 DEF Sound
  <1>5. a.go["in"] # "write" /\ a.go["ns"] # "write"
    BY <1>1, <1>2 DEF Turn, Sound, Goroutine
  <1>6. a.errc <= Ended(a.go, "out") + Ended(a.go, "rd")
    BY <1>1, <1>2 DEF Turn, Sound, Goroutine, Ended, Engine
  <1>7. a.running <=> ~a.cancelled /\ a.pc \notin {"none", "end"}
    BY <1>3 DEF Sound
  <1> QED  BY <1>2, <1>3, <1>4, <1>5, <1>6, <1>7 DEF Sound

\* A goroutine that goes on leaves the rest of its adapter.
LEMMA ToTyped ==
    ASSUME NEW i, ad[i] \in Engine, NEW g \in Goroutine, NEW st \in {"read", "write", "end"}
    PROVE  /\ To(i, g, st) \in Engine
           /\ To(i, g, st).errc = ad[i].errc /\ To(i, g, st).ch = ad[i].ch
           /\ To(i, g, st).up = ad[i].up /\ To(i, g, st).down = ad[i].down
  BY DEF To, Engine

\* What a goroutine does with the errors and the channels.
LEMMA CountTyped ==
    ASSUME NEW t \in Engine
    PROVE  /\ [t EXCEPT !.errc = @ + 1] \in Engine
           /\ [t EXCEPT !.ch = 0] \in Engine
           /\ t.ch < InSize => [t EXCEPT !.ch = @ + 1] \in Engine
           /\ t.up < PairSize => [t EXCEPT !.up = @ + 1] \in Engine
           /\ t.up > 0 => [t EXCEPT !.up = @ - 1] \in Engine
           /\ t.down < PairSize => [t EXCEPT !.down = @ + 1] \in Engine
           /\ t.down > 0 => [t EXCEPT !.down = @ - 1] \in Engine
  BY MobileAssumption DEF Engine

\* Each step of the pumps and of the netstack is such a turn.
LEMMA PumpTurns ==
    ASSUME MobileInv, NEW i \in Adapter, Pump(i)
    PROVE  \E a \in Engine, g \in Goroutine, st \in {"read", "write", "end"} :
              Becomes(i, a) /\ Turn(ad[i], a, g, st, packets - packets')
  <1> DEFINE r == ad[i]
             Goal == \E a \in Engine, g \in Goroutine, st \in {"read", "write", "end"} :
                       Becomes(i, a) /\ Turn(ad[i], a, g, st, packets - packets')
  <1>0. r \in Engine /\ packets \in Nat /\ fails \in Nat /\ Again(i) \in {"read", "end"}
    BY DEF MobileInv, Sound, Again
  <1>1. ASSUME Capture(i) PROVE Goal
    <2> DEFINE a == To(i, "out", "write")
    <2>0. Becomes(i, a) /\ packets - packets' = 1 /\ r.go["out"] \in {"read", "write"}
      BY <1>0, <1>1 DEF Capture, Reads, Arrives
    <2>1. a \in Engine
      BY <1>0, ToTyped DEF Goroutine
    <2>2. Turn(r, a, "out", "write", packets - packets')
      BY <1>0, <1>1, <2>0, <2>1 DEF Capture, Reads, Turn, Weight, Hand, Engine, To, Goroutine
    <2> HIDE DEF a
    <2> QED  BY <1>0, <2>0, <2>1, <2>2 DEF Goroutine
  <1>2. ASSUME RecvEnds(i) PROVE Goal
    <2> DEFINE a == [To(i, "out", "end") EXCEPT !.errc = @ + 1]
    <2>0. Becomes(i, a) /\ packets - packets' = 0 /\ r.go["out"] \in {"read", "write"}
      BY <1>0, <1>2 DEF RecvEnds, Reads, NoFault, Fails
    <2>1. a \in Engine
      BY <1>0, <1>2, ToTyped, CountTyped DEF Goroutine
    <2>2. Turn(r, a, "out", "end", packets - packets')
      BY <1>0, <1>2, <2>0, <2>1 DEF RecvEnds, Reads, Turn, Weight, Hand, Engine, To, Goroutine
    <2> HIDE DEF a
    <2> QED  BY <1>0, <2>0, <2>1, <2>2 DEF Goroutine
  <1>3. ASSUME Writes(i, "out") /\ NoFault /\ Becomes(i, To(i, "out", "read")) PROVE Goal
    <2> DEFINE a == To(i, "out", "read")
    <2>0. Becomes(i, a) /\ packets - packets' = 0 /\ r.go["out"] \in {"read", "write"}
      BY <1>0, <1>3 DEF Writes, NoFault
    <2>1. a \in Engine
      BY <1>0, ToTyped DEF Goroutine
    <2>2. Turn(r, a, "out", "read", packets - packets')
      BY <1>0, <1>3, <2>0, <2>1 DEF Writes, Turn, Weight, Hand, Engine, To, Goroutine
    <2> HIDE DEF a
    <2> QED  BY <1>0, <2>0, <2>1, <2>2 DEF Goroutine
  <1>4. ASSUME Writes(i, "out") /\ NoFault /\ r.up < PairSize
                /\ Becomes(i, [To(i, "out", "read") EXCEPT !["up"] = @ + 1])
         PROVE Goal
    <2> DEFINE a == [To(i, "out", "read") EXCEPT !.up = @ + 1]
    <2>0. Becomes(i, a) /\ packets - packets' = 0 /\ r.go["out"] \in {"read", "write"}
      BY <1>0, <1>4 DEF Writes, NoFault
    <2>1. a \in Engine
      BY <1>0, <1>4, ToTyped, CountTyped DEF Goroutine
    <2>2. Turn(r, a, "out", "read", packets - packets')
      BY <1>0, <1>4, <2>0, <2>1 DEF Writes, Turn, Weight, Hand, Engine, To, Goroutine
    <2> HIDE DEF a
    <2> QED  BY <1>0, <2>0, <2>1, <2>2 DEF Goroutine
  <1>5. ASSUME Reads(i, "rd") /\ Arrives /\ Becomes(i, To(i, "rd", "write")) PROVE Goal
    <2> DEFINE a == To(i, "rd", "write")
    <2>0. Becomes(i, a) /\ packets - packets' = 1 /\ r.go["rd"] \in {"read", "write"}
      BY <1>0, <1>5 DEF Reads, Arrives
    <2>1. a \in Engine
      BY <1>0, ToTyped DEF Goroutine
    <2>2. Turn(r, a, "rd", "write", packets - packets')
      BY <1>0, <1>5, <2>0, <2>1 DEF Reads, Turn, Weight, Hand, Engine, To, Goroutine
    <2> HIDE DEF a
    <2> QED  BY <1>0, <2>0, <2>1, <2>2 DEF Goroutine
  <1>6. ASSUME Reads(i, "rd") /\ NoFault /\ r.down > 0
                /\ Becomes(i, [To(i, "rd", "write") EXCEPT !["down"] = @ - 1])
         PROVE Goal
    <2> DEFINE a == [To(i, "rd", "write") EXCEPT !.down = @ - 1]
    <2>0. Becomes(i, a) /\ packets - packets' = 0 /\ r.go["rd"] \in {"read", "write"}
      BY <1>0, <1>6 DEF Reads, NoFault
    <2>1. a \in Engine
      BY <1>0, <1>6, ToTyped, CountTyped DEF Goroutine
    <2>2. Turn(r, a, "rd", "write", packets - packets')
      BY <1>0, <1>6, <2>0, <2>1 DEF Reads, Turn, Weight, Hand, Engine, To, Goroutine
    <2> HIDE DEF a
    <2> QED  BY <1>0, <2>0, <2>1, <2>2 DEF Goroutine
  <1>7. ASSUME Writes(i, "rd") /\ r.ch < InSize /\ NoFault
                /\ Becomes(i, [To(i, "rd", Again(i)) EXCEPT !.ch = @ + 1])
         PROVE Goal
    <2> DEFINE a == [To(i, "rd", Again(i)) EXCEPT !.ch = @ + 1]
    <2>0. Becomes(i, a) /\ packets - packets' = 0 /\ r.go["rd"] \in {"read", "write"}
      BY <1>0, <1>7 DEF Writes, NoFault
    <2>1. a \in Engine
      <3>1. To(i, "rd", Again(i)) \in Engine /\ To(i, "rd", Again(i)).ch = r.ch
        BY <1>0, ToTyped DEF Goroutine
      <3> QED  BY <1>7, <3>1, CountTyped
    <2>2. Turn(r, a, "rd", Again(i), packets - packets')
      BY <1>0, <1>7, <2>0, <2>1 DEF Writes, Turn, Weight, Hand, Engine, To, Goroutine
    <2> HIDE DEF a
    <2> QED  BY <1>0, <2>0, <2>1, <2>2 DEF Goroutine
  <1>8. ASSUME Writes(i, "rd") /\ NoFault /\ Becomes(i, To(i, "rd", "end")) PROVE Goal
    <2> DEFINE a == To(i, "rd", "end")
    <2>0. Becomes(i, a) /\ packets - packets' = 0 /\ r.go["rd"] \in {"read", "write"}
      BY <1>0, <1>8 DEF Writes, NoFault
    <2>1. a \in Engine
      BY <1>0, ToTyped DEF Goroutine
    <2>2. Turn(r, a, "rd", "end", packets - packets')
      BY <1>0, <1>8, <2>0, <2>1 DEF Writes, Turn, Weight, Hand, Engine, To, Goroutine
    <2> HIDE DEF a
    <2> QED  BY <1>0, <2>0, <2>1, <2>2 DEF Goroutine
  <1>9. ASSUME ReaderFails(i) PROVE Goal
    <2> DEFINE a == [To(i, "rd", "end") EXCEPT !.errc = @ + 1]
    <2>0. Becomes(i, a) /\ packets - packets' = 0 /\ r.go["rd"] \in {"read", "write"}
      BY <1>0, <1>9 DEF ReaderFails, Reads, NoFault, Fails
    <2>1. a \in Engine
      BY <1>0, <1>9, ToTyped, CountTyped DEF Goroutine
    <2>2. Turn(r, a, "rd", "end", packets - packets')
      BY <1>0, <1>9, <2>0, <2>1 DEF ReaderFails, Reads, Turn, Weight, Hand, Engine, To, Goroutine
    <2> HIDE DEF a
    <2> QED  BY <1>0, <2>0, <2>1, <2>2 DEF Goroutine
  <1>10. ASSUME Reads(i, "in") /\ NoFault /\ r.ch > 0
                /\ Becomes(i, [ad[i] EXCEPT !.ch = 0])
         PROVE Goal
    <2> DEFINE a == [ad[i] EXCEPT !.ch = 0]
    <2>0. Becomes(i, a) /\ packets - packets' = 0 /\ r.go["in"] \in {"read", "write"}
      BY <1>0, <1>10 DEF Reads, NoFault
    <2>1. a \in Engine
      BY <1>0, <1>10, CountTyped
    <2>2. Turn(r, a, "in", "read", packets - packets')
      BY <1>0, <1>10, <2>0, <2>1 DEF Reads, Turn, Weight, Hand, Engine, To, Goroutine
    <2> HIDE DEF a
    <2> QED  BY <1>0, <2>0, <2>1, <2>2 DEF Goroutine
  <1>11. ASSUME Reads(i, "in") /\ NoFault /\ Becomes(i, To(i, "in", "end")) PROVE Goal
    <2> DEFINE a == To(i, "in", "end")
    <2>0. Becomes(i, a) /\ packets - packets' = 0 /\ r.go["in"] \in {"read", "write"}
      BY <1>0, <1>11 DEF Reads, NoFault
    <2>1. a \in Engine
      BY <1>0, ToTyped DEF Goroutine
    <2>2. Turn(r, a, "in", "end", packets - packets')
      BY <1>0, <1>11, <2>0, <2>1 DEF Reads, Turn, Weight, Hand, Engine, To, Goroutine
    <2> HIDE DEF a
    <2> QED  BY <1>0, <2>0, <2>1, <2>2 DEF Goroutine
  <1>12. ASSUME Reads(i, "ns") /\ NoFault /\ r.up > 0
                /\ Becomes(i, [To(i, "ns", Again(i)) EXCEPT !["up"] = @ - 1])
         PROVE Goal
    <2> DEFINE a == [To(i, "ns", Again(i)) EXCEPT !.up = @ - 1]
    <2>0. Becomes(i, a) /\ packets - packets' = 0 /\ r.go["ns"] \in {"read", "write"}
      BY <1>0, <1>12 DEF Reads, NoFault
    <2>1. a \in Engine
      <3>1. To(i, "ns", Again(i)) \in Engine /\ To(i, "ns", Again(i)).up = r.up
        BY <1>0, ToTyped DEF Goroutine
      <3> QED  BY <1>12, <3>1, CountTyped
    <2>2. Turn(r, a, "ns", Again(i), packets - packets')
      BY <1>0, <1>12, <2>0, <2>1 DEF Reads, Turn, Weight, Hand, Engine, To, Goroutine
    <2> HIDE DEF a
    <2> QED  BY <1>0, <2>0, <2>1, <2>2 DEF Goroutine
  <1>13. ASSUME Reads(i, "ns") /\ NoFault /\ Becomes(i, To(i, "ns", "end")) PROVE Goal
    <2> DEFINE a == To(i, "ns", "end")
    <2>0. Becomes(i, a) /\ packets - packets' = 0 /\ r.go["ns"] \in {"read", "write"}
      BY <1>0, <1>13 DEF Reads, NoFault
    <2>1. a \in Engine
      BY <1>0, ToTyped DEF Goroutine
    <2>2. Turn(r, a, "ns", "end", packets - packets')
      BY <1>0, <1>13, <2>0, <2>1 DEF Reads, Turn, Weight, Hand, Engine, To, Goroutine
    <2> HIDE DEF a
    <2> QED  BY <1>0, <2>0, <2>1, <2>2 DEF Goroutine
  <1>14. ASSUME Reads(i, "eg") /\ Arrives /\ Becomes(i, To(i, "eg", "write")) PROVE Goal
    <2> DEFINE a == To(i, "eg", "write")
    <2>0. Becomes(i, a) /\ packets - packets' = 1 /\ r.go["eg"] \in {"read", "write"}
      BY <1>0, <1>14 DEF Reads, Arrives
    <2>1. a \in Engine
      BY <1>0, ToTyped DEF Goroutine
    <2>2. Turn(r, a, "eg", "write", packets - packets')
      BY <1>0, <1>14, <2>0, <2>1 DEF Reads, Turn, Weight, Hand, Engine, To, Goroutine
    <2> HIDE DEF a
    <2> QED  BY <1>0, <2>0, <2>1, <2>2 DEF Goroutine
  <1>15. ASSUME Writes(i, "eg") /\ NoFault /\ r.down < PairSize
                /\ Becomes(i, [To(i, "eg", "read") EXCEPT !["down"] = @ + 1])
         PROVE Goal
    <2> DEFINE a == [To(i, "eg", "read") EXCEPT !.down = @ + 1]
    <2>0. Becomes(i, a) /\ packets - packets' = 0 /\ r.go["eg"] \in {"read", "write"}
      BY <1>0, <1>15 DEF Writes, NoFault
    <2>1. a \in Engine
      BY <1>0, <1>15, ToTyped, CountTyped DEF Goroutine
    <2>2. Turn(r, a, "eg", "read", packets - packets')
      BY <1>0, <1>15, <2>0, <2>1 DEF Writes, Turn, Weight, Hand, Engine, To, Goroutine
    <2> HIDE DEF a
    <2> QED  BY <1>0, <2>0, <2>1, <2>2 DEF Goroutine
  <1>16. ASSUME Writes(i, "eg") /\ NoFault /\ Becomes(i, To(i, "eg", "read")) PROVE Goal
    <2> DEFINE a == To(i, "eg", "read")
    <2>0. Becomes(i, a) /\ packets - packets' = 0 /\ r.go["eg"] \in {"read", "write"}
      BY <1>0, <1>16 DEF Writes, NoFault
    <2>1. a \in Engine
      BY <1>0, ToTyped DEF Goroutine
    <2>2. Turn(r, a, "eg", "read", packets - packets')
      BY <1>0, <1>16, <2>0, <2>1 DEF Writes, Turn, Weight, Hand, Engine, To, Goroutine
    <2> HIDE DEF a
    <2> QED  BY <1>0, <2>0, <2>1, <2>2 DEF Goroutine
  <1>17. ASSUME Reads(i, "eg") /\ NoFault /\ Becomes(i, To(i, "eg", "end")) PROVE Goal
    <2> DEFINE a == To(i, "eg", "end")
    <2>0. Becomes(i, a) /\ packets - packets' = 0 /\ r.go["eg"] \in {"read", "write"}
      BY <1>0, <1>17 DEF Reads, NoFault
    <2>1. a \in Engine
      BY <1>0, ToTyped DEF Goroutine
    <2>2. Turn(r, a, "eg", "end", packets - packets')
      BY <1>0, <1>17, <2>0, <2>1 DEF Reads, Turn, Weight, Hand, Engine, To, Goroutine
    <2> HIDE DEF a
    <2> QED  BY <1>0, <2>0, <2>1, <2>2 DEF Goroutine
  <1>18. CASE pumpOutbound(i) \/ Bypass(i)
    BY <1>18, <1>3, <1>4 DEF pumpOutbound, Bypass, WritePacket
  <1>19. CASE inboundReader(i) \/ pumpInbound(i)
    BY <1>19, <1>5, <1>6, <1>7, <1>8, <1>10, <1>11 DEF inboundReader, pumpInbound, ReadPacket
  <1>20. CASE ingress(i) \/ egress(i)
    BY <1>20, <1>12, <1>13, <1>14, <1>15, <1>16, <1>17 DEF ingress, egress, ReadPacket, WritePacket
  <1> QED  BY <1>1, <1>2, <1>9, <1>18, <1>19, <1>20 DEF Pump

\* What an engine has before it is a number of steps, so that it cannot fall for ever.
LEMMA LeftTyped == \A r \in Engine : LeftOf(r) \in Nat
  <1> SUFFICES ASSUME NEW r \in Engine PROVE LeftOf(r) \in Nat
    OBVIOUS
  <1>1. WorkerLeft[r.pc] \in Nat /\ r.up \in Nat /\ r.down \in Nat /\ r.ch \in Nat
    BY MobileAssumption DEF Engine, Early, WorkerLeft
  <1> QED  BY <1>1, SpawnLeft DEF LeftOf

\* With a turn it falls, or a packet came.
LEMMA TurnLeft ==
    ASSUME NEW r \in Engine, NEW a \in Engine, NEW g \in Goroutine, NEW st \in {"read", "write", "end"},
           NEW n \in Int, Turn(r, a, g, st, n)
    PROVE  LeftOf(a) < 5 * n + LeftOf(r)
  <1>1. /\ r.go \in [Goroutine -> {"none", "read", "write", "end"}]
        /\ r.up \in Nat /\ r.down \in Nat /\ r.ch \in Nat /\ a.up \in Nat /\ a.down \in Nat /\ a.ch \in Nat
    BY MobileAssumption DEF Engine
  <1>2. WorkerLeft[r.pc] \in Nat /\ a.pc = r.pc
    BY DEF Engine, Early, WorkerLeft, Turn
  <1>3. GoLeft(a.go) = GoLeft(r.go) - Hand(r.go[g], Weight[g]) + Hand(st, Weight[g]) /\ GoLeft(r.go) \in Nat
    BY <1>1 DEF Turn, GoLeft, Hand, Weight, Goroutine
  <1>4. Hand(r.go[g], Weight[g]) \in Nat /\ Hand(st, Weight[g]) \in Nat
    BY DEF Hand, Weight, Goroutine
  <1>5. Hand(st, Weight[g]) + a.up + 3 * a.down + a.ch
           < 5 * n + Hand(r.go[g], Weight[g]) + r.up + 3 * r.down + r.ch
    BY DEF Turn
  <1> QED  BY <1>1, <1>2, <1>3, <1>4, <1>5 DEF LeftOf

\* Both together, for a step of an engine.
LEMMA StepsKeep ==
    ASSUME MobileInv, NEW i \in Adapter, Worker(i) \/ Pump(i)
    PROVE  MobileInv' /\ 5 * packets' + LeftOf(ad'[i]) < 5 * packets + LeftOf(ad[i])
  <1>1. Sound(ad[i]) /\ ad[i] \in Engine /\ packets \in Nat /\ fails \in Nat
    BY DEF MobileInv, Sound
  <1>2. CASE Worker(i)
    <2>1. PICK a : /\ Becomes(i, a) /\ Sound(a) /\ Later(ad[i], a) /\ LeftOf(a) < LeftOf(ad[i])
                   /\ packets' = packets /\ fails' \in Nat
      BY <1>2, WorkerTurns
    <2>2. MobileInv'
      BY <1>1, <2>1, OneKeeps
    <2>3. ad'[i] = a
      BY <2>1 DEF Becomes, MobileInv
    <2>4. LeftOf(a) \in Int /\ LeftOf(ad[i]) \in Int
      BY <1>1, <2>1, LeftTyped DEF Sound
    <2> QED  BY <1>1, <2>1, <2>2, <2>3, <2>4
  <1>3. CASE Pump(i)
    <2>1. PICK a \in Engine, g \in Goroutine, st \in {"read", "write", "end"} :
             Becomes(i, a) /\ Turn(ad[i], a, g, st, packets - packets')
      BY <1>3, PumpTurns
    <2>2. packets' \in Nat /\ fails' \in Nat
      BY <1>1, <1>3 DEF Pump, Capture, RecvEnds, pumpOutbound, Bypass, inboundReader,
                        ReaderFails, pumpInbound,
                        ingress, egress, Arrives, NoFault, Fails
    <2>3. Sound(a) /\ a.pc # "none"
      BY <1>1, <2>1, TurnSound
    <2>4. Later(ad[i], a)
      BY <2>1, <2>3 DEF Turn, Later
    <2>5. MobileInv'
      BY <2>1, <2>2, <2>3, <2>4, OneKeeps
    <2>6. ad'[i] = a
      BY <2>1 DEF Becomes, MobileInv
    <2>7. LeftOf(a) < 5 * (packets - packets') + LeftOf(ad[i])
      BY <1>1, <2>1, <2>2, TurnLeft
    <2>8. LeftOf(a) \in Int /\ LeftOf(ad[i]) \in Int
      BY <1>1, <2>1, LeftTyped
    <2> QED  BY <1>1, <2>2, <2>5, <2>6, <2>7, <2>8
  <1> QED  BY <1>2, <1>3

\* A call that stops an adapter leaves it cancelled, unless it had ended.
LEMMA StoppedSound ==
    ASSUME NEW r, Sound(r), r.pc # "none"
    PROVE  /\ Sound(Stopped(r)) /\ Stopped(r).pc # "none"
           /\ ~r.cancelled => Stopped(r).cancelled \/ Stopped(r).pc = "end"
           /\ ~Stopped(r).running
  <1>1. r \in Engine
    BY DEF Sound
  <1>2. CASE ~r.running /\ r.state = "stopped"
    BY <1>2 DEF Stopped, Sound
  <1>3. CASE ~(~r.running /\ r.state = "stopped")
    <2> DEFINE a == [r EXCEPT !.running = FALSE, !.state = "stopped", !.cancelled = TRUE, !.fd = "closed",
                              !.tun = IF r.held THEN "closed" ELSE r.tun]
    <2>1. Stopped(r) = a
      BY <1>3 DEF Stopped
    <2>2. a \in Engine
      BY <1>1 DEF Engine
    <2>3. /\ ~a.running /\ a.state = "stopped" /\ a.cancelled /\ a.fd = "closed" /\ a.pc = r.pc
          /\ a.go = r.go /\ a.errc = r.errc
      BY <1>1 DEF Engine
    <2>4. a.tun = "closed" \/ a.tun = r.tun
      BY <1>1 DEF Engine
    <2> HIDE DEF a
    <2>5. Sound(a)
      BY <2>2, <2>3, <2>4 DEF Sound
    <2> QED  BY <2>1, <2>3, <2>5
  <1> QED  BY <1>2, <1>3

\* stopEngineLocked lets the adapter go, and leaves no other one that runs.
LEMMA StopKeeps ==
    ASSUME MobileInv, globalAdapter # 0, stopEngineLocked
    PROVE  /\ globalAdapter' = 0 /\ ad' = [i \in Adapter |-> ad'[i]]
           /\ \A i \in Adapter : Sound(ad'[i]) /\ (ad'[i].pc # "none" <=> i <= made)
           /\ \A i \in Adapter : ad'[i].pc # "none" => ad'[i].cancelled \/ ad'[i].pc = "end"
  <1>1. globalAdapter \in Adapter /\ Made(globalAdapter) /\ ~ad[globalAdapter].cancelled
    BY MobileAssumption DEF MobileInv, Adapter, Made, Sound
  <1> DEFINE s == Stopped(ad[globalAdapter])
  <1>2. Sound(s) /\ s.pc # "none" /\ (s.cancelled \/ s.pc = "end")
    BY <1>1, StoppedSound DEF MobileInv, Made
  <1>3. globalAdapter' = 0 /\ ad' = [ad EXCEPT ![globalAdapter] = s]
    BY DEF stopEngineLocked
  <1> HIDE DEF s
  <1> HIDE DEF Sound
  <1> QED  BY <1>1, <1>2, <1>3 DEF MobileInv, Made

\* The calls of the app, action by action.
LEMMA CallsKeep ==
    ASSUME MobileInv, StopEngine \/ StartEngine \/ StartStops \/ StartRefused \/ StartMakes
    PROVE  MobileInv'
  <1> USE MobileAssumption
  <1>0. /\ made \in Nat /\ starts \in Nat /\ packets \in Nat /\ fails \in Nat /\ MaxStarts \in Nat
        /\ made + starts + (IF call = "none" THEN 0 ELSE 1) <= MaxStarts
        /\ globalAdapter \in Nat /\ globalAdapter <= made
    BY DEF MobileInv
  <1>1. CASE StopEngine
    <2>1. /\ globalAdapter # 0 /\ stopEngineLocked /\ call = "none"
          /\ UNCHANGED <<call, made, starts, packets, fails>>
      BY <1>1 DEF StopEngine
    <2> HIDE DEF Sound
    <2> QED  BY <1>0, <2>1, StopKeeps DEF MobileInv, Made
  <1>2. CASE StartEngine
    <2>1. /\ UNCHANGED <<globalAdapter, made, ad, packets, fails>> /\ starts' = starts - 1 /\ starts > 0
          /\ call = "none" /\ call' \in {"stop", "new"}
          /\ call' = "new" /\ globalAdapter # 0 => ~ad[globalAdapter].running
      BY <1>2 DEF StartEngine
    <2> HIDE DEF Sound
    <2> QED  BY <1>0, <2>1 DEF MobileInv, Made
  <1>3. CASE StartStops
    <2>1. CASE globalAdapter = 0
      <3>1. UNCHANGED <<globalAdapter, made, ad, starts, packets, fails>> /\ call = "stop" /\ call' = "new"
        BY <1>3, <2>1 DEF StartStops, stopEngineLocked
      <3> HIDE DEF Sound
      <3> QED  BY <1>0, <2>1, <3>1 DEF MobileInv, Made
    <2>2. CASE globalAdapter # 0
      <3>1. stopEngineLocked /\ UNCHANGED <<made, starts, packets, fails>> /\ call = "stop" /\ call' = "new"
        BY <1>3 DEF StartStops
      <3> HIDE DEF Sound
      <3> QED  BY <1>0, <2>2, <3>1, StopKeeps DEF MobileInv, Made
    <2> QED  BY <2>1, <2>2
  <1>4. CASE StartRefused
    BY <1>0, <1>4 DEF StartRefused, MobileInv, Made
  <1>5. CASE StartMakes
    <2> DEFINE m == made + 1
    <2>1. PICK remote \in BOOLEAN : ad' = [ad EXCEPT ![m] = Fresh(remote)]
      BY <1>5 DEF StartMakes
    <2>2. /\ made' = m /\ globalAdapter' = m /\ call' = "none" /\ starts' = starts /\ packets' = packets
          /\ fails' = fails /\ call = "new"
      BY <1>5 DEF StartMakes
    <2>3. /\ m \in Adapter /\ m \in Nat /\ m + starts <= MaxStarts
          /\ \A i \in Adapter : i <= m <=> i <= made \/ i = m
      BY <1>0, <2>2 DEF Adapter
    <2> DEFINE f == Fresh(remote)
    <2>4. Sound(f) /\ f.pc # "none" /\ ~f.cancelled
      BY FreshSound
    <2>5. ad' = [ad EXCEPT ![m] = f]
      BY <2>1
    <2> HIDE DEF f, m
    <2>6. ad' = [i \in Adapter |-> ad'[i]] /\ \A i \in Adapter : ad'[i] = IF i = m THEN f ELSE ad[i]
      BY <2>3, <2>5 DEF MobileInv
    <2>7. \A i \in Adapter : Sound(ad'[i]) /\ (Made(i)' <=> i <= made')
      <3> HIDE DEF Sound
      <3> QED  BY <2>2, <2>3, <2>4, <2>6 DEF MobileInv, Made
    <2>8. \A i \in Adapter : Made(i)' /\ i # globalAdapter' => ad'[i].cancelled \/ ad'[i].pc = "end"
      <3> SUFFICES ASSUME NEW i \in Adapter, Made(i)', i # m PROVE ad[i].cancelled \/ ad[i].pc = "end"
        BY <2>2, <2>6
      <3>1. Made(i)
        BY <2>6 DEF Made
      <3>2. CASE i = globalAdapter
        <4>1. ~ad[i].running /\ Sound(ad[i])
          BY <1>0, <2>2, <3>2, 0 \notin Adapter DEF MobileInv, Adapter
        <4> QED  BY <3>1, <4>1 DEF Sound, Made
      <3> QED  BY <3>1, <3>2 DEF MobileInv
    <2> HIDE DEF Sound
    <2> QED  BY <1>0, <2>2, <2>3, <2>4, <2>6, <2>7, <2>8 DEF MobileInv
  <1> QED  BY <1>1, <1>2, <1>3, <1>4, <1>5

\* MobileInv is inductive.
LEMMA MobileKept == MobileInv /\ [MobileNext]_mobileVars => MobileInv'
  <1> SUFFICES ASSUME MobileInv, [MobileNext]_mobileVars PROVE MobileInv'
    OBVIOUS
  <1>1. CASE UNCHANGED mobileVars
    <2> HIDE DEF Sound
    <2> QED  BY <1>1 DEF mobileVars, MobileInv, Made
  <1>2. CASE MobileNext
    BY <1>2, CallsKeep, StepsKeep DEF MobileNext
  <1> QED  BY <1>1, <1>2

\* It holds in every behaviour.
LEMMA MobileAlways == MobileSpec => []MobileInv
  BY Beginnings, MobileKept, PTL DEF MobileSpec

\* Never more adapters than starts, more in a channel than it has room for, nor two errors of one
\* goroutine (mobile.go:69-151; engine.go:61-73 of connectip, whose errc has room for what is sent).
THEOREM MobileTyped == MobileSpec => []MobileTypeOK
  <1>1. MobileInv => MobileTypeOK
    <2> SUFFICES ASSUME MobileInv PROVE MobileTypeOK
      OBVIOUS
    <2>1. ASSUME NEW i \in Adapter
          PROVE  /\ ad[i].state \in {"none", "connecting", "connected", "stopped"}
                 /\ ad[i].fd \in {"none", "open", "closed"} /\ ad[i].tun \in {"none", "open", "closed"}
                 /\ ad[i].pc \in {"none", "begin", "dial", "dialled", "local", "run", "close", "defer", "end"}
                 /\ ad[i].ch \in 0..InSize /\ ad[i].up \in 0..PairSize /\ ad[i].down \in 0..PairSize
      BY DEF MobileInv, Sound, Engine, Early
    <2>2. ASSUME NEW i \in Adapter PROVE ad[i].errc \in 0..2
      BY DEF MobileInv, Sound, Engine, Ended
    <2> QED  BY <2>1, <2>2, MobileAssumption DEF MobileInv, MobileTypeOK
  <1> QED  BY <1>1, MobileAlways, PTL

\* Of an engine that StopEngine or another start let go (mobile.go:69-75, 153-185), all has been given
\* back, or one of its steps can be taken that waits for no packet, no node and no failure: no pump
\* is left at a full channel or an open tunnel, wherever the engine was then.
THEOREM EngineNotStuck == MobileSpec => []NothingStuck
  <1>1. MobileInv => NothingStuck
    <2> SUFFICES ASSUME MobileInv, NEW i \in Adapter, Made(i),
                        globalAdapter # i, ~EndedAlone(i), ~CanGo(ad[i])
                 PROVE  Released(i)
      BY DEF NothingStuck
    <2> DEFINE a == ad[i]
    <2>1. Sound(a) /\ a \in Engine
      BY DEF MobileInv, Sound
    <2>2. a.cancelled /\ a.fd = "closed"
      BY <2>1 DEF MobileInv, EndedAlone, Sound
    <2>3. a.pc = "end" /\ a.tun # "open"
      BY <2>1, <2>2 DEF CanGo, Sound, Engine, Early, Made
    <2>4. ASSUME NEW g \in Goroutine PROVE a.go[g] \in {"none", "end"}
      <3>1. a.go[g] \in {"none", "read", "write", "end"}
        BY <2>1 DEF Engine
      <3>2. a.go[g] # "none" => a.tun = "closed"
        BY <2>1, <2>3 DEF Sound, Engine
      <3> QED  BY <2>1, <2>2, <3>1, <3>2 DEF CanGo, Goroutine, Sound
    <2> QED  BY <2>2, <2>3, <2>4 DEF Released
  <1> QED  BY <1>1, MobileAlways, PTL

\* With each step an engine takes a packet from outside, or has less before it (mobile.go:262-329, and
\* engine.go:96-222 of connectip): with EngineNotStuck, one that was let go gives back all it took once
\* its goroutines are run and packets cease.  What fairness adds is StopReleases, which TLC checks.
THEOREM MobileEngineEnds == MobileSpec => MobileRunsDown
  <1>1. MobileInv /\ [MobileNext]_mobileVars =>
          [\A i \in Adapter :
             Worker(i) \/ Pump(i) => 5 * packets' + LeftOf(ad'[i]) < 5 * packets + LeftOf(ad[i])]_mobileVars
    BY StepsKeep
  <1> QED  BY <1>1, MobileAlways, PTL DEF MobileSpec, MobileRunsDown
=============================================================================
