-------------------------- MODULE VolumeLayoutProofs --------------------------
(***************************************************************************)
(* The layout of volumes at the master, for any volumes, nodes, shards,    *)
(* placement and settings: no node is listed twice, register_volume finds  *)
(* the entry it made, and the lists follow the heartbeats.                 *)
(***************************************************************************)
EXTENDS VolumeLayout, LayoutTasksProofs

Calming == {"get", "check", "markReadonly", "clearReadonly", "size", "ensure", "contains", "push", "find",
            "remove", "retain", "take", "compact", "pickLen", "pickVid", "pickNode", "scan"}

\* A call that is at a can go on at b.
Arrow(a, b) == OpsAt(a) \subseteq OpsAt(b) /\ b # "idle" /\ b \notin Acting \cup {"get"}
GoesTo(t, p) ==
  \/ Goto(t, p) \/ \E i : GotoAt(t, p, i)
  \/ \E q : Resumes(job[t].op, q) /\ GotoThen(t, p, q)

\* Going on in the call is calm.
LEMMA CalmGoes ==
  ASSUME ControlInv, NEW t \in Tasks, NEW p, Arrow(pc[t], p), GoesTo(t, p), SameNodes, Keeps, writable' \in Seq(Vids)
  PROVE  Calm(t)
<1>1. p # "idle" /\ job[t].op \in OpsAt(p) BY DEF ControlInv, TaskOK, Arrow
<1>2. ControlInv' /\ Only(t) /\ Stays(t, p) BY <1>1, GotoKeeps, GotoAtKeeps, GotoThenKeeps, Zenon DEF GoesTo
<1> QED BY <1>2, CalmStays, Zenon DEF Arrow

\* Every step of a task at such a place.
LEMMA StepCalm ==
  ASSUME ControlInv, TypeInv, NEW t \in Tasks, Step(t), pc[t] \notin Acting
  PROVE  Calm(t) /\ pc[t] \notin {"idle", "available"}
<1> USE DEF layoutVars, nodeVars
<1> DEFINE Goal == Calm(t) /\ pc[t] \in Calming
           Ends(a) == /\ pc[t] = a /\ a \in Calming /\ SameNodes
                      /\ \/ Return(t) \/ \E q : Resumes(job[t].op, q) /\ Resume(t, q)
                         \/ \E p : Arrow(a, p) /\ GoesTo(t, p)
           Same == writable' = writable /\ locations' = locations
<1>1. Owned(t, job[t]) /\ job[t].op \in OpsAt(pc[t]) /\ Resumes(job[t].op, then[t]) BY DEF ControlInv, TaskOK
<1>2. writable \in Seq(Vids) BY DEF TypeInv
<1>3. Same => Keeps /\ writable' \in Seq(Vids) BY <1>2, SameKeeps, Zenon
<1>4. ASSUME NEW a, Ends(a), Keeps, writable' \in Seq(Vids) PROVE Goal
  <2>1. ASSUME NEW p, Arrow(a, p), GoesTo(t, p) PROVE Calm(t) BY <1>4, <2>1, CalmGoes, Zenon
  <2> QED BY <1>4, <2>1, CalmReturn, CalmResume, Zenon
<1>5. ASSUME NEW a \in Calming, pc[t] = a, Panic(t), Keeps, writable' \in Seq(Vids) PROVE Goal
  BY <1>5, CalmPanic, Zenon
<1>6. /\ Arrow("get", "check") /\ Arrow("check", "size") /\ Arrow("check", "check") /\ Arrow("check", "find")
      /\ Arrow("size", "ensure") /\ Arrow("ensure", "contains") /\ Arrow("ensure", "find")
      /\ Arrow("contains", "push") /\ Arrow("find", "remove") /\ Arrow("retain", "retain")
      /\ Arrow("take", "find") /\ Arrow("compact", "available") /\ Arrow("pickLen", "pickVid")
      /\ Arrow("scan", "scan")
  BY DEF Arrow, OpsAt, Acting
<1>7. ASSUME Get(t) PROVE Goal
  <2>1. pc[t] = "get" /\ "get" \in Calming /\ Same BY <1>7, Zenon DEF Get, Calming
  <2>2. CASE GotoAt(t, "check", 1) /\ UNCHANGED nodeVars BY <1>3, <1>4, <1>6, <2>1, <2>2, Zenon DEF GoesTo, SameNodes
  <2>3. CASE Panic(t) BY <1>3, <1>5, <2>1, <2>3, Zenon
  <2> QED BY <1>7, <2>2, <2>3, Zenon DEF Get
<1>8. ASSUME Check(t) PROVE Goal
  <2>1. pc[t] = "check" /\ "check" \in Calming /\ Same /\ SameNodes BY <1>8, Zenon DEF Check, Calming, SameNodes
  <2>2. Resumes(job[t].op, "markReadonly") /\ Resumes(job[t].op, "clearReadonly")
    BY <1>1, <2>1 DEF OpsAt, Resumes
  <2>3. \E p : Arrow("check", p) /\ GoesTo(t, p) BY <1>6, <1>8, <2>2, Zenon DEF Check, GoesTo
  <2> QED BY <1>3, <1>4, <2>1, <2>3, Zenon
<1>9. ASSUME MarkReadonly(t) \/ VacuumFails(t) PROVE Goal
  <2>1. Same /\ \E a : Ends(a) BY <1>9, Zenon DEF MarkReadonly, VacuumFails, Calming, SameNodes
  <2> QED BY <1>3, <1>4, <2>1, Zenon
<1>10. ASSUME RememberOversized(t) \/ VacuumCompact(t) \/ PickLen(t) PROVE Goal
  <2>1. pc[t] = "take" => Resumes(job[t].op, "compact") BY <1>1 DEF OpsAt, Resumes
  <2>2. Same /\ \E a : Ends(a)
    BY <1>6, <1>10, <2>1, Zenon DEF RememberOversized, VacuumCompact, PickLen, Calming, SameNodes, GoesTo
  <2> QED BY <1>3, <1>4, <2>2, Zenon
<1>11. ASSUME EnsureCorrectWritable(t) PROVE Goal
  <2>1. pc[t] = "ensure" /\ "ensure" \in Calming /\ Same /\ SameNodes
    BY <1>11, Zenon DEF EnsureCorrectWritable, Calming, SameNodes
  <2>2. PICK q : q = AfterEnsure(t) BY Zenon
  <2>3. Resumes(job[t].op, q) BY <1>1, <2>1, <2>2 DEF OpsAt, Resumes, AfterEnsure
  <2>4. Resume(t, q) \/ \E p : Arrow("ensure", p) /\ GoesTo(t, p)
    BY <1>6, <1>11, <2>2, <2>3, Zenon DEF EnsureCorrectWritable, GoesTo
  <2> QED BY <1>3, <1>4, <2>1, <2>3, <2>4, Zenon
<1>12. ASSUME TestListed(t) \/ Find(t) PROVE Goal
  <2>1. Same /\ \E a : Ends(a)
    BY <1>1, <1>6, <1>12, Zenon DEF TestListed, Find, Calming, SameNodes, GoesTo
  <2> QED BY <1>3, <1>4, <2>1, Zenon
<1>13. ASSUME VacuumCommitted(t) \/ PickScan(t) PROVE Goal
  <2>1. Same /\ \E a : Ends(a)
    BY <1>6, <1>13, Zenon DEF VacuumCommitted, PickScan, Calming, SameNodes, GoesTo
  <2> QED BY <1>3, <1>4, <2>1, Zenon
<1>14. ASSUME Push(t) PROVE Goal
  <2>1. Ends("push") /\ writable' = Append(writable, job[t].vid) /\ locations' = locations
    BY <1>1, <1>14, Zenon DEF Push, Calming, SameNodes
  <2>2. writable' \in Seq(Vids)
    <3>1. job[t].vid \in Vids BY <1>1, <2>1 DEF OpsAt, Owned
    <3> QED BY <1>2, <2>1, <3>1
  <2> QED BY <1>4, <2>1, <2>2, SameKeeps, Zenon
<1>15. ASSUME RemoveFromList(t) PROVE Goal
  <2>1. pc[t] = "remove" /\ "remove" \in Calming /\ locations' = locations BY <1>15, Zenon DEF RemoveFromList, Calming
  <2>2. CASE /\ at[t] \in DOMAIN writable /\ writable' = RemoveAt(writable, at[t])
             /\ Resume(t, then[t]) /\ UNCHANGED nodeVars
    <3>1. at[t] \in 1..Len(writable) BY <1>2, <2>2
    <3>2. writable' \in Seq(Vids) BY <1>2, <2>2, <3>1, RemoveAtElements, Zenon
    <3>3. Ends("remove") BY <1>1, <2>1, <2>2, Zenon DEF SameNodes
    <3> QED BY <1>4, <2>1, <3>2, <3>3, SameKeeps, Zenon
  <2>3. CASE Panic(t) /\ writable' = writable BY <1>3, <1>5, <2>1, <2>3, Zenon
  <2> QED BY <1>15, <2>2, <2>3, Zenon DEF RemoveFromList
<1>16. ASSUME Retain(t) PROVE Goal
  <2>1. /\ pc[t] = "retain" /\ "retain" \in Calming /\ writable' = writable /\ SameNodes
        /\ Return(t) \/ Goto(t, "retain")
    BY <1>16, Zenon DEF Retain, Calming, SameNodes
  <2>2. Keeps
    <3>1. ASSUME NEW s, locations' = Restrict(locations, DOMAIN locations
                                        \ {v \in DOMAIN locations : Shard[v] = s /\ locations[v] = <<>>})
          PROVE  Keeps
      <4>1. PICK R : R = {v \in DOMAIN locations : Shard[v] = s /\ locations[v] = <<>>} BY Zenon
      <4>2. \A v \in R : locations[v] = <<>> BY <4>1, Zenon
      <4>3. locations' = Restrict(locations, DOMAIN locations \ R) BY <3>1, <4>1, Zenon
      <4> QED BY <4>2, <4>3 DEF Keeps, Restrict
    <3> QED BY <1>16, <3>1, SameKeeps, Zenon DEF Retain
  <2>3. Ends("retain") BY <1>6, <2>1, Zenon DEF GoesTo
  <2> QED BY <1>2, <1>4, <2>1, <2>2, <2>3
<1>17. ASSUME PickVid(t) PROVE Goal
  <2>1. pc[t] = "pickVid" /\ "pickVid" \in Calming /\ Same BY <1>17, Zenon DEF PickVid, Calming
  <2>2. ASSUME NEW i \in DOMAIN writable, UNCHANGED nodeVars,
               Begin(t, "pickNode", Call("pick", "none", writable[i], ShortInfo), {})
        PROVE  Goal
    <3>1. PICK c : c = Call("pick", "none", writable[i], ShortInfo) BY Zenon
    <3>2. PICK none : none = {} BY Zenon
    <3>3. t = "pick" BY <1>1, <2>1 DEF OpsAt, Owned
    <3>4. Owned(t, c) /\ c.op \in OpsAt("pickNode") BY <3>1, <3>3 DEF Call, Owned, OpsAt
    <3>5. Begin(t, "pickNode", c, none) BY <2>2, <3>1, <3>2, Zenon
    <3>6. \A d \in none : Owned(t, d) /\ d.op \in Queued BY <3>2
    <3>7. ControlInv' /\ Only(t) /\ pc'[t] = "pickNode" BY <3>4, <3>5, <3>6, BeginKeeps
    <3> QED BY <1>3, <2>1, <2>2, <3>3, <3>7, Zenon DEF Calm, Quiet
  <2>3. CASE Panic(t) BY <1>3, <1>5, <2>1, <2>3, Zenon
  <2> QED BY <1>17, <2>2, <2>3, Zenon DEF PickVid
<1>18. ASSUME PickNode(t) PROVE Goal
  <2>1. pc[t] = "pickNode" /\ "pickNode" \in Calming /\ Same BY <1>18, Zenon DEF PickNode, Calming
  <2>2. CASE Panic(t) BY <1>3, <1>5, <2>1, <2>2, Zenon
  <2>3. CASE Return(t) /\ UNCHANGED nodeVars BY <1>3, <1>4, <2>1, <2>3, Zenon DEF SameNodes
  <2> QED BY <1>18, <2>2, <2>3, Zenon DEF PickNode
<1>19. Goal
  <2>1. ~(GrowAdd(t) \/ GrowFails(t) \/ Enter(t) \/ Detach(t) \/ Evict(t) \/ Unlink(t))
    BY Zenon DEF GrowAdd, GrowFails, Enter, Detach, Evict, Unlink, Acting
  <2> QED BY <1>7, <1>8, <1>9, <1>10, <1>11, <1>12, <1>13, <1>14, <1>15, <1>16, <1>17, <1>18, <2>1,
             ZenonT(30) DEF Step
<1> QED BY <1>19 DEF Calming

-----------------------------------------------------------------------------
(* Steps that change the entries *)

\* register_volume lists its node, and nothing else.
LEMMA EnterFacts ==
  ASSUME ControlInv, TypeInv, EntriesDistinct, NEW t \in Tasks, Enter(t)
  PROVE  /\ pc[t] = "enter" /\ ControlInv' /\ Only(t) /\ Stays(t, "get") /\ Untouched
         /\ TypeInv' /\ EntriesDistinct'
         /\ \A v \in DOMAIN locations : v \in DOMAIN locations' /\ Len(locations'[v]) >= Len(locations[v])
         /\ Listed(t)
<1> DEFINE v == job[t].vid
           locs == IF v \in DOMAIN locations THEN locations[v] ELSE <<>>
<1>1. /\ pc[t] = "enter" /\ Goto(t, "get") /\ Untouched
      /\ locations' = Put(locations, v, SetNode(locs, job[t].node))
  BY Zenon DEF Enter, nodeVars, Untouched
<1>2. Owned(t, job[t]) /\ job[t].op \in OpsAt(pc[t]) BY PendingOwned
<1>3. v \in Vids /\ job[t].node \in Nodes /\ job[t].op \in OpsAt("get") BY <1>1, <1>2 DEF OpsAt, Owned
<1>4. ControlInv' /\ Only(t) /\ Stays(t, "get") BY <1>1, <1>3, GotoKeeps
<1>5. /\ locs \in Seq(Nodes) /\ IsInjective(locs)
      /\ \A n : n \in Range(locs) <=> v \in Held(n)
  <2>1. CASE v \in DOMAIN locations BY <2>1 DEF TypeInv, EntriesDistinct, Held
  <2>2. CASE v \notin DOMAIN locations
    <3>1. <<>> \in Seq(Nodes) /\ IsInjective(<<>>) /\ Range(<<>>) = {} BY DEF IsInjective, Range
    <3> QED BY <2>2, <3>1 DEF Held
  <2> QED BY <2>1, <2>2
<1> HIDE DEF locs
<1>6. PICK new : new = SetNode(locs, job[t].node) BY Zenon
<1>7. /\ new \in Seq(Nodes) /\ IsInjective(new) /\ Range(new) = Range(locs) \cup {job[t].node}
      /\ Len(new) >= Len(locs)
  <2>1. CASE job[t].node \in Range(locs)
    <3>1. new = locs BY <1>6, <2>1, Zenon DEF SetNode
    <3> QED BY <1>5, <2>1, <3>1
  <2>2. CASE job[t].node \notin Range(locs)
    <3>1. new = Append(locs, job[t].node) BY <1>6, <2>2, Zenon DEF SetNode
    <3>2. Len(new) = Len(locs) + 1 /\ Len(locs) \in Nat BY <1>3, <1>5, <3>1
    <3> QED BY <1>3, <1>5, <2>2, <3>1, <3>2, AppendDistinct
  <2> QED BY <2>1, <2>2
<1>8. /\ DOMAIN locations' = DOMAIN locations \cup {v} /\ locations'[v] = new
      /\ \A w \in DOMAIN locations \ {v} : locations'[w] = locations[w]
  BY <1>1, <1>6 DEF Put
<1>9. TypeInv' BY <1>1, <1>3, <1>7, <1>8 DEF TypeInv, Untouched
<1>10. EntriesDistinct' BY <1>7, <1>8 DEF EntriesDistinct
<1>11. ASSUME NEW n PROVE Held(n)' = IF n = job[t].node THEN Held(n) \cup {v} ELSE Held(n)
  <2>1. \A w : w \in Held(n)' <=> w \in Held(n) \/ (n = job[t].node /\ w = v)
    BY <1>5, <1>7, <1>8 DEF Held
  <2> QED BY <2>1
<1>12. \A w \in DOMAIN locations : w \in DOMAIN locations' /\ Len(locations'[w]) >= Len(locations[w])
  <2>1. \A w \in DOMAIN locations : Len(locations[w]) \in Nat BY DEF TypeInv
  <2>2. v \in DOMAIN locations => locs = locations[v] BY DEF locs
  <2> QED BY <1>7, <1>8, <2>1, <2>2
<1> QED BY <1>1, <1>4, <1>9, <1>10, <1>11, <1>12 DEF Listed

\* unregister_volume takes the node off the entry and changes no other entry.
LEMMA DetachFacts ==
  ASSUME ControlInv, TypeInv, EntriesDistinct, NEW t \in Tasks, Detach(t)
  PROVE  pc[t] = "detach" /\ Off(t)
<1>1. pc[t] = "detach" /\ Untouched BY Zenon DEF Detach, nodeVars, Untouched
<1>2. Owned(t, job[t]) /\ job[t].op \in OpsAt(pc[t]) BY PendingOwned
<1>3. job[t].vid \in Vids /\ t \in Nodes /\ job[t].node = t /\ job[t].op \in OpsAt("ensure")
  BY <1>1, <1>2 DEF OpsAt, Owned
<1>4. CASE /\ job[t].vid \in DOMAIN locations /\ Goto(t, "ensure")
           /\ locations' = [locations EXCEPT ![job[t].vid] = RemoveFirst(@, job[t].node)]
  <2>1. PICK v : v = job[t].vid BY Zenon
  <2>2. v \in DOMAIN locations BY <1>4, <2>1, Zenon
  <2>3. PICK new : new = RemoveFirst(locations[v], t) BY Zenon
  <2>4. new \in Seq(Nodes) /\ IsInjective(new) /\ Range(new) = Range(locations[v]) \ {t}
    BY <2>2, <2>3, RemoveFirstDistinct DEF TypeInv, EntriesDistinct
  <2>5. SameBut(v) /\ locations'[v] = new
    <3>1. locations' = [locations EXCEPT ![v] = new] BY <1>3, <1>4, <2>1, <2>3
    <3> QED BY <2>2, <3>1 DEF SameBut
  <2>6. /\ TypeInv' /\ EntriesDistinct'
        /\ \A n : Held(n)' = IF n = t THEN Held(n) \ {v} ELSE Held(n)
    BY <1>1, <1>3, <2>2, <2>4, <2>5, TakenOff, ZenonT(30)
  <2>7. Goto(t, "ensure") BY <1>4, Zenon
  <2>8. ControlInv' /\ Only(t) /\ Stays(t, "ensure") BY <1>3, <2>7, GotoKeeps
  <2> QED BY <1>1, <1>3, <2>1, <2>5, <2>6, <2>8 DEF Off, Stays
<1>5. CASE /\ ~(job[t].vid \in DOMAIN locations /\ job[t].node \in Range(locations[job[t].vid]))
           /\ locations' = locations /\ Return(t)
  <2>1. ControlInv' /\ Only(t) /\ Turns(t, pending[t]) BY <1>5, ReturnKeeps
  <2>2. TypeInv' /\ EntriesDistinct' /\ SameBut(job[t].vid) BY <1>1, <1>5 DEF SameBut, TypeInv, EntriesDistinct, Untouched
  <2>3. \A n : Held(n)' = IF n = t THEN Held(n) \ {job[t].vid} ELSE Held(n)
    BY <1>3, <1>5 DEF Held
  <2> QED BY <1>1, <1>3, <1>5, <2>1, <2>2, <2>3, ZenonT(30) DEF Off
<1> QED BY <1>1, <1>4, <1>5, Zenon DEF Detach

\* So does set_volume_unavailable.
LEMMA EvictFacts ==
  ASSUME ControlInv, TypeInv, EntriesDistinct, NEW t \in Tasks, Evict(t)
  PROVE  pc[t] = "evict" /\ Off(t)
<1>1. pc[t] = "evict" /\ Untouched BY Zenon DEF Evict, nodeVars, Untouched
<1>2. Owned(t, job[t]) /\ job[t].op \in OpsAt(pc[t]) BY PendingOwned
<1>3. job[t].vid \in Vids /\ t \in Nodes /\ job[t].node = t /\ job[t].op \in OpsAt("find")
  BY <1>1, <1>2 DEF OpsAt, Owned
<1>4. CASE /\ job[t].vid \in DOMAIN locations /\ (Goto(t, "find") \/ (Return(t) /\ ~(Len(locations'[job[t].vid]) < CopyCount)))
           /\ locations' = [locations EXCEPT ![job[t].vid] = RemoveAll(@, job[t].node)]
  <2>1. PICK v : v = job[t].vid BY Zenon
  <2>2. v \in DOMAIN locations BY <1>4, <2>1, ZenonT(30)
  <2>3. PICK new : new = RemoveAll(locations[v], t) BY Zenon
  <2>4. new \in Seq(Nodes) /\ IsInjective(new) /\ Range(new) = Range(locations[v]) \ {t}
    BY <2>2, <2>3, RemoveAllDistinct DEF TypeInv, EntriesDistinct
  <2>5. SameBut(v) /\ locations'[v] = new
    <3>1. locations' = [locations EXCEPT ![v] = new] BY <1>3, <1>4, <2>1, <2>3
    <3> QED BY <2>2, <3>1 DEF SameBut
  <2>6. /\ TypeInv' /\ EntriesDistinct'
        /\ \A n : Held(n)' = IF n = t THEN Held(n) \ {v} ELSE Held(n)
    BY <1>1, <1>3, <2>2, <2>4, <2>5, TakenOff, ZenonT(30)
  <2>7. CASE Goto(t, "find")
    <3>1. ControlInv' /\ Only(t) /\ Stays(t, "find") BY <1>3, <2>7, GotoKeeps
    <3> QED BY SMTT(30), <1>1, <1>3, <2>1, <2>5, <2>6, <3>1 DEF Off, Stays
  <2>8. CASE Return(t) /\ ~(Len(locations'[job[t].vid]) < CopyCount)
    <3>1. ControlInv' /\ Only(t) /\ Turns(t, pending[t]) BY <2>8, ReturnKeeps
    <3>2. Len(new) \in Nat BY <2>4
    <3>3. Len(locations'[job[t].vid]) >= CopyCount BY <2>1, <2>5, <2>8, <3>2, LayoutAssumption
    <3> QED BY SMTT(30), <1>1, <1>3, <2>1, <2>5, <2>6, <3>1, <3>3 DEF Off
  <2> QED BY <1>4, <2>7, <2>8
<1>5. CASE job[t].vid \notin DOMAIN locations /\ locations' = locations /\ Return(t)
  <2>1. ControlInv' /\ Only(t) /\ Turns(t, pending[t]) BY <1>5, ReturnKeeps
  <2>2. TypeInv' /\ EntriesDistinct' /\ SameBut(job[t].vid) BY <1>1, <1>5 DEF SameBut, TypeInv, EntriesDistinct, Untouched
  <2>3. \A n : Held(n)' = IF n = t THEN Held(n) \ {job[t].vid} ELSE Held(n)
    BY <1>3, <1>5 DEF Held
  <2> QED BY <1>1, <1>3, <1>5, <2>1, <2>2, <2>3, ZenonT(30) DEF Off
<1> QED BY <1>1, <1>4, <1>5, Zenon DEF Evict

\* Every step of a task inside the layout.
LEMMA StepKeeps ==
  ASSUME Inv, NEW t \in Tasks, Step(t)
  PROVE  Inv'
<1> USE DEF Inv
<1>1. CASE pc[t] \notin Acting
  <2>1. Calm(t) /\ pc[t] \notin {"idle", "available"} BY <1>1, StepCalm
  <2>2. ControlInv' /\ Only(t) BY <2>1 DEF Calm
  <2>3. TypeInv' /\ EntriesDistinct' BY <2>1, CalmTypes
  <2>4. AloneInv' BY <2>1, <2>2, StepAlone
  <2>5. MatchInv' BY <1>1, <2>1, CalmMatch
  <2> QED BY <2>2, <2>3, <2>4, <2>5
<1>2. CASE Enter(t)
  <2>1. /\ pc[t] = "enter" /\ ControlInv' /\ Only(t) /\ Stays(t, "get") /\ Untouched
        /\ TypeInv' /\ EntriesDistinct' /\ Listed(t)
    BY <1>2, EnterFacts
  <2> QED BY <2>1, StepAlone, EnterMatch
<1>3. CASE Detach(t) \/ Evict(t)
  <2>1. pc[t] \in {"detach", "evict"} /\ Off(t) BY <1>3, DetachFacts, EvictFacts
  <2>2. ControlInv' /\ Only(t) /\ TypeInv' /\ EntriesDistinct' BY <2>1 DEF Off
  <2> QED BY <2>1, <2>2, StepAlone, OffMatch
<1>4. pc[t] \in Acting => GrowAdd(t) \/ GrowFails(t) \/ Enter(t) \/ Detach(t) \/ Evict(t) \/ Unlink(t)
  <2> SUFFICES ASSUME pc[t] \in Acting
               PROVE GrowAdd(t) \/ GrowFails(t) \/ Enter(t) \/ Detach(t) \/ Evict(t) \/ Unlink(t)
    OBVIOUS
  <2>1. pc[t] \notin {"get", "check", "markReadonly", "clearReadonly", "size", "ensure", "contains", "push",
                      "find", "remove", "retain", "take", "compact", "pickLen", "pickVid", "pickNode", "scan"}
    BY DEF Acting
  <2> QED BY <2>1, Zenon DEF Step, Get, Check, MarkReadonly, RememberOversized, EnsureCorrectWritable,
             TestListed, Push, Find, RemoveFromList, Retain, VacuumCompact, VacuumFails, VacuumCommitted,
             PickLen, PickVid, PickNode, PickScan
<1>5. CASE Unlink(t) BY <1>5, UnlinkKeeps, Zenon DEF Unlink, layoutVars, SameEntries
<1>6. CASE GrowAdd(t)
  <2>1. /\ pc[t] = "add" /\ Goto(t, "enter") /\ SameEntries /\ linked' = linked
        /\ volumes' = [volumes EXCEPT ![job[t].node] = Put(@, job[t].vid, ShortInfo)]
    BY <1>6, Zenon DEF GrowAdd, layoutVars, SameEntries
  <2>2. PICK n, v : n = job[t].node /\ v = job[t].vid BY Zenon
  <2>3. n \in Nodes
    <3>1. Owned(t, job[t]) /\ job[t].op \in OpsAt("add") BY SMTT(30), <2>1, PendingOwned
    <3> QED BY <2>2, <3>1 DEF OpsAt, Owned
  <2>4. PutOn(n, v) BY <2>1, <2>2, <2>3 DEF TypeInv, Put, PutOn
  <2> QED BY <2>1, <2>2, <2>4, GrowAddKeeps, Zenon
<1>7. CASE GrowFails(t) BY <1>7, GrowFailsKeeps, Zenon DEF GrowFails, layoutVars, SameEntries, nodeVars
<1> QED BY <1>1, <1>2, <1>3, <1>4, <1>5, <1>6, <1>7

-----------------------------------------------------------------------------
(* Calls *)

\* The calls that a message makes are for its own node.
LEMMA CallOwned ==
  ASSUME NEW n \in Nodes, NEW v \in Vids, NEW i, NEW op \in {"register", "unregister", "unavailable"}
  PROVE  Owned(n, Call(op, n, v, i)) /\ Call(op, n, v, i).op = op /\ Call(op, n, v, i).vid = v
BY DEF Call, Owned

\* A full heartbeat registers the volumes it reports anew and unregisters those it
\* no longer reports.
LEMMA FullHeartbeatKeeps ==
  ASSUME Inv, NEW n \in Nodes, NEW actual \in Reports, FullHeartbeat(n, actual)
  PROVE  Inv'
<1>1. DOMAIN actual \subseteq Vids
  <2>1. setting.vids \subseteq Vids BY LayoutAssumption DEF Inv, ControlInv
  <2> QED BY <2>1 DEF Reports
<1>2. PICK calls : calls = {Call("register", n, v, actual[v]) : v \in DOMAIN actual \ DOMAIN volumes[n]}
                           \cup {Call("unregister", n, v, volumes[n][v]) : v \in DOMAIN volumes[n] \ DOMAIN actual}
  BY Zenon
<1>3. /\ n \in online /\ Start(n) /\ Proceed(n, calls) /\ volumes' = [volumes EXCEPT ![n] = actual]
      /\ writable' = writable /\ locations' = locations /\ online' = online /\ linked' = linked /\ died' = died
  BY <1>2, Zenon DEF FullHeartbeat, layoutVars
<1>4. /\ DOMAIN volumes' = Nodes /\ volumes'[n] = actual /\ DOMAIN volumes[n] \subseteq Vids
      /\ \A m \in Nodes \ {n} : volumes'[m] = volumes[m]
  BY <1>3 DEF Inv, TypeInv
<1>5. Told(n) = DOMAIN volumes[n] /\ Told(n)' = DOMAIN actual BY <1>3, <1>4 DEF Told
<1>6. ASSUME NEW c \in calls
      PROVE  /\ Owned(n, c) /\ c.op \in {"register", "unregister"}
             /\ c.op = "register" => c.vid \in DOMAIN actual \ DOMAIN volumes[n]
             /\ c.op = "unregister" => c.vid \in DOMAIN volumes[n] \ DOMAIN actual
  <2>1. CASE \E v \in DOMAIN actual \ DOMAIN volumes[n] : c = Call("register", n, v, actual[v])
    BY <1>1, <2>1, CallOwned
  <2>2. CASE \E v \in DOMAIN volumes[n] \ DOMAIN actual : c = Call("unregister", n, v, volumes[n][v])
    BY <1>4, <2>2, CallOwned
  <2> QED BY <1>2, <2>1, <2>2, Zenon
<1>7. VidsOf(calls, Registers) = DOMAIN actual \ DOMAIN volumes[n]
  <2>1. ASSUME NEW v \in DOMAIN actual \ DOMAIN volumes[n] PROVE v \in VidsOf(calls, Registers)
    <3>1. PICK c \in calls : c = Call("register", n, v, actual[v]) BY <1>2, Zenon
    <3>2. c.op = "register" /\ c.vid = v BY <1>1, <3>1, CallOwned
    <3> QED BY <3>2 DEF VidsOf, Registers
  <2> QED BY <1>6, <2>1 DEF VidsOf, Registers
<1>8. VidsOf(calls, Deregisters) = DOMAIN volumes[n] \ DOMAIN actual
  <2>1. ASSUME NEW v \in DOMAIN volumes[n] \ DOMAIN actual PROVE v \in VidsOf(calls, Deregisters)
    <3>1. PICK c \in calls : c = Call("unregister", n, v, volumes[n][v]) BY <1>2, Zenon
    <3>2. c.op = "unregister" /\ c.vid = v BY <1>4, <3>1, CallOwned
    <3> QED BY <3>2 DEF VidsOf, Deregisters
  <2> QED BY <1>6, <2>1 DEF VidsOf, Deregisters
<1>9. Covers(n, calls) BY <1>3, <1>5, <1>7, <1>8 DEF Covers
<1>10. \A c \in calls : Owned(n, c) /\ c.op \in Queued BY <1>6 DEF Queued
<1>11. online' \subseteq Nodes BY <1>3 DEF Inv, TypeInv
<1> QED BY <1>1, <1>3, <1>4, <1>9, <1>10, <1>11, NodeCall DEF NodeStep

\* A message about one volume.
LEMMA DeltaKeeps ==
  ASSUME Inv, NEW n \in Nodes, NEW v \in Vids, NewVolumeDelta(n, v) \/ DeletedVolumeDelta(n, v)
  PROVE  Inv'
<1>1. PICK op \in {"register", "unregister"} :
        IF op = "register" THEN NewVolumeDelta(n, v) ELSE DeletedVolumeDelta(n, v)
  BY Zenon
<1>2. PICK c : c = Call(op, n, v, ShortInfo) BY Zenon
<1>3. PICK calls : calls = {c} BY Zenon
<1>4. PICK has : has = IF op = "register" THEN Put(volumes[n], v, ShortInfo) ELSE Without(volumes[n], v) BY Zenon
<1>5. /\ n \in online /\ Start(n) /\ Proceed(n, calls)
      /\ writable' = writable /\ locations' = locations /\ online' = online /\ linked' = linked /\ died' = died
  BY <1>1, <1>2, <1>3, Zenon DEF NewVolumeDelta, DeletedVolumeDelta, layoutVars
<1>6. volumes' = [volumes EXCEPT ![n] = has] BY <1>1, <1>4 DEF NewVolumeDelta, DeletedVolumeDelta
<1>7. DOMAIN has = IF op = "register" THEN DOMAIN volumes[n] \cup {v} ELSE DOMAIN volumes[n] \ {v}
  BY <1>4 DEF Put, Without, Restrict
<1>8. /\ DOMAIN volumes' = Nodes /\ volumes'[n] = has /\ DOMAIN volumes[n] \subseteq Vids
      /\ \A m \in Nodes \ {n} : volumes'[m] = volumes[m]
  BY <1>6 DEF Inv, TypeInv
<1>9. Told(n) = DOMAIN volumes[n] /\ Told(n)' = DOMAIN has BY <1>5, <1>8 DEF Told
<1>10. Owned(n, c) /\ c.op = op /\ c.vid = v BY <1>2, CallOwned
<1>11. /\ VidsOf(calls, Registers) = IF op = "register" THEN {v} ELSE {}
       /\ VidsOf(calls, Deregisters) = IF op = "register" THEN {} ELSE {v}
  BY <1>3, <1>10 DEF VidsOf, Registers, Deregisters
<1>12. Covers(n, calls) BY <1>5, <1>7, <1>9, <1>11 DEF Covers
<1>13. \A d \in calls : Owned(n, d) /\ d.op \in Queued BY <1>3, <1>10 DEF Queued
<1>14. online' \subseteq Nodes /\ DOMAIN has \subseteq Vids BY <1>5, <1>7, <1>8 DEF Inv, TypeInv
<1> QED BY <1>5, <1>8, <1>12, <1>13, <1>14, NodeCall DEF NodeStep

\* A stream that ends makes all that its node reported unavailable.
LEMMA StreamEndsKeeps ==
  ASSUME Inv, NEW n \in Nodes, StreamEnds(n)
  PROVE  Inv'
<1>1. PICK u : u = Call("unlink", n, "none", ShortInfo) BY Zenon
<1>2. PICK calls : calls = {Call("unavailable", n, v, ShortInfo) : v \in DOMAIN volumes[n]} \cup {u} BY Zenon
<1>3. /\ n \in online /\ Start(n) /\ Proceed(n, calls) /\ online' = online \ {n}
      /\ writable' = writable /\ locations' = locations /\ volumes' = volumes /\ linked' = linked /\ died' = died
  BY <1>1, <1>2, Zenon DEF StreamEnds, layoutVars
<1>4. DOMAIN volumes = Nodes /\ DOMAIN volumes[n] \subseteq Vids /\ online' \subseteq Nodes
  BY <1>3 DEF Inv, TypeInv
<1>5. Told(n) = DOMAIN volumes[n] /\ Told(n)' = {} BY <1>3 DEF Told
<1>7. u \in calls /\ Owned(n, u) /\ u.op = "unlink"
  <2>1. Owned(n, Call("unlink", n, "none", ShortInfo)) /\ Call("unlink", n, "none", ShortInfo).op = "unlink"
    BY DEF Call, Owned
  <2> QED BY <1>1, <1>2, <2>1
<1>8. ASSUME NEW c \in calls
      PROVE  Owned(n, c) /\ (c.op = "unlink" \/ (c.op = "unavailable" /\ c.vid \in DOMAIN volumes[n]))
  <2>1. CASE \E v \in DOMAIN volumes[n] : c = Call("unavailable", n, v, ShortInfo)
    BY <1>4, <2>1, CallOwned
  <2> QED BY <1>2, <1>7, <2>1
<1>9. VidsOf(calls, Deregisters) = DOMAIN volumes[n]
  <2>1. ASSUME NEW v \in DOMAIN volumes[n] PROVE v \in VidsOf(calls, Deregisters)
    <3>1. PICK c \in calls : c = Call("unavailable", n, v, ShortInfo) BY <1>2, Zenon
    <3>2. c.op = "unavailable" /\ c.vid = v BY <1>4, <3>1, CallOwned
    <3> QED BY <3>2 DEF VidsOf, Deregisters
  <2> QED BY <1>8, <2>1 DEF VidsOf, Deregisters
<1>10. VidsOf(calls, Registers) = {} BY <1>8 DEF VidsOf, Registers
<1>11. Covers(n, calls) BY <1>5, <1>7, <1>9, <1>10 DEF Covers, HasUnlink
<1>12. \A c \in calls : Owned(n, c) /\ c.op \in Queued BY <1>8 DEF Queued
<1> QED BY <1>3, <1>4, <1>11, <1>12, NodeCall DEF NodeStep

\* Growth chooses nodes of the tree, which are on line as no stream is at work.
LEMMA GrowKeeps ==
  ASSUME Inv, NEW v \in Vids, NEW ns \in SUBSET Nodes, Grow(v, ns)
  PROVE  Inv'
<1>1. PICK calls : calls = {Call("grow", n, v, ShortInfo) : n \in ns} BY Zenon
<1>2. /\ Start("grow") /\ ns \subseteq linked /\ Proceed("grow", calls)
      /\ writable' = writable /\ locations' = locations
      /\ volumes' = volumes /\ online' = online /\ linked' = linked /\ died' = died
  BY <1>1, Zenon DEF Grow, layoutVars, nodeVars
<1>3. "grow" \in setting.others /\ "grow" \in Tasks \ Nodes
  <2>1. "grow" \in setting.others BY <1>2, OtherNames DEF Start
  <2> QED BY <2>1, LayoutAssumption, OtherNames DEF Inv, ControlInv, Tasks
<1>4. ASSUME NEW c \in calls PROVE Owned("grow", c) /\ c.op \in Queued /\ c.node \in ns
  <2>1. \A n \in ns : LET d == Call("grow", n, v, ShortInfo)
                      IN  Owned("grow", d) /\ d.op \in Queued /\ d.node = n
    BY DEF Call, Owned, Queued
  <2> QED BY <1>1, <2>1
<1>5. ControlInv' /\ Only("grow") /\ Turns("grow", calls) BY <1>2, <1>3, <1>4, ProceedKeeps DEF Inv
<1>6. pc'["grow"] \notin {"enter", "get"}
  <2>1. \A c \in calls : FirstPc(c.op) = "add"
    <3>1. \A c \in calls : c.op = "grow" BY SMTT(30), <1>3, <1>4 DEF Owned, Queued
    <3> QED BY <3>1 DEF FirstPc
  <2> QED BY <1>5, <2>1 DEF Turns
<1>7. ASSUME GrowsAlone PROVE GrowOK'
  <2>1. Busy = {} BY <1>2, <1>3, <1>7, StartsAlone DEF GrowsAlone
  <2>2. \A n \in Nodes : ~Unlinks(n) BY <2>1, NotBusy DEF Inv
  <2>3. ns \subseteq online \cup died BY <1>2, <1>7, <2>2 DEF Inv, MatchInv, Matches, NodeOK
  <2> QED BY <1>2, <1>4, <1>5, <2>3 DEF GrowOK, Turns
<1> QED BY <1>2, <1>3, <1>5, <1>6, <1>7, OtherCall DEF SameEntries

\* Every message, growth, vacuum or assign that begins a call keeps the invariant.
LEMMA CallKeeps == Inv /\ Calls => Inv'
<1> SUFFICES ASSUME Inv, Calls PROVE Inv' OBVIOUS
<1>1. setting.vids \subseteq Vids BY LayoutAssumption DEF Inv, ControlInv
<1>2. ASSUME NEW v \in Vids, Vacuum(v) PROVE Inv'
  <2>1. PICK c : c = Call("vacuum", "none", v, ShortInfo) BY Zenon
  <2>2. Owned("vacuum", c) /\ c.op \in OpsAt("take") BY <2>1 DEF Call, Owned, OpsAt
  <2>3. Start("vacuum") /\ Begin("vacuum", "take", c, {}) /\ UNCHANGED <<layoutVars, nodeVars>>
    BY <1>2, <2>1, Zenon DEF Vacuum
  <2> QED BY <2>2, <2>3, ServiceKeeps
<1>3. ASSUME Pick PROVE Inv'
  <2>1. PICK c : c = Call("pick", "none", "none", ShortInfo) BY Zenon
  <2>2. Owned("pick", c) /\ c.op \in OpsAt("pickLen") BY <2>1 DEF Call, Owned, OpsAt
  <2>3. Start("pick") /\ Begin("pick", "pickLen", c, {}) /\ UNCHANGED <<layoutVars, nodeVars>>
    BY <1>3, <2>1, Zenon DEF Pick
  <2> QED BY <2>2, <2>3, ServiceKeeps
<1>4. ASSUME PickDc PROVE Inv'
  <2>1. PICK c : c = Call("pickDc", "none", "none", ShortInfo) BY Zenon
  <2>2. Owned("pickDc", c) /\ c.op \in OpsAt("scan") BY <2>1 DEF Call, Owned, OpsAt
  <2>3. Start("pickDc") /\ Begin("pickDc", "scan", c, {}) /\ UNCHANGED <<layoutVars, nodeVars>>
    BY <1>4, <2>1, Zenon DEF PickDc
  <2> QED BY <2>2, <2>3, ServiceKeeps
<1>5. ASSUME NEW n \in Nodes, Connect(n) PROVE Inv'
  <2>1. /\ n \notin online /\ pc[n] = "idle" /\ online' = online \cup {n} /\ linked' = linked \cup {n}
        /\ volumes' = IF n \in linked THEN volumes ELSE [volumes EXCEPT ![n] = NoVolumes]
        /\ writable' = writable /\ locations' = locations /\ died' = died
        /\ setting' = setting /\ pc' = pc /\ job' = job /\ pending' = pending /\ at' = at /\ then' = then
    BY <1>5, Zenon DEF Connect, layoutVars, taskVars, locals
  <2>2. /\ DOMAIN volumes' = Nodes /\ \A m \in Nodes \ {n} : volumes'[m] = volumes[m]
        /\ IF n \in linked THEN volumes' = volumes ELSE DOMAIN volumes'[n] = {}
    <3>1. DOMAIN NoVolumes = {} BY DEF NoVolumes
    <3> QED BY <2>1, <3>1 DEF Inv, TypeInv
  <2> QED BY <2>1, <2>2, ConnectKeeps, Zenon DEF ConnectStep
<1> QED BY <1>1, <1>2, <1>3, <1>4, <1>5, StreamEndsKeeps, FullHeartbeatKeeps, DeltaKeeps,
           GrowKeeps, ZenonT(30) DEF Calls

-----------------------------------------------------------------------------
(* The layout follows the heartbeats *)

\* The layout of a new collection satisfies the invariant.
LEMMA InitInv == Init => Inv
<1> SUFFICES ASSUME Init PROVE Inv OBVIOUS
<1>1. /\ setting \in Settings /\ writable = <<>> /\ locations = [v \in {} |-> <<>>]
      /\ volumes = [n \in Nodes |-> NoVolumes] /\ online = {} /\ linked = {} /\ died = {}
      /\ pc = [t \in Tasks |-> "idle"] /\ job = [t \in Tasks |-> NoCall]
      /\ at = [t \in Tasks |-> 0] /\ then = [t \in Tasks |-> "return"] /\ pending = [t \in Tasks |-> {}]
  BY Zenon DEF Init
<1>2. DOMAIN locations = {} BY <1>1
<1>3. \A n \in Nodes : DOMAIN volumes[n] = {} BY <1>1 DEF NoVolumes
<1>4. \A t \in Tasks : pc[t] = "idle" /\ job[t] = NoCall /\ then[t] = "return" /\ pending[t] = {} BY <1>1
<1>5. \A t \in Tasks : TaskOK(t) BY <1>4, IdleOwned DEF TaskOK, Resumes
<1>6. DOMAIN pc = Tasks /\ DOMAIN job = Tasks /\ DOMAIN at = Tasks /\ DOMAIN then = Tasks /\ DOMAIN pending = Tasks
  BY <1>1
<1>7. ControlInv BY <1>1, <1>5, <1>6 DEF ControlInv
<1>8. TypeInv /\ EntriesDistinct BY <1>1, <1>2, <1>3 DEF TypeInv, EntriesDistinct
<1>9. Busy = {} BY <1>4 DEF Busy, Active
<1>10. AloneInv BY <1>4, <1>9 DEF AloneInv
<1>11. GrowOK /\ \A n : GrowEnters(n) = {} BY <1>4 DEF GrowOK, GrowEnters
<1>12. ASSUME NEW n \in Nodes PROVE NodeOK(n)
  <2>1. Enters(n) = {} /\ Leaves(n) = {} BY <1>7, <1>9, NotBusy
  <2>2. Told(n) = {} /\ Held(n) = {} BY <1>1, <1>2 DEF Told, Held
  <2> QED BY <1>1, <1>11, <2>1, <2>2 DEF NodeOK
<1>13. EntriesOK BY SMTT(30), <1>4 DEF EntriesOK
<1> QED BY <1>7, <1>8, <1>10, <1>11, <1>12, <1>13 DEF Inv, MatchInv, Matches

\* Steps that change nothing.
LEMMA StutterKeeps == Inv /\ UNCHANGED vars => Inv'
<1> SUFFICES ASSUME Inv, UNCHANGED vars PROVE Inv' OBVIOUS
<1>1. /\ setting' = setting /\ writable' = writable /\ locations' = locations /\ volumes' = volumes
      /\ online' = online /\ linked' = linked /\ died' = died
      /\ pc' = pc /\ job' = job /\ at' = at /\ then' = then /\ pending' = pending
  BY ZenonT(30) DEF vars, layoutVars, nodeVars, taskVars, locals
<1>2. ControlInv' BY Zenon, <1>1 DEF Inv, ControlInv, TaskOK
<1>3. TypeInv' /\ EntriesDistinct' BY <1>1 DEF Inv, TypeInv, EntriesDistinct
<1>4. AloneInv' BY <1>1 DEF Inv, AloneInv, Busy, Active
<1>5. \A n : /\ Told(n)' = Told(n) /\ Held(n)' = Held(n) /\ Enters(n)' = Enters(n)
             /\ Leaves(n)' = Leaves(n) /\ GrowEnters(n)' = GrowEnters(n) /\ (Unlinks(n)' <=> Unlinks(n))
  BY <1>1 DEF Told, Held, Enters, Leaves, GrowEnters, Unlinks
<1>6. EntriesOK' <=> EntriesOK BY <1>1, <1>5 DEF EntriesOK
<1>7. GrowOK' <=> GrowOK BY <1>1 DEF GrowOK
<1>8. \A n \in Nodes : NodeOK(n)' <=> NodeOK(n) BY <1>1, <1>5 DEF NodeOK
<1> QED BY <1>1, <1>2, <1>3, <1>4, <1>6, <1>7, <1>8 DEF Inv, MatchInv, Matches, GrowsAlone

\* The invariant holds however the heartbeat streams, the vacuum loop and the assign
\* requests overlap, and with growth that runs alone.
THEOREM InvHolds == Spec => []Inv
<1>1. Inv /\ [Next]_vars => Inv' BY CallKeeps, StepKeeps, StutterKeeps DEF Next
<1> QED BY <1>1, InitInv, PTL DEF Spec

\* No server is listed twice for a volume: set_node looks for it first, and the
\* other changes of an entry only take servers off.
THEOREM LocationsDistinctHolds == Spec => []LocationsDistinct
<1>1. Inv => LocationsDistinct BY DEF Inv, EntriesDistinct, LocationsDistinct
<1> QED BY <1>1, InvHolds, PTL

\* Once a heartbeat stream has worked off its message, its node is listed for just
\* the volumes that it reported: what a message adds or removes is in the calls the
\* stream makes, and no other task takes the node off.
THEOREM LocationsMatchReportsHolds == Spec => []LocationsMatchReports
<1>1. Inv => LocationsMatchReports
  <2> SUFFICES ASSUME Inv, GrowsAlone, NEW n \in Nodes, pc[n] = "idle", n \notin died,
                      \A t \in Tasks : job[t].op # "grow"
               PROVE  Held(n) = Told(n)
    BY DEF LocationsMatchReports, Held, Told
  <2>1. NodeOK(n) BY DEF Inv, MatchInv, Matches
  <2>2. Enters(n) = {} /\ Leaves(n) = {} BY NotBusy DEF Inv, Busy, Active
  <2>3. GrowEnters(n) = {}
    <3> SUFFICES ASSUME "grow" \in Tasks, pc["grow"] = "enter" PROVE FALSE BY DEF GrowEnters
    <3>1. Owned("grow", job["grow"]) /\ job["grow"].op \in OpsAt("enter") BY PendingOwned DEF Inv
    <3> QED BY <3>1, OtherNames DEF OpsAt, Owned
  <2>4. Told(n) \subseteq Held(n) /\ Held(n) \subseteq Told(n) BY <2>1, <2>2, <2>3 DEF NodeOK
  <2> QED BY <2>4, Zenon
<1> QED BY <1>1, InvHolds, PTL

\* A task that is to get an entry is listed in it.
LEMMA EntryFound == Inv => EntryStays
BY DEF Inv, MatchInv, Matches, EntriesOK, EntryStays, Held

\* register_volume finds the entry that it made: between its entry() and its get()
\* only the stream itself could take its node off, and no entry with a node is dropped.
THEOREM EntryStaysHolds == Spec => []EntryStays
BY EntryFound, InvHolds, PTL
=============================================================================
