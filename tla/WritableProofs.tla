---------------------------- MODULE WritableProofs ----------------------------
(***************************************************************************)
(* The list of writable volumes when the tasks come one after the other:   *)
(* no panic, and only volumes with enough locations that are not oversized.*)
(***************************************************************************)
EXTENDS VolumeLayoutProofs

(***************************************************************************)
(* What the only task inside knows                                         *)
(***************************************************************************)
\* A volume that may be written to, and one that task t is yet to take off the list.
Good(v) == v \in DOMAIN locations /\ Len(locations[v]) >= CopyCount /\ v \notin oversize
Mends(t, v) == pc[t] \in {"ensure", "find", "remove"} /\ job[t].vid = v

\* What task t knows where it has looked at the list or the entry before.
Knowing == {"ensure", "contains", "push", "remove", "pickLen", "pickVid", "pickNode"}
KnowsOf(t, v) ==
  /\ pc[t] = "ensure" /\ v \in Range(writable) =>
       v \in DOMAIN locations /\ (v \in oversize => job[t].info \in OversizeInfos)
  /\ pc[t] \in {"contains", "push"} => Good(v)
  /\ pc[t] = "push" => v \notin Range(writable)
  /\ pc[t] = "remove" => at[t] \in DOMAIN writable /\ writable[at[t]] = v
  /\ pc[t] = "pickLen" => writable # <<>>
  /\ pc[t] = "pickVid" => at[t] = Len(writable) /\ writable # <<>>
  /\ pc[t] = "pickNode" => v \in Range(writable)
Knows(t) == KnowsOf(t, job[t].vid)

\* Between calls every volume of the list may be written to; inside a call, but for the
\* one that the task is at.
Sound == died = {} /\ IsInjective(writable)
SerialOK ==
  /\ Sound /\ \A t \in Tasks : Knows(t)
  /\ \A v \in Range(writable) : Good(v) \/ \E t \in Tasks : Mends(t, v)
SerialInv == setting.active = 1 => SerialOK

\* The same for the only task that is inside.
Alone(t) == \A u \in Tasks \ {t} : pc[u] \in {"idle", "available"}
SerialAt(t) == Sound /\ Knows(t) /\ \A v \in Range(writable) : Good(v) \/ Mends(t, v)
Settled == Sound /\ \A v \in Range(writable) : Good(v)

\* Other tasks do not move, and the layout stays.
Moves(t) == setting' = setting /\ \A u \in Tasks \ {t} : pc'[u] = pc[u]
SameLayout == writable' = writable /\ locations' = locations /\ oversize' = oversize /\ died' = died

\* A task outside knows nothing and mends nothing.
LEMMA OutsideKnows ==
  ASSUME NEW u, pc[u] \in {"idle", "available"}
  PROVE  Knows(u) /\ \A v : ~Mends(u, v)
BY DEF Knows, KnowsOf, Mends

\* ... nor does it after a step.
LEMMA OutsideKnowsAfter ==
  ASSUME NEW u, pc'[u] \in {"idle", "available"}
  PROVE  Knows(u)'
BY DEF Knows, KnowsOf

\* A task that takes a step is the only one inside.
LEMMA SerialBefore ==
  ASSUME AloneInv, SerialInv, setting.active = 1, NEW t \in Tasks, pc[t] \notin {"idle", "available"}
  PROVE  Alone(t) /\ SerialAt(t)
<1>1. Alone(t) BY DEF AloneInv, Alone, Busy, Active
<1>2. \A u \in Tasks \ {t} : \A v : ~Mends(u, v) BY <1>1, OutsideKnows DEF Alone
<1> QED BY <1>1, <1>2 DEF SerialInv, SerialOK, SerialAt

\* What holds of the only task inside holds of all.
LEMMA SerialAfter ==
  ASSUME NEW t \in Tasks, Alone(t), Moves(t), SerialAt(t)'
  PROVE  SerialOK'
<1>1. \A u \in Tasks \ {t} : Knows(u)' BY OutsideKnowsAfter DEF Alone, Moves
<1> QED BY <1>1 DEF SerialOK, SerialAt

\* A task that comes to a place where it knows nothing.
LEMMA SettledAfter ==
  ASSUME NEW t \in Tasks, Alone(t), Moves(t), pc'[t] \notin Knowing, Settled'
  PROVE  SerialOK'
<1>1. Knows(t)' BY DEF Knows, KnowsOf, Knowing
<1> QED BY <1>1, SerialAfter DEF Settled, SerialAt

\* Away from those places the list is in order before the step,
LEMMA SettledBefore ==
  ASSUME NEW t, SerialAt(t), pc[t] \notin {"ensure", "find", "remove"}
  PROVE  Settled
BY DEF SerialAt, Mends, Settled

\* ... and it stays so when the layout does.
LEMMA SettledStays == ASSUME Settled, SameLayout PROVE Settled'
BY DEF Settled, Sound, SameLayout, Good

\* Most steps neither change the layout nor lead to a place where the task knows more.
LEMMA PlainStep ==
  ASSUME NEW t \in Tasks, Alone(t), SerialAt(t), pc[t] \notin {"ensure", "find", "remove"},
         SameLayout, Moves(t), pc'[t] \notin Knowing
  PROVE  SerialOK'
BY SettledBefore, SettledStays, SettledAfter

\* A task goes on in its call.
LEMMA GotoMoves ==
  ASSUME ControlInv, NEW t \in Tasks, NEW p, Goto(t, p)
  PROVE  Moves(t) /\ pc'[t] = p /\ job'[t] = job[t]
<1>1. pc' = [pc EXCEPT ![t] = p] /\ setting' = setting /\ job' = job BY Zenon DEF Goto
<1> QED BY <1>1 DEF ControlInv, Moves

\* ... with another index or counter,
LEMMA GotoAtMoves ==
  ASSUME ControlInv, NEW t \in Tasks, NEW p, NEW i, GotoAt(t, p, i)
  PROVE  Moves(t) /\ pc'[t] = p /\ job'[t] = job[t] /\ at'[t] = i
<1>1. pc' = [pc EXCEPT ![t] = p] /\ at' = [at EXCEPT ![t] = i] /\ setting' = setting /\ job' = job
  BY Zenon DEF GotoAt
<1> QED BY <1>1 DEF ControlInv, Moves

\* ... or to come back at another place.
LEMMA GotoThenMoves ==
  ASSUME ControlInv, NEW t \in Tasks, NEW p, NEW q, GotoThen(t, p, q)
  PROVE  Moves(t) /\ pc'[t] = p /\ job'[t] = job[t]
<1>1. pc' = [pc EXCEPT ![t] = p] /\ setting' = setting /\ job' = job BY Zenon DEF GotoThen
<1> QED BY <1>1 DEF ControlInv, Moves

\* A task that is through with a call, or begins one of its calls, knows nothing.
LEMMA ProceedMoves ==
  ASSUME ControlInv, NEW t \in Tasks, NEW calls, Proceed(t, calls), \A d \in calls : d.op \in Queued
  PROVE  Moves(t) /\ pc'[t] \notin Knowing
<1>1. PICK p \in {"idle", "add", "enter", "detach", "evict", "unlink"} :
        pc' = [pc EXCEPT ![t] = p] /\ setting' = setting
  <2>1. CASE Begin(t, "idle", NoCall, {}) BY <2>1, Zenon DEF Begin
  <2>2. ASSUME NEW c \in calls, Begin(t, FirstPc(c.op), c, calls \ {c})
        PROVE  \E p \in {"idle", "add", "enter", "detach", "evict", "unlink"} :
                 pc' = [pc EXCEPT ![t] = p] /\ setting' = setting
    <3>1. FirstPc(c.op) \in {"idle", "add", "enter", "detach", "evict", "unlink"} BY DEF Queued, FirstPc
    <3> QED BY <2>2, <3>1, Zenon DEF Begin
  <2> QED BY <2>1, <2>2, Zenon DEF Proceed, NextCalls
<1> QED BY <1>1 DEF ControlInv, Moves, Knowing

\* ... so at the end of a call,
LEMMA ReturnMoves ==
  ASSUME ControlInv, NEW t \in Tasks, Return(t)
  PROVE  Moves(t) /\ pc'[t] \notin Knowing
<1>1. \A d \in pending[t] : d.op \in Queued BY PendingOwned
<1> QED BY <1>1, ProceedMoves, Zenon DEF Return

\* ... or when it comes back to where the call left off.
LEMMA ResumeMoves ==
  ASSUME ControlInv, NEW t \in Tasks, NEW p, Resumes(job[t].op, p), Resume(t, p)
  PROVE  Moves(t) /\ pc'[t] \notin Knowing
<1>1. CASE p = "return" BY <1>1, ReturnMoves, Zenon DEF Resume
<1>2. CASE p # "return"
  <2>1. Goto(t, p) BY <1>2, Zenon DEF Resume
  <2>2. Moves(t) /\ pc'[t] = p BY <2>1, GotoMoves
  <2> QED BY <1>2, <2>2 DEF Resumes, Knowing
<1> QED BY <1>1, <1>2

\* A task that starts finds the list in order.
LEMMA StartsSettled ==
  ASSUME ControlInv, SerialInv, setting.active = 1, NEW t, Start(t)
  PROVE  t \in Tasks /\ Alone(t) /\ Settled
<1>1. t \in Tasks BY LayoutAssumption DEF ControlInv, Start, Tasks
<1>2. Busy = {} BY StartsAlone
<1>3. \A u \in Tasks : pc[u] \in {"idle", "available"} BY <1>2 DEF Busy, Active
<1>4. \A u \in Tasks : \A v : ~Mends(u, v) BY <1>3, OutsideKnows
<1> QED BY <1>1, <1>3, <1>4 DEF Alone, Settled, SerialInv, SerialOK

\* A call that begins by queueing leaves the list in order.
LEMMA CallSerial ==
  ASSUME ControlInv, SerialInv, setting.active = 1, NEW t, Start(t), Moves(t), pc'[t] \notin Knowing, SameLayout
  PROVE  SerialOK'
BY StartsSettled, SettledStays, SettledAfter

\* A step that moves no task and leaves the layout alone.
LEMMA SameSerial ==
  ASSUME SerialOK, SameLayout, pc' = pc, job' = job, at' = at
  PROVE  SerialOK'
BY DEF SerialOK, Sound, SameLayout, Knows, KnowsOf, Mends, Good

-----------------------------------------------------------------------------
(* Steps and calls *)

\* Every step of the only task inside.
LEMMA StepSerial ==
  ASSUME ControlInv, TypeInv, EntriesDistinct, EntryStays, AloneInv, SerialInv, setting.active = 1,
         NEW t \in Tasks, Step(t)
  PROVE  SerialOK'
<1> Alone(t) /\ SerialAt(t)
  <2>1. pc[t] \notin {"idle", "available"} BY StepCalm DEF Acting
  <2> QED BY <2>1, SerialBefore
\* Steps that leave the list, the entries and the oversized volumes alone.
<1>1. ASSUME \/ GrowAdd(t) \/ GrowFails(t) \/ Check(t) \/ MarkReadonly(t) \/ Unlink(t)
             \/ VacuumCompact(t) \/ VacuumFails(t) \/ VacuumCommitted(t) \/ PickScan(t)
      PROVE  SerialOK'
  <2>1. SameLayout
    BY <1>1, ZenonT(30)
       DEF GrowAdd, GrowFails, Check, MarkReadonly, Unlink, VacuumCompact, VacuumFails, VacuumCommitted, PickScan,
           layoutVars, nodeVars, SameLayout
  <2>2. pc[t] \in {"add", "check", "markReadonly", "clearReadonly", "unlink", "take", "compact", "scan"}
    BY <1>1, ZenonT(30)
       DEF GrowAdd, GrowFails, Check, MarkReadonly, Unlink, VacuumCompact, VacuumFails, VacuumCommitted, PickScan
  <2>3. \/ Return(t) \/ Proceed(t, {})
        \/ \E p \in {"enter", "size", "check", "find", "available", "scan"} : \E i, q :
             Goto(t, p) \/ GotoAt(t, p, i) \/ GotoThen(t, p, q)
    BY <1>1, ZenonT(30)
       DEF GrowAdd, GrowFails, Check, MarkReadonly, Unlink, VacuumCompact, VacuumFails, VacuumCommitted, PickScan
  <2>4. Moves(t) /\ pc'[t] \notin Knowing
    <3>1. CASE Return(t) BY <3>1, ReturnMoves
    <3>2. CASE Proceed(t, {}) BY <3>2, ProceedMoves
    <3>3. ASSUME NEW p \in {"enter", "size", "check", "find", "available", "scan"}, NEW i, NEW q,
                 Goto(t, p) \/ GotoAt(t, p, i) \/ GotoThen(t, p, q)
          PROVE  Moves(t) /\ pc'[t] \notin Knowing
      BY <3>3, GotoMoves, GotoAtMoves, GotoThenMoves DEF Knowing
    <3> QED BY <2>3, <3>1, <3>2, <3>3
  <2>5. pc[t] \notin {"ensure", "find", "remove"} BY <2>2
  <2> QED BY <2>1, <2>4, <2>5, PlainStep, Zenon
\* The unwrap of register_volume finds the entry.
<1>2. ASSUME Get(t) PROVE SerialOK'
  <2>1. pc[t] = "get" BY <1>2, Zenon DEF Get
  <2>2. job[t].vid \in DOMAIN locations
    BY <2>1 DEF EntryStays, GrowsAlone
  <2>3. GotoAt(t, "check", 1) /\ SameLayout BY <1>2, <2>2, Zenon DEF Get, layoutVars, nodeVars, SameLayout
  <2>4. Moves(t) /\ pc'[t] = "check" BY <2>3, GotoAtMoves
  <2> QED BY <2>1, <2>3, <2>4, PlainStep DEF Knowing
\* register_volume adds to an entry.
<1>3. ASSUME Enter(t) PROVE SerialOK'
  <2>1. oversize' = oversize /\ Goto(t, "get") BY <1>3, Zenon DEF Enter
  <2>2. /\ pc[t] = "enter" /\ Untouched /\ TypeInv'
        /\ \A v \in DOMAIN locations : v \in DOMAIN locations' /\ Len(locations'[v]) >= Len(locations[v])
    BY <1>3, EnterFacts
  <2>3. Settled BY <2>2, SettledBefore
  <2>4. ASSUME NEW v, Good(v) PROVE Good(v)'
    <3>1. v \in DOMAIN locations /\ v \in DOMAIN locations' /\ v \notin oversize' BY <2>1, <2>2, <2>4 DEF Good
    <3>2. Len(locations[v]) \in Nat /\ Len(locations'[v]) \in Nat BY <2>2, <3>1 DEF TypeInv
    <3>3. Len(locations'[v]) >= CopyCount BY <2>2, <2>4, <3>1, <3>2, LayoutAssumption DEF Good
    <3> QED BY <3>1, <3>3 DEF Good
  <2>5. Settled' BY <2>2, <2>3, <2>4 DEF Settled, Sound, Untouched
  <2>6. Moves(t) /\ pc'[t] = "get" BY <2>1, GotoMoves
  <2> QED BY <2>5, <2>6, SettledAfter DEF Knowing
\* remember_oversized_volume: the list is looked at next.
<1>4. ASSUME RememberOversized(t) PROVE SerialOK'
  <2>1. PICK v : v = job[t].vid BY Zenon
  <2>2. /\ pc[t] = "size" /\ Goto(t, "ensure") /\ writable' = writable /\ locations' = locations /\ died' = died
        /\ oversize' = IF job[t].info \in OversizeInfos THEN oversize \cup {v} ELSE oversize \ {v}
    BY <1>4, <2>1, Zenon DEF RememberOversized, nodeVars
  <2>3. Settled BY <2>2, SettledBefore
  <2>4. Moves(t) /\ pc'[t] = "ensure" /\ job'[t] = job[t] BY <2>2, GotoMoves
  <2>5. \A w \in Range(writable') : Good(w)' \/ Mends(t, w)' BY <2>1, <2>2, <2>3, <2>4 DEF Settled, Good, Mends
  <2>6. v \in Range(writable) => v \in DOMAIN locations BY <2>3 DEF Settled, Good
  <2>7. Knows(t)' BY <2>1, <2>2, <2>4, <2>6 DEF Knows, KnowsOf
  <2>8. Sound' BY <2>2, <2>3 DEF Settled, Sound
  <2> QED BY <2>4, <2>5, <2>7, <2>8, SerialAfter DEF SerialAt
\* ensure_correct_writable keeps, adds or takes off the volume of the call.
<1>5. ASSUME EnsureCorrectWritable(t) PROVE SerialOK'
  <2>1. PICK v : v = job[t].vid BY Zenon
  <2>2. PICK q : q = AfterEnsure(t) BY Zenon
  <2>3. pc[t] = "ensure" /\ SameLayout
    BY <1>5, Zenon DEF EnsureCorrectWritable, layoutVars, nodeVars, SameLayout
  <2>4. Sound' /\ \A w \in Range(writable) : w # v => Good(w)'
    BY <2>1, <2>3 DEF SerialAt, Sound, SameLayout, Good, Mends
  <2>5. v \in Range(writable) => v \in DOMAIN locations /\ (v \in oversize => job[t].info \in OversizeInfos)
    BY <2>1, <2>3 DEF SerialAt, Knows, KnowsOf
  <2>6. ASSUME v \notin Range(writable), Resume(t, q) PROVE SerialOK'
    <3>1. Owned(t, job[t]) /\ job[t].op \in OpsAt("ensure") BY <2>3, PendingOwned
    <3>2. Resumes(job[t].op, q) BY <2>2, <3>1 DEF OpsAt, Resumes, AfterEnsure
    <3>3. Moves(t) /\ pc'[t] \notin Knowing BY <2>6, <3>2, ResumeMoves
    <3>4. Settled' BY <2>3, <2>4, <2>6 DEF Settled, SameLayout
    <3> QED BY <3>3, <3>4, SettledAfter
  <2>7. ASSUME v \in DOMAIN locations, EnoughCopies(v), v \notin oversize, GotoThen(t, "contains", q) PROVE SerialOK'
    <3>1. Moves(t) /\ pc'[t] = "contains" /\ job'[t] = job[t] BY <2>7, GotoThenMoves
    <3>2. Good(v)' BY <2>3, <2>7 DEF Good, EnoughCopies, SameLayout
    <3>3. Knows(t)' BY <2>1, <3>1, <3>2 DEF Knows, KnowsOf
    <3>4. \A w \in Range(writable') : Good(w)' BY <2>3, <2>4, <3>2 DEF SameLayout
    <3> QED BY <2>4, <3>1, <3>3, <3>4, SerialAfter DEF SerialAt
  <2>8. ASSUME GotoThen(t, "find", q) PROVE SerialOK'
    <3>1. Moves(t) /\ pc'[t] = "find" /\ job'[t] = job[t] BY <2>8, GotoThenMoves
    <3>2. Knows(t)' BY <3>1 DEF Knows, KnowsOf
    <3>3. \A w \in Range(writable') : Good(w)' \/ Mends(t, w)' BY <2>1, <2>3, <2>4, <3>1 DEF SameLayout, Mends
    <3> QED BY <2>4, <3>1, <3>2, <3>3, SerialAfter DEF SerialAt
  <2>9. \/ v \notin DOMAIN locations /\ Resume(t, q)
        \/ v \in DOMAIN locations /\ EnoughCopies(v) /\ v \notin oversize /\ GotoThen(t, "contains", q)
        \/ job[t].info \notin OversizeInfos /\ v \in oversize /\ Resume(t, q)
        \/ GotoThen(t, "find", q)
    BY <1>5, <2>1, <2>2, Zenon DEF EnsureCorrectWritable
  <2> QED BY <2>5, <2>6, <2>7, <2>8, <2>9, Zenon
\* set_volume_writable pushes a volume that is not on the list.
<1>6. ASSUME TestListed(t) \/ Push(t) PROVE SerialOK'
  <2>1. PICK v : v = job[t].vid BY Zenon
  <2>2. pc[t] \in {"contains", "push"} /\ oversize' = oversize /\ locations' = locations /\ died' = died
    BY <1>6, Zenon DEF TestListed, Push, layoutVars, nodeVars
  <2>3. Settled BY <2>2, SettledBefore
  <2>4. Good(v) /\ (pc[t] = "push" => v \notin Range(writable)) BY <2>1, <2>2 DEF SerialAt, Knows, KnowsOf
  <2>5. Owned(t, job[t]) /\ job[t].op \in OpsAt(pc[t]) /\ Resumes(job[t].op, then[t])
    BY DEF ControlInv, TaskOK
  <2>6. ASSUME Resume(t, then[t]), IsInjective(writable'), Range(writable') \subseteq Range(writable) \cup {v}
        PROVE  SerialOK'
    <3>1. Moves(t) /\ pc'[t] \notin Knowing BY <2>5, <2>6, ResumeMoves
    <3>2. Settled' BY <2>2, <2>3, <2>4, <2>6 DEF Settled, Sound, Good
    <3> QED BY <3>1, <3>2, SettledAfter
  <2>7. CASE pc[t] = "push" /\ writable' = Append(writable, v) /\ Resume(t, then[t])
    <3>1. v \in Vids BY <2>1, <2>5, <2>7 DEF OpsAt, Owned
    <3>2. writable \in Seq(Vids) /\ IsInjective(writable) BY <2>3 DEF TypeInv, Settled, Sound
    <3>3. IsInjective(writable') /\ Range(writable') = Range(writable) \cup {v}
      BY <2>4, <2>7, <3>1, <3>2, AppendDistinct
    <3> QED BY <2>6, <2>7, <3>3
  <2>8. CASE writable' = writable /\ Resume(t, then[t]) BY <2>3, <2>6, <2>8 DEF Settled, Sound
  <2>9. CASE writable' = writable /\ v \notin Range(writable) /\ Goto(t, "push")
    <3>1. Moves(t) /\ pc'[t] = "push" /\ job'[t] = job[t] BY <2>9, GotoMoves
    <3>2. \A w : Good(w) => Good(w)' BY <2>2 DEF Good
    <3>3. Knows(t)' BY <2>1, <2>4, <2>9, <3>1, <3>2 DEF Knows, KnowsOf
    <3>4. Sound' /\ \A w \in Range(writable') : Good(w)' BY <2>2, <2>3, <2>9, <3>2 DEF Settled, Sound
    <3> QED BY <3>1, <3>3, <3>4, SerialAfter DEF SerialAt
  <2> QED BY <1>6, <2>1, <2>7, <2>8, <2>9, Zenon DEF TestListed, Push, layoutVars
\* remove_from_writable: the index that was looked up is still that of the volume.
<1>7. ASSUME Find(t) \/ RemoveFromList(t) PROVE SerialOK'
  <2>1. PICK v : v = job[t].vid BY Zenon
  <2>2. pc[t] \in {"find", "remove"} /\ oversize' = oversize /\ locations' = locations
    BY <1>7, Zenon DEF Find, RemoveFromList, layoutVars
  <2>3. writable \in Seq(Vids) /\ IsInjective(writable) /\ died = {} BY DEF TypeInv, SerialAt, Sound
  <2>4. \A w : Good(w)' <=> Good(w) BY <2>2 DEF Good
  <2>5. \A w \in Range(writable) : w # v => Good(w)' BY <2>1, <2>4 DEF SerialAt, Mends
  <2>6. Resumes(job[t].op, then[t]) BY DEF ControlInv, TaskOK
  <2>7. ASSUME Resume(t, then[t]), died' = died, IsInjective(writable'), Range(writable') \subseteq Range(writable) \ {v}
        PROVE  SerialOK'
    <3>1. Moves(t) /\ pc'[t] \notin Knowing BY <2>6, <2>7, ResumeMoves
    <3>2. Settled' BY <2>3, <2>5, <2>7 DEF Settled, Sound
    <3> QED BY <3>1, <3>2, SettledAfter
  <2>8. CASE Find(t)
    <3>1. PICK here : here = {i \in DOMAIN writable : writable[i] = v} BY Zenon
    <3>2. /\ writable' = writable /\ died' = died
          /\ IF here = {} THEN Resume(t, then[t]) ELSE GotoAt(t, "remove", Max(here))
      BY <2>1, <2>8, <3>1, Zenon DEF Find, layoutVars, nodeVars
    <3>3. CASE here = {}
      <4>1. v \notin Range(writable) BY <3>1, <3>3 DEF Range
      <4> QED BY <2>3, <2>7, <3>2, <3>3, <4>1
    <3>4. CASE here # {}
      <4>1. PICK k \in DOMAIN writable : writable[k] = v BY <3>1, <3>4
      <4>2. k \in Nat /\ here = {k} BY <2>3, <3>1, <4>1 DEF IsInjective
      <4>3. Max({k}) = k BY <4>2 DEF Max
      <4>4. GotoAt(t, "remove", k) BY <3>2, <3>4, <4>2, <4>3, Zenon
      <4>5. Moves(t) /\ pc'[t] = "remove" /\ job'[t] = job[t] /\ at'[t] = k BY <4>4, GotoAtMoves
      <4>6. Knows(t)' BY SMTT(30), <2>1, <3>2, <4>1, <4>5 DEF Knows, KnowsOf
      <4>7. Sound' /\ \A w \in Range(writable') : Good(w)' \/ Mends(t, w)'
        BY SMTT(30), <2>1, <2>3, <2>5, <3>2, <4>5 DEF Sound, Mends
      <4> QED BY <4>5, <4>6, <4>7, SerialAfter DEF SerialAt
    <3> QED BY <3>3, <3>4
  <2>9. CASE RemoveFromList(t)
    <3>1. pc[t] = "remove" BY <2>9, Zenon DEF RemoveFromList
    <3>2. at[t] \in DOMAIN writable /\ writable[at[t]] = v BY <2>1, <3>1 DEF SerialAt, Knows, KnowsOf
    <3>3. writable' = RemoveAt(writable, at[t]) /\ Resume(t, then[t]) /\ died' = died
      BY <2>9, <3>2, Zenon DEF RemoveFromList, nodeVars
    <3>4. at[t] \in 1..Len(writable) BY <2>3, <3>2
    <3>5. IsInjective(writable') /\ Range(writable') = Range(writable) \ {v}
      BY <2>3, <3>2, <3>3, <3>4, RemoveAtDistinct
    <3> QED BY <2>7, <3>3, <3>5
  <2> QED BY <1>7, <2>8, <2>9
\* unregister_volume and set_volume_unavailable go on to look at the list, unless there are
\* copies enough.
<1>8. ASSUME Detach(t) \/ Evict(t) PROVE SerialOK'
  <2>1. PICK v : v = job[t].vid BY Zenon
  <2>2. pc[t] \in {"detach", "evict"} /\ Off(t) BY <1>8, DetachFacts, EvictFacts
  <2>3. oversize' = oversize BY <1>8, Zenon DEF Detach, Evict
  <2>4. Settled BY <2>2, SettledBefore
  <2>5. writable' = writable /\ died' = died /\ SameBut(v) /\ Only(t) BY <2>1, <2>2 DEF Off, Untouched
  <2>6. Sound' /\ \A w \in Range(writable') : w # v => Good(w)'
    BY <2>3, <2>4, <2>5 DEF Settled, Sound, Good, SameBut
  <2>7. v \in Range(writable) => v \in DOMAIN locations' /\ v \notin oversize' BY <2>3, <2>4, <2>5 DEF Settled, Good, SameBut
  <2>8. Moves(t) BY <2>5 DEF Only, Moves
  <2>9. CASE Stays(t, pc'[t]) /\ pc'[t] \in {"ensure", "find"}
    <3>1. job'[t] = job[t] BY <2>9 DEF Stays
    <3>2. Knows(t)' BY SMTT(30), <2>1, <2>5, <2>7, <2>9, <3>1 DEF Knows, KnowsOf
    <3>3. \A w \in Range(writable') : Good(w)' \/ Mends(t, w)' BY <2>1, <2>6, <2>9, <3>1 DEF Mends
    <3> QED BY <2>6, <2>8, <3>2, <3>3, SerialAfter DEF SerialAt
  <2>10. CASE Turns(t, pending[t]) /\ (locations' = locations \/ Len(locations'[v]) >= CopyCount)
    <3>1. v \in Range(writable) => Good(v)' BY <2>3, <2>4, <2>7, <2>10 DEF Settled, Good
    <3>2. Settled' BY <2>5, <2>6, <3>1 DEF Settled
    <3>3. pc'[t] \notin Knowing
      <4>1. \A c \in pending[t] : c.op \in Queued BY PendingOwned
      <4>2. \A op \in Queued : FirstPc(op) \notin Knowing BY DEF Queued, FirstPc, Knowing
      <4>3. "idle" \notin Knowing BY DEF Knowing
      <4> QED BY <2>10, <4>1, <4>2, <4>3, Zenon DEF Turns
    <3> QED BY <2>8, <3>2, <3>3, SettledAfter
  <2> QED BY <2>1, <2>2, <2>9, <2>10, Zenon DEF Off
\* unregister_volume drops entries without nodes, of which none is on the list.
<1>9. ASSUME Retain(t) PROVE SerialOK'
  <2>1. pc[t] = "retain" /\ writable' = writable /\ oversize' = oversize /\ died' = died
    BY <1>9, Zenon DEF Retain, nodeVars
  <2>2. Keeps BY <2>1, StepCalm DEF Calm, Quiet, Acting
  <2>3. Settled BY <2>1, SettledBefore
  <2>4. ASSUME NEW v, Good(v) PROVE Good(v)'
    <3>1. locations[v] # <<>> BY <2>4, LayoutAssumption DEF Good
    <3> QED BY <2>1, <2>2, <2>4, <3>1 DEF Good, Keeps
  <2>5. Settled' BY <2>1, <2>3, <2>4 DEF Settled, Sound
  <2>6. Return(t) \/ Goto(t, "retain") BY <1>9, Zenon DEF Retain
  <2>7. Moves(t) /\ pc'[t] \notin Knowing BY <2>6, ReturnMoves, GotoMoves DEF Knowing
  <2> QED BY <2>5, <2>7, SettledAfter
\* An assign finds an index that is in the list, and an entry that has a node.
<1>10. ASSUME PickLen(t) \/ PickVid(t) \/ PickNode(t) PROVE SerialOK'
  <2>1. pc[t] \in {"pickLen", "pickVid", "pickNode"} /\ writable' = writable /\ locations' = locations /\ oversize' = oversize
    BY <1>10, Zenon DEF PickLen, PickVid, PickNode, layoutVars
  <2>2. Settled BY <2>1, SettledBefore
  <2>3. Len(writable) \in Nat /\ DOMAIN writable = 1..Len(writable) /\ (writable # <<>> => Len(writable) # 0)
    BY DEF TypeInv
  <2>4. ASSUME died' = died, Moves(t), Knows(t)' PROVE SerialOK'
    <3>1. SameLayout BY <2>1, <2>4 DEF SameLayout
    <3>2. Settled' BY <2>2, <3>1, SettledStays
    <3> QED BY <2>4, <3>2, SerialAfter DEF SerialAt, Settled
  <2>5. CASE PickLen(t)
    <3>1. pc[t] = "pickLen" /\ GotoAt(t, "pickVid", Len(writable)) /\ died' = died
      BY <2>5, Zenon DEF PickLen, nodeVars
    <3>2. writable # <<>> BY <3>1 DEF SerialAt, Knows, KnowsOf
    <3>3. Moves(t) /\ pc'[t] = "pickVid" /\ at'[t] = Len(writable) BY <3>1, GotoAtMoves
    <3>4. Knows(t)' BY <2>1, <3>2, <3>3 DEF Knows, KnowsOf
    <3> QED BY <2>4, <3>1, <3>3, <3>4
  <2>6. CASE PickVid(t)
    <3>1. pc[t] = "pickVid" BY <2>6, Zenon DEF PickVid
    <3>2. at[t] = Len(writable) /\ writable # <<>> BY <3>1 DEF SerialAt, Knows, KnowsOf
    <3>3. ~(at[t] = 0) /\ ~(at[t] > Len(writable)) BY <2>3, <3>2
    <3>4. PICK i \in DOMAIN writable :
            Begin(t, "pickNode", Call("pick", "none", writable[i], ShortInfo), {}) /\ died' = died
      BY <2>6, <3>3, Zenon DEF PickVid, nodeVars
    <3>5. PICK c : c = Call("pick", "none", writable[i], ShortInfo) BY Zenon
    <3>6. c.vid = writable[i] BY <3>5 DEF Call
    <3>7. pc' = [pc EXCEPT ![t] = "pickNode"] /\ setting' = setting /\ job' = [job EXCEPT ![t] = c]
      BY <3>4, <3>5, Zenon DEF Begin
    <3>8. Moves(t) /\ pc'[t] = "pickNode" /\ job'[t] = c BY <3>7 DEF ControlInv, Moves
    <3>9. writable[i] \in Range(writable) BY DEF Range
    <3>10. Knows(t)' BY <2>1, <3>6, <3>8, <3>9 DEF Knows, KnowsOf
    <3> QED BY <2>4, <3>4, <3>8, <3>10
  <2>7. CASE PickNode(t)
    <3>1. pc[t] = "pickNode" BY <2>7, Zenon DEF PickNode
    <3>2. Good(job[t].vid) BY <2>2, <3>1 DEF SerialAt, Knows, KnowsOf, Settled
    <3>3. locations[job[t].vid] # <<>> BY <3>2, LayoutAssumption DEF Good
    <3>4. Return(t) /\ died' = died BY <2>7, <3>3, Zenon DEF PickNode, nodeVars
    <3>5. Moves(t) /\ pc'[t] \notin Knowing BY <3>4, ReturnMoves
    <3>6. Knows(t)' BY <3>5 DEF Knows, KnowsOf, Knowing
    <3> QED BY <2>4, <3>4, <3>5, <3>6
  <2> QED BY <1>10, <2>5, <2>6, <2>7
<1> QED BY <1>1, <1>2, <1>3, <1>4, <1>5, <1>6, <1>7, <1>8, <1>9, <1>10, Zenon DEF Step

\* Every call that begins.
LEMMA CallsSerial ==
  ASSUME ControlInv, SerialInv, setting.active = 1, Calls
  PROVE  SerialOK'
<1>1. ControlInv /\ SerialOK BY DEF SerialInv
<1>2. SameLayout
  BY Zenon DEF Calls, Connect, StreamEnds, FullHeartbeat, NewVolumeDelta, DeletedVolumeDelta, Vacuum, Grow, Pick,
               PickDc, layoutVars, nodeVars, SameLayout
<1>3. ASSUME NEW t, NEW calls, Start(t), Proceed(t, calls), \A d \in calls : d.op \in Queued PROVE SerialOK'
  <2>1. t \in Tasks BY <1>1, <1>3, StartsSettled
  <2>2. Moves(t) /\ pc'[t] \notin Knowing BY <1>1, <1>3, <2>1, ProceedMoves
  <2> QED BY <1>1, <1>2, <1>3, <2>2, CallSerial
<1>4. \A op \in Queued : \A n, v, i : Call(op, n, v, i).op \in Queued BY DEF Call
<1>5. {"register", "unregister", "unavailable", "unlink", "grow"} = Queued BY DEF Queued
<1>6. ASSUME NEW n \in Nodes, NEW actual, FullHeartbeat(n, actual) PROVE SerialOK'
  <2>1. PICK calls : calls = {Call("register", n, v, actual[v]) : v \in DOMAIN actual \ DOMAIN volumes[n]}
                             \cup {Call("unregister", n, v, volumes[n][v]) : v \in DOMAIN volumes[n] \ DOMAIN actual}
    BY Zenon
  <2>2. Start(n) /\ Proceed(n, calls) BY <1>6, <2>1, Zenon DEF FullHeartbeat
  <2>3. \A d \in calls : d.op \in Queued BY <1>4, <1>5, <2>1
  <2> QED BY <1>3, <2>2, <2>3
<1>7. ASSUME NEW n \in Nodes, NEW v, NewVolumeDelta(n, v) \/ DeletedVolumeDelta(n, v) PROVE SerialOK'
  <2>1. PICK op \in Queued : Start(n) /\ Proceed(n, {Call(op, n, v, ShortInfo)})
    BY <1>5, <1>7, Zenon DEF NewVolumeDelta, DeletedVolumeDelta
  <2>2. PICK calls : calls = {Call(op, n, v, ShortInfo)} BY Zenon
  <2>3. \A d \in calls : d.op \in Queued BY <1>4, <2>2
  <2> QED BY <1>3, <2>1, <2>2, <2>3
<1>8. ASSUME NEW n \in Nodes, StreamEnds(n) PROVE SerialOK'
  <2>1. PICK calls : calls = {Call("unavailable", n, v, ShortInfo) : v \in DOMAIN volumes[n]}
                             \cup {Call("unlink", n, "none", ShortInfo)}
    BY Zenon
  <2>2. Start(n) /\ Proceed(n, calls) BY <1>8, <2>1, Zenon DEF StreamEnds
  <2>3. \A d \in calls : d.op \in Queued BY <1>4, <1>5, <2>1
  <2> QED BY <1>3, <2>2, <2>3
<1>9. ASSUME NEW v, NEW ns, Grow(v, ns) PROVE SerialOK'
  <2>1. PICK calls : calls = {Call("grow", n, v, ShortInfo) : n \in ns} BY Zenon
  <2>2. Start("grow") /\ Proceed("grow", calls) BY <1>9, <2>1, Zenon DEF Grow
  <2>3. \A d \in calls : d.op \in Queued BY <1>4, <1>5, <2>1
  <2> QED BY <1>3, <2>2, <2>3
<1>10. ASSUME NEW t, NEW p \in {"take", "scan", "pickLen"}, NEW c, Start(t), Begin(t, p, c, {}),
              p = "pickLen" => writable # <<>>
       PROVE  SerialOK'
  <2>1. t \in Tasks /\ Alone(t) /\ Settled BY <1>1, <1>10, StartsSettled
  <2>2. pc' = [pc EXCEPT ![t] = p] /\ setting' = setting BY <1>10, Zenon DEF Begin
  <2>3. Moves(t) /\ pc'[t] = p BY SMTT(30), <1>1, <2>1, <2>2 DEF ControlInv, Moves
  <2>4. Knows(t)' BY <1>2, <1>10, <2>3 DEF Knows, KnowsOf, SameLayout
  <2>5. Settled' BY <1>2, <2>1, SettledStays
  <2> QED BY <2>1, <2>3, <2>4, <2>5, SerialAfter DEF Settled, SerialAt
<1>11. ASSUME NEW v, Vacuum(v) PROVE SerialOK' BY <1>10, <1>11, Zenon DEF Vacuum
<1>12. ASSUME Pick \/ PickDc PROVE SerialOK' BY <1>10, <1>12 DEF Pick, PickDc
<1>13. ASSUME NEW n \in Nodes, Connect(n) PROVE SerialOK'
  <2>1. pc' = pc /\ job' = job /\ at' = at BY <1>13, Zenon DEF Connect, taskVars, locals
  <2> QED BY <1>1, <1>2, <2>1, SameSerial
<1> QED BY <1>6, <1>7, <1>8, <1>9, <1>11, <1>12, <1>13, Zenon DEF Calls

\* No step changes the setting.
LEMMA SettingStays == Next => setting' = setting
<1>1. ASSUME NEW t, NEW p, NEW i, NEW q, Goto(t, p) \/ GotoAt(t, p, i) \/ GotoThen(t, p, q) PROVE setting' = setting
  BY <1>1, Zenon DEF Goto, GotoAt, GotoThen
<1>2. ASSUME NEW t, NEW p, NEW c, NEW calls, Begin(t, p, c, calls) PROVE setting' = setting BY <1>2, Zenon DEF Begin
<1>3. ASSUME NEW t, NEW calls, Proceed(t, calls) PROVE setting' = setting BY <1>2, <1>3, Zenon DEF Proceed
<1>4. ASSUME NEW t, Return(t) \/ Panic(t) PROVE setting' = setting BY <1>2, <1>3, <1>4, Zenon DEF Return, Panic
<1>5. ASSUME NEW t, NEW p, Resume(t, p) PROVE setting' = setting BY <1>1, <1>4, <1>5, Zenon DEF Resume
<1>6. ASSUME NEW t, \/ GrowAdd(t) \/ GrowFails(t) \/ Enter(t) \/ Get(t) \/ Check(t) \/ MarkReadonly(t)
                    \/ RememberOversized(t) \/ EnsureCorrectWritable(t) \/ TestListed(t) \/ Push(t)
      PROVE  setting' = setting
  BY <1>1, <1>3, <1>4, <1>5, <1>6, Zenon DEF GrowAdd, GrowFails, Enter, Get, Check, MarkReadonly, RememberOversized,
     EnsureCorrectWritable, TestListed, Push
<1>7. ASSUME NEW t, \/ Find(t) \/ RemoveFromList(t) \/ Detach(t) \/ Retain(t) \/ Evict(t) \/ Unlink(t)
      PROVE  setting' = setting
  BY <1>1, <1>4, <1>5, <1>7, Zenon DEF Find, RemoveFromList, Detach, Retain, Evict, Unlink
<1>8. ASSUME NEW t, \/ VacuumCompact(t) \/ VacuumFails(t) \/ VacuumCommitted(t)
                    \/ PickLen(t) \/ PickVid(t) \/ PickNode(t) \/ PickScan(t)
      PROVE  setting' = setting
  BY <1>1, <1>2, <1>4, <1>8, Zenon DEF VacuumCompact, VacuumFails, VacuumCommitted, PickLen, PickVid, PickNode, PickScan
<1>9. Calls => setting' = setting
  BY <1>2, <1>3, Zenon DEF Calls, Connect, StreamEnds, FullHeartbeat, NewVolumeDelta, DeletedVolumeDelta, Vacuum, Grow,
     Pick, PickDc
<1> QED BY <1>6, <1>7, <1>8, <1>9, Zenon DEF Next, Step

\* With one task at a time every step finds the list as it needs it.
THEOREM SerialInvHolds == Spec => []SerialInv
<1>1. Init => SerialInv
  <2> SUFFICES ASSUME Init PROVE SerialOK BY DEF SerialInv
  <2>1. writable = <<>> /\ died = {} /\ pc = [t \in Tasks |-> "idle"] BY Zenon DEF Init
  <2>2. Range(<<>>) = {} /\ IsInjective(<<>>) BY DEF Range, IsInjective
  <2>3. \A t \in Tasks : Knows(t) BY <2>1, OutsideKnows
  <2> QED BY <2>1, <2>2, <2>3 DEF SerialOK, Sound
<1>2. Inv /\ SerialInv /\ [Next]_vars => SerialInv'
  <2> SUFFICES ASSUME Inv, SerialInv, [Next]_vars, setting'.active = 1 PROVE SerialOK' BY DEF SerialInv
  <2>1. setting' = setting BY SettingStays, Zenon DEF vars
  <2>2. CASE Calls BY <2>1, <2>2, CallsSerial DEF Inv
  <2>3. ASSUME NEW t \in Tasks, Step(t) PROVE SerialOK' BY <2>1, <2>3, StepSerial, EntryFound DEF Inv
  <2>4. CASE UNCHANGED vars
    <3>1. SameLayout /\ pc' = pc /\ job' = job /\ at' = at
      BY <2>4, Zenon DEF vars, layoutVars, nodeVars, taskVars, locals, SameLayout
    <3> QED BY <2>1, <3>1, SameSerial DEF SerialInv
  <2> QED BY <2>2, <2>3, <2>4 DEF Next
<1> QED BY <1>1, <1>2, InvHolds, PTL DEF Spec

\* Between calls that do not overlap, writable_volumes has no duplicate and only volumes
\* with all their copies and none that is too large: what a call takes off an entry or
\* finds too large it also takes off the list.
THEOREM WritableSoundHolds == Spec => []WritableSound
<1>1. SerialInv => WritableSound
  <2> SUFFICES ASSUME SerialOK, Busy = {} PROVE Settled BY DEF SerialInv, WritableSound, Settled, Sound, Good
  <2>1. \A u \in Tasks : pc[u] \in {"idle", "available"} BY DEF Busy, Active
  <2> QED BY <2>1, OutsideKnows DEF SerialOK, Settled
<1> QED BY <1>1, SerialInvHolds, PTL

\* Calls that do not overlap never panic: the entry of register_volume is there, the index
\* that remove_from_writable uses is in the list, and so is the one an assign draws.
THEOREM NoPanicHolds == Spec => []NoPanic
<1>1. SerialInv => NoPanic BY DEF SerialInv, SerialOK, Sound, NoPanic
<1> QED BY <1>1, SerialInvHolds, PTL
=============================================================================
