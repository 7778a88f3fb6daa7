-------------------------- MODULE LayoutTasksProofs --------------------------
(***************************************************************************)
(* The tasks inside the layout, for any volumes, nodes, settings and       *)
(* placement: what a task can be at, how it goes from step to step, and    *)
(* what its steps leave of the agreement between what is listed, what is   *)
(* reported and what is yet to do.                                         *)
(***************************************************************************)
EXTENDS LayoutTasks, TLAPS

(***************************************************************************)
(* Lists of distinct elements                                              *)
(***************************************************************************)
\* Vec::remove moves what is behind the position.
LEMMA RemoveAtElements ==
  ASSUME NEW S, NEW s \in Seq(S), NEW k \in 1..Len(s)
  PROVE  /\ RemoveAt(s, k) \in Seq(S) /\ Len(RemoveAt(s, k)) = Len(s) - 1
         /\ \A j \in 1..(Len(s) - 1) : RemoveAt(s, k)[j] = IF j < k THEN s[j] ELSE s[j + 1]
<1>1. Len(s) \in Nat /\ \A j \in 1..Len(s) : s[j] \in S OBVIOUS
<1>2. PICK m \in Nat : m = Len(s) - 1 BY <1>1
<1>3. PICK r : r = [j \in 1..m |-> IF j < k THEN s[j] ELSE s[j + 1]] BY Zenon
<1>4. r \in [1..m -> S] BY <1>1, <1>2, <1>3
<1>5. r \in Seq(S) /\ Len(r) = m BY <1>4
<1>6. RemoveAt(s, k) = r BY <1>2, <1>3, Zenon DEF RemoveAt
<1> QED BY <1>2, <1>3, <1>5, <1>6

\* ... and takes just the element at the position out of a list of distinct ones.
LEMMA RemoveAtDistinct ==
  ASSUME NEW S, NEW s \in Seq(S), IsInjective(s), NEW k \in 1..Len(s)
  PROVE  /\ RemoveAt(s, k) \in Seq(S) /\ IsInjective(RemoveAt(s, k))
         /\ Range(RemoveAt(s, k)) = Range(s) \ {s[k]}
<1>1. PICK r : r = RemoveAt(s, k) OBVIOUS
<1>2. /\ r \in Seq(S) /\ Len(r) = Len(s) - 1
      /\ \A j \in 1..(Len(s) - 1) : r[j] = IF j < k THEN s[j] ELSE s[j + 1]
  BY <1>1, RemoveAtElements, Zenon
<1>3. Len(s) \in Nat /\ DOMAIN s = 1..Len(s) /\ DOMAIN r = 1..(Len(s) - 1) BY <1>2
<1>4. \A i, j \in 1..Len(s) : s[i] = s[j] => i = j BY <1>3 DEF IsInjective
<1>5. \A j \in DOMAIN r : \E i \in 1..Len(s) : i # k /\ r[j] = s[i] /\ i = IF j < k THEN j ELSE j + 1
  BY <1>2, <1>3
<1>6. \A i, j \in DOMAIN r : r[i] = r[j] => i = j BY <1>3, <1>4, <1>5
<1>7. \A i \in 1..Len(s) : i # k => \E j \in DOMAIN r : r[j] = s[i]
  <2> SUFFICES ASSUME NEW i \in 1..Len(s), i # k PROVE \E j \in DOMAIN r : r[j] = s[i] OBVIOUS
  <2>1. CASE i < k BY <1>2, <1>3, <2>1
  <2>2. CASE i > k
    <3>1. i - 1 \in DOMAIN r /\ r[i - 1] = s[i] BY <1>2, <1>3, <2>2
    <3> QED BY <3>1
  <2> QED BY <1>3, <2>1, <2>2
<1>8. Range(r) = Range(s) \ {s[k]}
  <2>1. \A x \in Range(r) : x \in Range(s) /\ x # s[k] BY <1>3, <1>4, <1>5 DEF Range
  <2>2. \A x \in Range(s) : x # s[k] => x \in Range(r) BY <1>3, <1>7 DEF Range
  <2> QED BY <2>1, <2>2
<1> QED BY <1>1, <1>2, <1>6, <1>8 DEF IsInjective

\* The element that unregister_volume looks for.
LEMMA RemoveFirstDistinct ==
  ASSUME NEW S, NEW s \in Seq(S), IsInjective(s), NEW e
  PROVE  /\ RemoveFirst(s, e) \in Seq(S) /\ IsInjective(RemoveFirst(s, e))
         /\ Range(RemoveFirst(s, e)) = Range(s) \ {e}
<1>1. Len(s) \in Nat /\ DOMAIN s = 1..Len(s) OBVIOUS
<1>2. CASE Contains(s, e)
  <2>1. PICK k \in 1..Len(s) : s[k] = e BY <1>2 DEF Contains
  <2>2. {i \in 1..Len(s) : s[i] = e} = {k} BY <1>1, <2>1 DEF IsInjective
  <2>3. Min({k}) = k BY <1>1 DEF Min
  <2>4. RemoveFirst(s, e) = RemoveAt(s, k) BY <1>2, <2>2, <2>3, Zenon DEF RemoveFirst
  <2> QED BY <2>1, <2>4, RemoveAtDistinct
<1>3. CASE ~Contains(s, e)
  <2>1. RemoveFirst(s, e) = s BY <1>3, Zenon DEF RemoveFirst
  <2>2. e \notin Range(s) BY <1>1, <1>3 DEF Contains, Range
  <2> QED BY <2>1, <2>2
<1> QED BY <1>2, <1>3

\* The element that set_volume_unavailable does not retain.
LEMMA RemoveAllDistinct ==
  ASSUME NEW S, NEW s \in Seq(S), IsInjective(s), NEW e
  PROVE  /\ RemoveAll(s, e) \in Seq(S) /\ IsInjective(RemoveAll(s, e))
         /\ Range(RemoveAll(s, e)) = Range(s) \ {e}
<1>1. Len(s) \in Nat /\ DOMAIN s = 1..Len(s) /\ \A i \in 1..Len(s) : s[i] \in S OBVIOUS
<1>2. PICK keep : keep = {i \in 1..Len(s) : s[i] # e} BY Zenon
<1> DEFINE F == UNION {[1..m -> keep] : m \in 0..Len(s)}
           P(f) == Range(f) = keep /\ \A i, j \in DOMAIN f : i < j => f[i] < f[j]
<1>3. \E f \in F : P(f)
  <2>1. CASE e \notin Range(s)
    <3>1. keep = 1..Len(s) BY <1>1, <1>2, <2>1 DEF Range
    <3>2. PICK f : f = [k \in 1..Len(s) |-> k] BY Zenon
    <3>3. f \in [1..Len(s) -> keep] /\ Range(f) = keep BY <3>1, <3>2 DEF Range
    <3>4. \A i, j \in DOMAIN f : i < j => f[i] < f[j] BY <3>2
    <3>5. f \in F BY <1>1, <3>3
    <3> QED BY <3>3, <3>4, <3>5
  <2>2. CASE e \in Range(s)
    <3>1. PICK p \in 1..Len(s) : s[p] = e BY <1>1, <2>2 DEF Range
    <3>2. keep = 1..Len(s) \ {p} BY <1>1, <1>2, <3>1 DEF IsInjective
    <3> Len(s) - 1 \in 0..Len(s) BY <1>1, <3>1
    <3>3. PICK m \in 0..Len(s) : m = Len(s) - 1 BY Zenon
    <3>4. PICK f : f = [k \in 1..m |-> IF k < p THEN k ELSE k + 1] BY Zenon
    <3>5. DOMAIN f = 1..m /\ \A k \in 1..m : f[k] = IF k < p THEN k ELSE k + 1 BY <3>4
    <3>6. f \in [1..m -> keep] BY <1>1, <3>1, <3>2, <3>3, <3>4
    <3>7. \A i \in keep : \E k \in 1..m : f[k] = i
      <4> SUFFICES ASSUME NEW i \in keep PROVE \E k \in 1..m : f[k] = i OBVIOUS
      <4>1. CASE i < p BY <1>1, <3>1, <3>2, <3>3, <3>5, <4>1
      <4>2. CASE i > p
        <5>1. i - 1 \in 1..m /\ f[i - 1] = i BY <1>1, <3>1, <3>2, <3>3, <3>5, <4>2
        <5> QED BY <5>1
      <4> QED BY <1>1, <3>1, <3>2, <4>1, <4>2
    <3>8. Range(f) = keep BY <3>5, <3>6, <3>7 DEF Range
    <3>9. \A i, j \in DOMAIN f : i < j => f[i] < f[j] BY <3>1, <3>3, <3>5
    <3>10. f \in F BY <3>6
    <3> QED BY <3>8, <3>9, <3>10
  <2> QED BY <2>1, <2>2
<1> DEFINE o == CHOOSE f \in F : P(f)
<1>5. PICK r : r = [k \in DOMAIN o |-> s[o[k]]] BY Zenon
<1>6. RemoveAll(s, e) = r
  <2>1. RemoveAll(s, e) = RetainAt(s, keep) BY <1>2, Zenon DEF RemoveAll
  <2>2. RetainAt(s, keep) = [k \in DOMAIN o |-> s[o[k]]] BY Zenon DEF RetainAt
  <2> QED BY <1>5, <2>1, <2>2, Zenon
<1>7. o \in F /\ P(o) BY <1>3, Zenon
<1> HIDE DEF o
<1>8. PICK m \in 0..Len(s) : o \in [1..m -> keep] BY <1>7
<1> HIDE DEF F
<1>9. /\ DOMAIN o = 1..m /\ DOMAIN r = 1..m /\ m \in Nat
      /\ \A k \in 1..m : o[k] \in 1..Len(s) /\ s[o[k]] # e /\ r[k] = s[o[k]]
  BY <1>1, <1>2, <1>5, <1>8
<1>10. r \in Seq(S)
  <2>1. r \in [1..m -> S] BY <1>1, <1>5, <1>9
  <2> QED BY <1>9, <2>1
<1>11. \A i, j \in 1..m : o[i] = o[j] => i = j BY SMTT(30), <1>7, <1>9
<1>12. IsInjective(r) BY <1>1, <1>9, <1>11 DEF IsInjective
<1>13. \A i \in 1..Len(s) : s[i] # e => \E k \in 1..m : o[k] = i BY <1>2, <1>7, <1>9 DEF Range
<1>14. Range(r) = Range(s) \ {e}
  <2>1. \A x \in Range(r) : x \in Range(s) /\ x # e BY <1>1, <1>9 DEF Range
  <2>2. ASSUME NEW i \in 1..Len(s), s[i] # e PROVE s[i] \in Range(r)
    <3>1. PICK k \in 1..m : o[k] = i BY <1>13, <2>2
    <3>2. k \in DOMAIN r /\ r[k] = s[i] BY <1>9, <3>1
    <3> QED BY <3>2 DEF Range
  <2>3. \A x \in Range(s) : x # e => x \in Range(r) BY <1>1, <2>2 DEF Range
  <2> QED BY <2>1, <2>3
<1> QED BY <1>6, <1>10, <1>12, <1>14

\* A node that is not there yet.
LEMMA AppendDistinct ==
  ASSUME NEW S, NEW s \in Seq(S), IsInjective(s), NEW e \in S, e \notin Range(s)
  PROVE  /\ Append(s, e) \in Seq(S) /\ IsInjective(Append(s, e))
         /\ Range(Append(s, e)) = Range(s) \cup {e}
<1>1. Len(s) \in Nat /\ DOMAIN s = 1..Len(s) OBVIOUS
<1>2. PICK r : r = Append(s, e) BY Zenon
<1>3. /\ r \in Seq(S) /\ DOMAIN r = 1..(Len(s) + 1) /\ r[Len(s) + 1] = e
      /\ \A i \in 1..Len(s) : r[i] = s[i]
  BY <1>1, <1>2
<1>4. \A i \in 1..Len(s) : s[i] # e BY <1>1 DEF Range
<1>5. IsInjective(r) BY <1>1, <1>3, <1>4 DEF IsInjective
<1>6. Range(r) = Range(s) \cup {e} BY <1>1, <1>3 DEF Range
<1> QED BY <1>2, <1>3, <1>5, <1>6

(***************************************************************************)
(* The invariant                                                           *)
(***************************************************************************)
\* The calls a task can be in at p.
OpsAt(p) ==
  CASE p = "idle" -> {"none"}
    [] p = "add" -> {"grow"}
    [] p \in {"enter", "get", "check", "size", "markReadonly", "clearReadonly"} -> {"register", "grow"}
    [] p \in {"ensure", "contains", "push"} -> {"register", "grow", "unregister"}
    [] p \in {"find", "remove"} -> {"register", "grow", "unregister", "unavailable", "vacuum"}
    [] p \in {"detach", "retain"} -> {"unregister"}
    [] p = "evict" -> {"unavailable"}
    [] p = "unlink" -> {"unlink"}
    [] p \in {"take", "compact", "available"} -> {"vacuum"}
    [] p \in {"pickLen", "pickVid", "pickNode"} -> {"pick"}
    [] p = "scan" -> {"pickDc"}
    [] OTHER -> {}

\* A heartbeat stream makes calls for its own node.
Owned(t, c) ==
  /\ c.op \in {"register", "unregister", "unavailable"} => t \in Nodes /\ c.node = t /\ c.vid \in Vids
  /\ c.op = "unlink" => t \in Nodes
  /\ c.op = "grow" => t = "grow" /\ c.node \in Nodes /\ c.vid \in Vids
  /\ c.op = "vacuum" => t = "vacuum" /\ c.vid \in Vids
  /\ c.op \in {"pick", "pickDc"} => t = c.op
Queued == {"register", "grow", "unregister", "unavailable", "unlink"}

\* Where a call of kind op can resume.
Resumes(op, p) ==
  \/ p = "return"
  \/ p \in {"markReadonly", "clearReadonly", "retain", "compact"} /\ op \in OpsAt(p)

TaskOK(t) ==
  /\ Owned(t, job[t]) /\ job[t].op \in OpsAt(pc[t])
  /\ Resumes(job[t].op, then[t])
  /\ \A c \in pending[t] : Owned(t, c) /\ c.op \in Queued
  /\ pc[t] = "idle" => pending[t] = {}

ControlInv ==
  /\ setting \in Settings
  /\ DOMAIN pc = Tasks /\ DOMAIN job = Tasks /\ DOMAIN at = Tasks /\ DOMAIN then = Tasks
  /\ DOMAIN pending = Tasks
  /\ \A t \in Tasks : TaskOK(t)

EntriesDistinct == \A v \in DOMAIN locations : IsInjective(locations[v])

TypeInv ==
  /\ writable \in Seq(Vids)
  /\ DOMAIN locations \subseteq Vids /\ \A v \in DOMAIN locations : locations[v] \in Seq(Nodes)
  /\ DOMAIN volumes = Nodes /\ \A n \in Nodes : DOMAIN volumes[n] \subseteq Vids
  /\ online \subseteq Nodes /\ linked \subseteq Nodes

(***************************************************************************)
(* Control                                                                 *)
(***************************************************************************)
\* What a step of t does to the tasks: nothing to the others; t goes on in its call
\* at p, or begins one of `calls`, or is through.
Only(t) ==
  /\ setting' = setting
  /\ \A u \in Tasks \ {t} : pc'[u] = pc[u] /\ job'[u] = job[u] /\ pending'[u] = pending[u]
Stays(t, p) == pc'[t] = p /\ job'[t] = job[t] /\ pending'[t] = pending[t]
Turns(t, calls) ==
  \/ calls = {} /\ pc'[t] = "idle" /\ job'[t] = NoCall /\ pending'[t] = {}
  \/ \E c \in calls : pc'[t] = FirstPc(c.op) /\ job'[t] = c /\ pending'[t] = calls \ {c}

\* Goto, GotoAt and GotoThen keep a task in order.
LEMMA GotoKeeps ==
  ASSUME ControlInv, NEW t \in Tasks, NEW p, p # "idle", job[t].op \in OpsAt(p), Goto(t, p)
  PROVE  ControlInv' /\ Only(t) /\ Stays(t, p)
<1>1. /\ pc' = [pc EXCEPT ![t] = p] /\ setting' = setting /\ job' = job /\ pending' = pending
      /\ at' = at /\ then' = then
  BY Zenon DEF Goto, locals
<1>2. pc'[t] = p /\ DOMAIN pc' = Tasks /\ \A u \in Tasks \ {t} : pc'[u] = pc[u]
  BY <1>1 DEF ControlInv
<1>3. TaskOK(t)' BY <1>1, <1>2 DEF ControlInv, TaskOK
<1>4. \A u \in Tasks \ {t} : TaskOK(u)' BY <1>1, <1>2 DEF ControlInv, TaskOK
<1> QED BY <1>1, <1>2, <1>3, <1>4 DEF ControlInv, Only, Stays

\* The same with a new list index.
LEMMA GotoAtKeeps ==
  ASSUME ControlInv, NEW t \in Tasks, NEW p, p # "idle", job[t].op \in OpsAt(p),
         NEW i, GotoAt(t, p, i)
  PROVE  ControlInv' /\ Only(t) /\ Stays(t, p) /\ at'[t] = i
<1>1. /\ pc' = [pc EXCEPT ![t] = p] /\ setting' = setting /\ job' = job /\ pending' = pending
      /\ at' = [at EXCEPT ![t] = i] /\ then' = then
  BY Zenon DEF GotoAt
<1>2. /\ pc'[t] = p /\ DOMAIN pc' = Tasks /\ at'[t] = i /\ DOMAIN at' = Tasks
      /\ \A u \in Tasks \ {t} : pc'[u] = pc[u] /\ at'[u] = at[u]
  BY <1>1 DEF ControlInv
<1>3. TaskOK(t)' BY <1>1, <1>2 DEF ControlInv, TaskOK
<1>4. \A u \in Tasks \ {t} : TaskOK(u)' BY <1>1, <1>2 DEF ControlInv, TaskOK
<1> QED BY <1>1, <1>2, <1>3, <1>4 DEF ControlInv, Only, Stays

\* The same with a new place to resume at.
LEMMA GotoThenKeeps ==
  ASSUME ControlInv, NEW t \in Tasks, NEW p, p # "idle", job[t].op \in OpsAt(p),
         NEW q, Resumes(job[t].op, q), GotoThen(t, p, q)
  PROVE  ControlInv' /\ Only(t) /\ Stays(t, p)
<1>1. /\ pc' = [pc EXCEPT ![t] = p] /\ setting' = setting /\ job' = job /\ pending' = pending
      /\ then' = [then EXCEPT ![t] = q] /\ at' = at
  BY Zenon DEF GotoThen
<1>2. /\ pc'[t] = p /\ DOMAIN pc' = Tasks /\ then'[t] = q /\ DOMAIN then' = Tasks
      /\ \A u \in Tasks \ {t} : pc'[u] = pc[u] /\ then'[u] = then[u]
  BY <1>1 DEF ControlInv
<1>3. TaskOK(t)' BY <1>1, <1>2 DEF ControlInv, TaskOK
<1>4. \A u \in Tasks \ {t} : TaskOK(u)' BY <1>1, <1>2 DEF ControlInv, TaskOK
<1> QED BY <1>1, <1>2, <1>3, <1>4 DEF ControlInv, Only, Stays

\* A task begins a call of its own.
LEMMA BeginKeeps ==
  ASSUME ControlInv, NEW t \in Tasks, NEW p, NEW c, NEW calls, Begin(t, p, c, calls),
         Owned(t, c), c.op \in OpsAt(p), p = "idle" => calls = {},
         \A d \in calls : Owned(t, d) /\ d.op \in Queued
  PROVE  ControlInv' /\ Only(t) /\ pc'[t] = p /\ job'[t] = c /\ pending'[t] = calls
<1>1. PICK z : z = 0 BY Zenon
<1>2. /\ pc' = [pc EXCEPT ![t] = p] /\ setting' = setting /\ job' = [job EXCEPT ![t] = c]
      /\ pending' = [pending EXCEPT ![t] = calls]
      /\ at' = [at EXCEPT ![t] = z] /\ then' = [then EXCEPT ![t] = "return"]
  BY <1>1, Zenon DEF Begin
<1>3. /\ pc'[t] = p /\ job'[t] = c /\ pending'[t] = calls /\ at'[t] = z /\ then'[t] = "return"
      /\ DOMAIN pc' = Tasks /\ DOMAIN job' = Tasks /\ DOMAIN pending' = Tasks
      /\ DOMAIN at' = Tasks /\ DOMAIN then' = Tasks
      /\ \A u \in Tasks \ {t} : /\ pc'[u] = pc[u] /\ job'[u] = job[u] /\ pending'[u] = pending[u]
                                /\ at'[u] = at[u] /\ then'[u] = then[u]
  BY <1>2 DEF ControlInv
<1>4. TaskOK(t)' BY <1>3 DEF TaskOK, Resumes
<1>5. \A u \in Tasks \ {t} : TaskOK(u)' BY <1>3 DEF ControlInv, TaskOK
<1> QED BY <1>2, <1>3, <1>4, <1>5 DEF ControlInv, Only

\* A task that is through holds no call.
LEMMA IdleOwned == \A t : Owned(t, NoCall) /\ NoCall.op \in OpsAt("idle")
BY DEF Owned, NoCall, Call, OpsAt

\* The first step of a call that a task queued.
LEMMA FirstStep == \A op \in Queued : op \in OpsAt(FirstPc(op)) /\ FirstPc(op) # "idle"
BY DEF Queued, FirstPc, OpsAt

\* Proceed takes one of the calls, whichever order they come in.
LEMMA ProceedKeeps ==
  ASSUME ControlInv, NEW t \in Tasks, NEW calls, Proceed(t, calls),
         \A d \in calls : Owned(t, d) /\ d.op \in Queued
  PROVE  ControlInv' /\ Only(t) /\ Turns(t, calls)
<1>1. CASE calls = {} /\ Begin(t, "idle", NoCall, {})
  <2>1. PICK none : none = {} BY Zenon
  <2>2. Begin(t, "idle", NoCall, none) BY <1>1, <2>1, Zenon
  <2>3. \A d \in none : Owned(t, d) /\ d.op \in Queued BY <2>1
  <2>4. ControlInv' /\ Only(t) /\ pc'[t] = "idle" /\ job'[t] = NoCall /\ pending'[t] = none
    BY <2>1, <2>2, <2>3, BeginKeeps, IdleOwned
  <2> QED BY <1>1, <2>1, <2>4, Zenon DEF Turns
<1>2. CASE \E c \in NextCalls(calls) : Begin(t, FirstPc(c.op), c, calls \ {c})
  <2>1. PICK c \in calls : Begin(t, FirstPc(c.op), c, calls \ {c}) BY <1>2, Zenon DEF NextCalls
  <2>2. Owned(t, c) /\ c.op \in OpsAt(FirstPc(c.op)) /\ FirstPc(c.op) # "idle" BY FirstStep, Zenon
  <2>3. \A d \in calls \ {c} : Owned(t, d) /\ d.op \in Queued OBVIOUS
  <2>4. /\ ControlInv' /\ Only(t)
        /\ pc'[t] = FirstPc(c.op) /\ job'[t] = c /\ pending'[t] = calls \ {c}
    BY <2>1, <2>2, <2>3, BeginKeeps
  <2> QED BY <2>4, Zenon DEF Turns
<1> QED BY <1>1, <1>2, Zenon DEF Proceed

\* A task that is through with a call makes the next of its own.
LEMMA ReturnKeeps ==
  ASSUME ControlInv, NEW t \in Tasks, Return(t)
  PROVE  ControlInv' /\ Only(t) /\ Turns(t, pending[t])
<1>1. \A d \in pending[t] : Owned(t, d) /\ d.op \in Queued BY DEF ControlInv, TaskOK
<1> QED BY <1>1, ProceedKeeps, Zenon DEF Return

\* A panic ends the task.
LEMMA PanicKeeps ==
  ASSUME ControlInv, NEW t \in Tasks, Panic(t)
  PROVE  /\ ControlInv' /\ Only(t) /\ Turns(t, {})
         /\ online' = online \ {t} /\ died' = died \cup {t} /\ volumes' = volumes /\ linked' = linked
<1>1. Proceed(t, {}) BY Zenon DEF Panic, Proceed
<1>2. \A d \in {} : Owned(t, d) /\ d.op \in Queued OBVIOUS
<1>3. ControlInv' /\ Only(t) /\ Turns(t, {}) BY <1>1, <1>2, ProceedKeeps, Zenon
<1> QED BY <1>3, Zenon DEF Panic

\* A task resumes where it stored that it would.
LEMMA ResumeKeeps ==
  ASSUME ControlInv, NEW t \in Tasks, NEW p, Resumes(job[t].op, p), Resume(t, p)
  PROVE  ControlInv' /\ Only(t) /\ (Turns(t, pending[t]) \/ (p # "return" /\ Stays(t, p)))
<1>1. CASE p = "return"
  <2>1. Return(t) BY <1>1, Zenon DEF Resume
  <2> QED BY <2>1, ReturnKeeps, Zenon
<1>2. CASE p # "return"
  <2>1. Goto(t, p) BY <1>2, Zenon DEF Resume
  <2>2. p # "idle" /\ job[t].op \in OpsAt(p) BY <1>2 DEF Resumes
  <2> QED BY <1>2, <2>1, <2>2, GotoKeeps
<1> QED BY <1>1, <1>2

(***************************************************************************)
(* Steps that leave the entries of `locations` alone                       *)
(***************************************************************************)
\* Steps at these places change what is listed, reported or linked.
Acting == {"add", "enter", "detach", "evict", "unlink"}

\* Entries are dropped only when they are empty.
Keeps ==
  /\ DOMAIN locations' \subseteq DOMAIN locations
  /\ \A v \in DOMAIN locations' : locations'[v] = locations[v]
  /\ \A v \in DOMAIN locations \ DOMAIN locations' : locations[v] = <<>>

\* Nothing is listed, reported or linked anew, and t comes to no such step but by
\* beginning another call.
Quiet(t) ==
  /\ Keeps /\ volumes' = volumes /\ linked' = linked
  /\ \/ /\ online' = online /\ died' = died
        /\ \/ Stays(t, pc'[t]) /\ pc'[t] \notin Acting \cup {"get"}
           \/ Turns(t, pending[t])
           \/ t = "pick" /\ pc'[t] = "pickNode"
     \/ Turns(t, {}) /\ online' = online \ {t} /\ died' = died \cup {t}

Calm(t) == ControlInv' /\ Only(t) /\ Quiet(t) /\ writable' \in Seq(Vids)

SameNodes == volumes' = volumes /\ linked' = linked /\ online' = online /\ died' = died

\* The ways in which such a step ends.
LEMMA CalmReturn ==
  ASSUME ControlInv, NEW t \in Tasks, Return(t), SameNodes, Keeps, writable' \in Seq(Vids)
  PROVE  Calm(t)
<1>1. ControlInv' /\ Only(t) /\ Turns(t, pending[t]) BY ReturnKeeps, Zenon
<1> QED BY <1>1, Zenon DEF Calm, Quiet, SameNodes

\* A step to another place of the call, if that is not an acting one, is calm.
LEMMA CalmStays ==
  ASSUME ControlInv', NEW t \in Tasks, NEW p, Only(t), Stays(t, p), p \notin Acting \cup {"get"},
         SameNodes, Keeps, writable' \in Seq(Vids)
  PROVE  Calm(t)
<1>1. pc'[t] = p BY DEF Stays
<1>2. Stays(t, pc'[t]) BY <1>1, Zenon
<1> QED BY <1>1, <1>2, Zenon DEF Calm, Quiet, SameNodes

\* So is one that resumes the call after the list has changed.
LEMMA CalmResume ==
  ASSUME ControlInv, NEW t \in Tasks, NEW p, Resumes(job[t].op, p), Resume(t, p),
         SameNodes, Keeps, writable' \in Seq(Vids)
  PROVE  Calm(t)
<1>1. ControlInv' /\ Only(t) /\ (Turns(t, pending[t]) \/ (p # "return" /\ Stays(t, p)))
  BY ResumeKeeps, Zenon
<1>2. CASE p # "return" /\ Stays(t, p)
  <2>1. p \notin Acting \cup {"get"} BY <1>2 DEF Resumes, Acting
  <2> QED BY <1>1, <1>2, <2>1, CalmStays, Zenon
<1>3. CASE Turns(t, pending[t]) BY <1>1, <1>3, Zenon DEF Calm, Quiet, SameNodes
<1> QED BY <1>1, <1>2, <1>3, Zenon

\* So is a panic.
LEMMA CalmPanic ==
  ASSUME ControlInv, NEW t \in Tasks, Panic(t), Keeps, writable' \in Seq(Vids)
  PROVE  Calm(t)
BY PanicKeeps, Zenon DEF Calm, Quiet

\* A step that leaves `locations` alone leaves every entry alone.
LEMMA SameKeeps == locations' = locations => Keeps
BY Zenon DEF Keeps

(***************************************************************************)
(* Steps that change the entries                                           *)
(***************************************************************************)
\* The volumes that node n is listed for.
Held(n) == {v \in DOMAIN locations : n \in Range(locations[v])}

\* A task makes calls of its own.
LEMMA PendingOwned ==
  ASSUME ControlInv, NEW t \in Tasks
  PROVE  Owned(t, job[t]) /\ job[t].op \in OpsAt(pc[t]) /\ \A c \in pending[t] : Owned(t, c) /\ c.op \in Queued
BY DEF ControlInv, TaskOK

\* What such a step does not touch.
Untouched == volumes' = volumes /\ linked' = linked /\ online' = online /\ died' = died /\ writable' = writable

SameBut(v) ==
  DOMAIN locations' = DOMAIN locations /\ \A w \in DOMAIN locations \ {v} : locations'[w] = locations[w]

\* An entry that loses a node.
LEMMA TakenOff ==
  ASSUME TypeInv, EntriesDistinct, Untouched, NEW v \in DOMAIN locations, NEW n \in Nodes,
         NEW new \in Seq(Nodes), IsInjective(new), Range(new) = Range(locations[v]) \ {n},
         SameBut(v), locations'[v] = new
  PROVE  /\ TypeInv' /\ EntriesDistinct'
         /\ \A m : Held(m)' = IF m = n THEN Held(m) \ {v} ELSE Held(m)
<1>1. TypeInv' BY DEF SameBut, TypeInv, Untouched
<1>2. EntriesDistinct' BY DEF SameBut, EntriesDistinct
<1>3. ASSUME NEW m PROVE Held(m)' = IF m = n THEN Held(m) \ {v} ELSE Held(m)
  <2>1. \A w : w \in DOMAIN locations' => (m \in Range(locations'[w]) <=> m \in Range(locations[w]) /\ ~(m = n /\ w = v))
    BY DEF SameBut
  <2> QED BY <2>1, Zenon DEF SameBut, Held
<1> QED BY <1>1, <1>2, <1>3

\* register_volume lists its node, and nothing else.
Listed(t) == \A n : Held(n)' = IF n = job[t].node THEN Held(n) \cup {job[t].vid} ELSE Held(n)

\* unregister_volume and set_volume_unavailable take off the node whose stream
\* makes the call, and nothing else.
Off(t) ==
  /\ t \in Nodes /\ ControlInv' /\ Only(t) /\ Untouched /\ TypeInv' /\ EntriesDistinct'
  /\ \/ Stays(t, pc'[t]) /\ pc'[t] \in {"ensure", "find"}
     \/ Turns(t, pending[t]) /\ (locations' = locations \/ Len(locations'[job[t].vid]) >= CopyCount)
  /\ SameBut(job[t].vid)
  /\ \A n : Held(n)' = IF n = t THEN Held(n) \ {job[t].vid} ELSE Held(n)

(***************************************************************************)
(* What is listed, what is reported, and what is yet to do                 *)
(***************************************************************************)
\* At most one task is inside the layout when only one may be, and growth only
\* where it is part of the behaviour.
AloneInv ==
  /\ setting.active = 1 => \A t, u \in Busy : t = u
  /\ "grow" \in Tasks /\ pc["grow"] # "idle" => "grow" \in setting.others

\* The volumes that node n has reported, and those it is yet to be listed for and to
\* be taken off, by its own stream or by growth.
Told(n) == IF n \in online THEN DOMAIN volumes[n] ELSE {}
VidsOf(calls, ops) == {c.vid : c \in {d \in calls : d.op \in ops}}
Registers == {"register"}
Deregisters == {"unregister", "unavailable"}
Enters(n) == (IF pc[n] = "enter" THEN {job[n].vid} ELSE {}) \cup VidsOf(pending[n], Registers)
Leaves(n) == (IF pc[n] \in {"detach", "evict"} THEN {job[n].vid} ELSE {}) \cup VidsOf(pending[n], Deregisters)
GrowEnters(n) ==
  IF "grow" \in Tasks /\ pc["grow"] = "enter" /\ job["grow"].node = n THEN {job["grow"].vid} ELSE {}

HasUnlink(calls) == \E c \in calls : c.op = "unlink"
Unlinks(n) == pc[n] = "unlink" \/ HasUnlink(pending[n])

\* A node off line is out of the tree once its stream is through, and the lists
\* differ from the reports just by what is yet to do.
NodeOK(n) ==
  /\ n \in linked => n \in online \/ Unlinks(n)
  /\ Enters(n) \cup GrowEnters(n) \subseteq Told(n) /\ Leaves(n) \cap Told(n) = {}
  /\ Told(n) \subseteq Held(n) \cup Enters(n) \cup GrowEnters(n) /\ Held(n) \subseteq Told(n) \cup Leaves(n)

EntriesOK == \A t \in Tasks : pc[t] = "get" => job[t].vid \in Held(job[t].node)

\* Growth works on nodes that are on line.
GrowOK == "grow" \in Tasks =>
  /\ pc["grow"] # "idle" => job["grow"].node \in online \cup died
  /\ \A c \in pending["grow"] : c.node \in online \cup died

Matches == (\A n \in Nodes \ died : NodeOK(n)) /\ EntriesOK /\ GrowOK
MatchInv == GrowsAlone => Matches

Inv == ControlInv /\ TypeInv /\ AloneInv /\ EntriesDistinct /\ MatchInv

-----------------------------------------------------------------------------
(* Who is inside *)

\* A task that starts when only one may be inside finds no other.
LEMMA StartsAlone ==
  ASSUME NEW t, Start(t), setting.active = 1
  PROVE  Busy = {}
BY DEF Start, HasRoom

\* The other tasks are not heartbeat streams.
LEMMA OtherNames == "grow" \notin Nodes /\ "vacuum" \notin Nodes /\ "pick" \notin Nodes /\ "pickDc" \notin Nodes
BY LayoutAssumption

\* A node that is not busy does nothing, and has nothing left to do.
LEMMA NotBusy ==
  ASSUME ControlInv, NEW n \in Nodes, n \notin Busy
  PROVE  pc[n] = "idle" /\ pending[n] = {} /\ ~Unlinks(n) /\ Enters(n) = {} /\ Leaves(n) = {}
<1>1. n \in Tasks BY DEF Tasks
<1>2. TaskOK(n) BY <1>1 DEF ControlInv
<1>3. pc[n] # "available"
  <2> SUFFICES ASSUME pc[n] = "available" PROVE FALSE OBVIOUS
  <2>1. job[n].op = "vacuum" BY <1>2 DEF TaskOK, OpsAt
  <2> QED BY <1>2, <2>1, OtherNames DEF TaskOK, Owned
<1>4. pc[n] = "idle" /\ pending[n] = {} BY <1>1, <1>2, <1>3 DEF Busy, Active, TaskOK
<1> QED BY <1>4 DEF Unlinks, Enters, Leaves, VidsOf, HasUnlink

\* While growth is inside, the heartbeat streams are not.
LEMMA WhileGrowing ==
  ASSUME ControlInv, AloneInv, GrowsAlone, "grow" \in Tasks, pc["grow"] # "idle"
  PROVE  setting.active = 1 /\ "grow" \in Busy /\ \A n \in Nodes : n \notin Busy
<1>1. setting.active = 1 BY DEF AloneInv, GrowsAlone
<1>2. pc["grow"] # "available"
  <2> SUFFICES ASSUME pc["grow"] = "available" PROVE FALSE OBVIOUS
  <2>1. TaskOK("grow") BY DEF ControlInv
  <2>2. job["grow"].op = "vacuum" BY <2>1 DEF TaskOK, OpsAt
  <2> QED BY <2>1, <2>2 DEF TaskOK, Owned
<1>3. "grow" \in Busy BY <1>2 DEF Busy, Active
<1> QED BY <1>1, <1>3, OtherNames DEF AloneInv

\* The steps of a task inside let no other in.
LEMMA StepAlone ==
  ASSUME AloneInv, NEW t \in Tasks, Only(t), pc[t] \notin {"idle", "available"}
  PROVE  AloneInv'
<1>1. Busy' \subseteq Busy BY DEF Busy, Active, Only
<1>2. "grow" \in Tasks /\ pc'["grow"] # "idle" => pc["grow"] # "idle" BY DEF Only
<1>3. setting' = setting BY DEF Only
<1> QED BY <1>1, <1>2, <1>3 DEF AloneInv

\* A call lets in the task that makes it.
LEMMA CallAlone ==
  ASSUME ControlInv, AloneInv, NEW t \in Tasks, Only(t), Start(t)
  PROVE  AloneInv'
<1>1. setting' = setting BY DEF Only
<1>2. Busy' \subseteq Busy \cup {t} BY DEF Busy, Active, Only
<1>3. setting.active = 1 => \A u, w \in Busy' : u = w BY <1>2, StartsAlone
<1>4. "grow" \in Tasks /\ pc'["grow"] # "idle" => "grow" \in setting.others
  <2>1. CASE t = "grow" BY <2>1, OtherNames DEF Start
  <2>2. CASE t # "grow" BY <2>2 DEF Only, AloneInv
  <2> QED BY <2>1, <2>2
<1> QED BY <1>1, <1>3, <1>4 DEF AloneInv

-----------------------------------------------------------------------------
(* What a step leaves to do *)

\* All that the stream of n has to do is to make these calls.
Left(n, calls) ==
  /\ Enters(n)' = VidsOf(calls, Registers) /\ Leaves(n)' = VidsOf(calls, Deregisters)
  /\ Unlinks(n)' <=> HasUnlink(calls)

\* Once a stream has turned to its next call, all that is to do is in its calls.
LEMMA TurnLeaves ==
  ASSUME NEW n \in Nodes, NEW calls, Turns(n, calls), \A c \in calls : Owned(n, c) /\ c.op \in Queued
  PROVE  Left(n, calls)
<1>1. CASE calls = {} /\ pc'[n] = "idle" /\ job'[n] = NoCall /\ pending'[n] = {}
  BY <1>1 DEF Left, Enters, Leaves, Unlinks, HasUnlink
<1>2. ASSUME NEW c \in calls, pc'[n] = FirstPc(c.op), job'[n] = c, pending'[n] = calls \ {c}
      PROVE  Left(n, calls)
  <2>1. c.op \in {"register", "unregister", "unavailable", "unlink"} BY OtherNames DEF Owned, Queued
  <2>2. /\ pc'[n] = "enter" <=> c.op \in Registers
        /\ pc'[n] \in {"detach", "evict"} <=> c.op \in Deregisters
        /\ pc'[n] = "unlink" <=> c.op = "unlink"
    BY <1>2, <2>1 DEF FirstPc, Registers, Deregisters
  <2>3. \A ops : VidsOf(calls, ops) = VidsOf(calls \ {c}, ops) \cup (IF c.op \in ops THEN {c.vid} ELSE {})
    BY DEF VidsOf
  <2>4. Enters(n)' = VidsOf(calls, Registers)
    <3>1. Enters(n)' = (IF c.op \in Registers THEN {c.vid} ELSE {}) \cup VidsOf(calls \ {c}, Registers)
      BY <1>2, <2>2, Zenon DEF Enters
    <3> QED BY <2>3, <3>1, Zenon
  <2>5. Leaves(n)' = VidsOf(calls, Deregisters)
    <3>1. Leaves(n)' = (IF c.op \in Deregisters THEN {c.vid} ELSE {}) \cup VidsOf(calls \ {c}, Deregisters)
      BY <1>2, <2>2, Zenon DEF Leaves
    <3> QED BY <2>3, <3>1, Zenon
  <2>6. Unlinks(n)' <=> HasUnlink(calls) BY <1>2, <2>2 DEF Unlinks, HasUnlink
  <2> QED BY <2>4, <2>5, <2>6 DEF Left
<1> QED BY <1>1, <1>2, Zenon DEF Turns

\* A stream at another place has just its pending calls to do, before and after.
LEMMA StayLeaves ==
  ASSUME NEW n \in Nodes, Stays(n, pc'[n]), pc'[n] \notin Acting
  PROVE  Left(n, pending[n])
BY DEF Left, Stays, Acting, Enters, Leaves, Unlinks, HasUnlink

\* At no acting step, a stream is to do just what its pending calls say.
LEMMA NowLeft ==
  ASSUME NEW n \in Nodes, pc[n] \notin Acting
  PROVE  /\ Enters(n) = VidsOf(pending[n], Registers) /\ Leaves(n) = VidsOf(pending[n], Deregisters)
         /\ Unlinks(n) <=> HasUnlink(pending[n])
BY DEF Acting, Enters, Leaves, Unlinks

\* A step of another task changes nothing of that.
LEMMA OtherLeft ==
  ASSUME NEW t \in Tasks, Only(t), NEW n \in Nodes, n # t
  PROVE  Enters(n)' = Enters(n) /\ Leaves(n)' = Leaves(n) /\ (Unlinks(n)' <=> Unlinks(n))
<1>1. pc'[n] = pc[n] /\ job'[n] = job[n] /\ pending'[n] = pending[n] BY DEF Only, Tasks
<1> QED BY <1>1 DEF Enters, Leaves, Unlinks, HasUnlink

\* ... nor of what growth does.
LEMMA OtherGrow ==
  ASSUME NEW t \in Tasks, Only(t), t # "grow", GrowOK, online \cup died \subseteq online' \cup died'
  PROVE  GrowOK' /\ \A n : GrowEnters(n)' = GrowEnters(n)
<1>1. "grow" \in Tasks => pc'["grow"] = pc["grow"] /\ job'["grow"] = job["grow"] /\ pending'["grow"] = pending["grow"]
  BY DEF Only
<1> QED BY <1>1 DEF GrowEnters, GrowOK

\* Growth that turns to its next node does not enter it yet.
LEMMA GrowTurns ==
  ASSUME "grow" \in Tasks, NEW calls, Turns("grow", calls),
         \A c \in calls : Owned("grow", c) /\ c.op \in Queued
  PROVE  \A n : GrowEnters(n)' = {}
<1>1. \A c \in calls : FirstPc(c.op) = "add" BY OtherNames DEF Owned, Queued, FirstPc
<1>2. pc'["grow"] # "enter" BY <1>1 DEF Turns
<1> QED BY <1>2 DEF GrowEnters

\* No task comes to "get" but from "enter".
LEMMA TurnsNotGet ==
  ASSUME NEW t, NEW calls, Turns(t, calls), \A c \in calls : c.op \in Queued
  PROVE  pc'[t] # "get"
<1>1. \A c \in calls : FirstPc(c.op) # "get" BY DEF Queued, FirstPc
<1> QED BY <1>1 DEF Turns

-----------------------------------------------------------------------------
(* How the lists are shown to match after a step *)

\* Only while growth runs alone is there anything to show.
LEMMA MatchStep ==
  ASSUME Inv, setting' = setting, GrowsAlone /\ Matches => Matches'
  PROVE  MatchInv'
BY DEF Inv, MatchInv, GrowsAlone

\* A node whose stream does not take the step.
LEMMA OtherNode ==
  ASSUME NEW t \in Tasks, Only(t), NEW n \in Nodes, n # t, NodeOK(n), Held(n)' = Held(n), Told(n)' = Told(n),
         GrowEnters(n)' = GrowEnters(n), linked' \ {t} = linked \ {t}, online' \ {t} = online \ {t}
  PROVE  NodeOK(n)'
<1>1. Enters(n)' = Enters(n) /\ Leaves(n)' = Leaves(n) /\ (Unlinks(n)' <=> Unlinks(n)) BY OtherLeft
<1>2. (n \in linked' <=> n \in linked) /\ (n \in online' <=> n \in online) OBVIOUS
<1> QED BY <1>1, <1>2 DEF NodeOK

\* The entries that tasks are about to read are still there.
LEMMA EntriesKept ==
  ASSUME EntriesOK, NEW t \in Tasks, Only(t), pc'[t] # "get", \A n : Held(n)' = Held(n)
  PROVE  EntriesOK'
BY DEF EntriesOK, Only

-----------------------------------------------------------------------------
(* Steps that leave the entries alone *)

\* A calm step keeps the types, and what each node is listed for.
LEMMA CalmTypes ==
  ASSUME TypeInv, EntriesDistinct, NEW t \in Tasks, Calm(t)
  PROVE  TypeInv' /\ EntriesDistinct' /\ \A n : Held(n)' = Held(n)
<1>1. TypeInv' /\ EntriesDistinct' BY DEF TypeInv, EntriesDistinct, Calm, Quiet, Keeps
<1>2. Range(<<>>) = {} BY DEF Range
<1>3. ASSUME NEW n PROVE Held(n)' = Held(n) BY <1>2 DEF Calm, Quiet, Keeps, Held
<1> QED BY <1>1, <1>3

\* What the stream of a node is left with after such a step.
LEMMA CalmLeft ==
  ASSUME ControlInv, NEW t \in Tasks, Only(t), Quiet(t), pc[t] \notin Acting, NEW n \in Nodes \ died'
  PROVE  Enters(n)' = Enters(n) /\ Leaves(n)' = Leaves(n) /\ (Unlinks(n)' <=> Unlinks(n))
<1>1. CASE n # t BY <1>1, OtherLeft
<1>2. CASE n = t
  <2>1. \A c \in pending[t] : Owned(t, c) /\ c.op \in Queued BY PendingOwned
  <2>2. Turns(n, pending[n]) \/ (Stays(n, pc'[n]) /\ pc'[n] \notin Acting) BY <1>2, OtherNames DEF Quiet
  <2>3. Left(n, pending[n]) BY <1>2, <2>1, <2>2, TurnLeaves, StayLeaves
  <2> QED BY <1>2, <2>3, NowLeft DEF Left
<1> QED BY <1>1, <1>2

\* ... and growth.
LEMMA CalmGrow ==
  ASSUME ControlInv, GrowOK, NEW t \in Tasks, Only(t), Quiet(t), pc[t] \notin Acting \cup {"idle"}
  PROVE  GrowOK' /\ \A n : GrowEnters(n)' = GrowEnters(n)
<1>1. online \cup died \subseteq online' \cup died' BY DEF Quiet
<1>2. CASE t # "grow" BY <1>1, <1>2, OtherGrow
<1>3. CASE t = "grow"
  <2>1. \A c \in pending[t] : Owned(t, c) /\ c.op \in Queued BY PendingOwned
  <2>2. \A n : GrowEnters(n) = {} BY <1>3 DEF Acting, GrowEnters
  <2>3. CASE Turns(t, pending[t])
    <3>1. GrowOK' BY <1>1, <1>3, <2>3 DEF GrowOK, Turns
    <3> QED BY <1>3, <2>1, <2>2, <2>3, <3>1, GrowTurns
  <2>4. CASE Turns(t, {}) BY <1>3, <2>2, <2>4 DEF GrowOK, Turns, GrowEnters
  <2>5. CASE Stays(t, pc'[t]) /\ pc'[t] \notin Acting
    <3>1. GrowOK' BY <1>1, <1>3, <2>5 DEF GrowOK, Stays
    <3> QED BY <1>3, <2>2, <2>5, <3>1 DEF Acting, GrowEnters
  <2> QED BY <1>3, <2>3, <2>4, <2>5 DEF Quiet
<1> QED BY <1>2, <1>3

\* ... so what is listed matches what is reported as before.
LEMMA CalmMatch ==
  ASSUME Inv, NEW t \in Tasks, Calm(t), pc[t] \notin Acting \cup {"idle"}
  PROVE  MatchInv'
<1>1. Only(t) /\ Quiet(t) BY DEF Calm
<1>2. SUFFICES ASSUME Matches PROVE Matches' BY <1>1, MatchStep DEF Only
<1>3. \A n : Held(n)' = Held(n) BY CalmTypes DEF Inv
<1>4. GrowOK' /\ \A n : GrowEnters(n)' = GrowEnters(n) BY <1>1, <1>2, CalmGrow DEF Inv, Matches
<1>5. ASSUME NEW n \in Nodes \ died' PROVE NodeOK(n)'
  <2>1. NodeOK(n) /\ (n \in online' <=> n \in online) /\ Told(n)' = Told(n) /\ linked' = linked
    BY <1>1, <1>2 DEF Matches, Quiet, Told
  <2>2. Enters(n)' = Enters(n) /\ Leaves(n)' = Leaves(n) /\ (Unlinks(n)' <=> Unlinks(n))
    BY <1>1, CalmLeft DEF Inv
  <2> QED BY SMTT(30), <1>3, <1>4, <2>1, <2>2 DEF NodeOK
<1>6. pc'[t] # "get"
  <2>1. \A c \in pending[t] : c.op \in Queued BY PendingOwned DEF Inv
  <2>2. CASE Turns(t, {}) BY <2>2 DEF Turns
  <2> QED BY <1>1, <2>1, <2>2, TurnsNotGet DEF Quiet
<1>7. EntriesOK' BY <1>1, <1>2, <1>3, <1>6, EntriesKept DEF Matches
<1> QED BY <1>4, <1>5, <1>7 DEF Matches

-----------------------------------------------------------------------------
(* Steps that change the entries *)

\* Who lists a node: its own stream, or growth.
LEMMA Caller ==
  ASSUME ControlInv, NEW t \in Tasks, pc[t] \in {"enter", "get"}
  PROVE  job[t].node \in Nodes /\ (t = "grow" \/ (t \in Nodes /\ job[t].node = t))
<1>1. Owned(t, job[t]) /\ job[t].op \in OpsAt(pc[t]) BY SMTT(30), PendingOwned
<1> QED BY <1>1 DEF OpsAt, Owned

\* What the stream of n and growth have to do after task t has listed its node.
LEMMA EnterLeft ==
  ASSUME NEW t \in Tasks, pc[t] = "enter", Only(t), Stays(t, "get"), NEW n \in Nodes,
         t = "grow" \/ (t \in Nodes /\ job[t].node = t)
  PROVE  /\ Leaves(n)' = Leaves(n) /\ (Unlinks(n)' <=> Unlinks(n))
         /\ IF n = job[t].node
            THEN Enters(n) \cup GrowEnters(n) = {job[t].vid} \cup Enters(n)' \cup GrowEnters(n)'
            ELSE Enters(n)' = Enters(n) /\ GrowEnters(n)' = GrowEnters(n)
<1>1. CASE t = "grow"
  <2>1. Enters(n)' = Enters(n) /\ Leaves(n)' = Leaves(n) /\ (Unlinks(n)' <=> Unlinks(n))
    BY <1>1, OtherLeft, OtherNames
  <2>2. GrowEnters(n)' = {} BY <1>1 DEF Stays, GrowEnters
  <2>3. GrowEnters(n) = IF n = job[t].node THEN {job[t].vid} ELSE {} BY SMTT(30), <1>1 DEF GrowEnters
  <2> QED BY <2>1, <2>2, <2>3
<1>2. CASE t # "grow"
  <2>1. GrowEnters(n)' = GrowEnters(n) BY <1>2 DEF Only, GrowEnters
  <2>2. CASE n # t BY SMTT(30), <1>2, <2>1, <2>2, OtherLeft
  <2>3. CASE n = t
    <3>1. Enters(n) = {job[t].vid} \cup VidsOf(pending[n], Registers) BY <2>3 DEF Enters
    <3>2. Left(n, pending[n]) BY <2>3, StayLeaves DEF Acting, Stays
    <3>3. Leaves(n) = VidsOf(pending[n], Deregisters) /\ (Unlinks(n) <=> HasUnlink(pending[n]))
      BY <2>3 DEF Leaves, Unlinks
    <3> QED BY SMTT(30), <1>2, <2>1, <2>3, <3>1, <3>2, <3>3 DEF Left
  <2> QED BY SMTT(30), <2>2, <2>3
<1> QED BY <1>1, <1>2

\* register_volume lists its node, which has reported the volume.
LEMMA EnterMatch ==
  ASSUME Inv, NEW t \in Tasks, pc[t] = "enter", Only(t), Stays(t, "get"), Untouched, Listed(t)
  PROVE  MatchInv'
<1>1. SUFFICES ASSUME Matches PROVE Matches' BY MatchStep DEF Only
<1>2. t = "grow" \/ (t \in Nodes /\ job[t].node = t) BY Caller DEF Inv
<1>3. GrowOK'
  <2>1. CASE t = "grow" BY <1>1, <2>1 DEF Matches, GrowOK, Stays, Untouched
  <2>2. CASE t # "grow" BY <1>1, <2>2, OtherGrow DEF Matches, Untouched
  <2> QED BY <2>1, <2>2
<1>4. ASSUME NEW n \in Nodes \ died' PROVE NodeOK(n)'
  <2>1. NodeOK(n) /\ linked' = linked /\ online' = online /\ Told(n)' = Told(n)
    BY <1>1 DEF Matches, Untouched, Told
  <2>2. Held(n)' = IF n = job[t].node THEN Held(n) \cup {job[t].vid} ELSE Held(n) BY SMTT(30) DEF Listed
  <2>3. /\ Leaves(n)' = Leaves(n) /\ (Unlinks(n)' <=> Unlinks(n))
        /\ IF n = job[t].node
           THEN Enters(n) \cup GrowEnters(n) = {job[t].vid} \cup Enters(n)' \cup GrowEnters(n)'
           ELSE Enters(n)' = Enters(n) /\ GrowEnters(n)' = GrowEnters(n)
    BY SMTT(30), <1>2, EnterLeft
  <2>4. CASE n = job[t].node BY SMTT(30), <2>1, <2>2, <2>3, <2>4 DEF NodeOK
  <2>5. CASE n # job[t].node BY SMTT(30), <2>1, <2>2, <2>3, <2>5 DEF NodeOK
  <2> QED BY <2>4, <2>5
<1>5. EntriesOK' BY SMTT(30), <1>1 DEF Matches, EntriesOK, Only, Stays, Listed
<1> QED BY <1>3, <1>4, <1>5 DEF Matches

\* A node whose stream has taken it off an entry.
LEMMA OffNode ==
  ASSUME NEW n \in Nodes, pc[n] \in {"detach", "evict"}, Left(n, pending[n]), Untouched, NodeOK(n),
         Held(n)' = Held(n) \ {job[n].vid}, GrowEnters(n)' = GrowEnters(n)
  PROVE  NodeOK(n)'
<1>1. /\ Enters(n) = VidsOf(pending[n], Registers)
      /\ Leaves(n) = {job[n].vid} \cup VidsOf(pending[n], Deregisters)
      /\ Unlinks(n) <=> HasUnlink(pending[n])
  BY SMTT(30) DEF Enters, Leaves, Unlinks
<1>2. Enters(n)' = Enters(n) /\ Leaves(n) = {job[n].vid} \cup Leaves(n)' /\ (Unlinks(n)' <=> Unlinks(n))
  BY SMTT(30), <1>1 DEF Left
<1>3. linked' = linked /\ online' = online /\ Told(n)' = Told(n) BY DEF Untouched, Told
<1> QED BY SMTT(30), <1>2, <1>3 DEF NodeOK

\* unregister_volume and set_volume_unavailable take off a node that no longer
\* reports the volume.
LEMMA OffMatch ==
  ASSUME Inv, NEW t \in Tasks, Off(t), pc[t] \in {"detach", "evict"}
  PROVE  MatchInv'
<1>1. /\ Only(t) /\ Untouched /\ t \in Nodes
      /\ (Stays(t, pc'[t]) /\ pc'[t] \in {"ensure", "find"}) \/ Turns(t, pending[t])
      /\ \A n : Held(n)' = IF n = t THEN Held(n) \ {job[t].vid} ELSE Held(n)
  BY SMTT(30) DEF Off
<1>2. SUFFICES ASSUME GrowsAlone, Matches PROVE Matches' BY <1>1, MatchStep DEF Only
<1>3. \A c \in pending[t] : Owned(t, c) /\ c.op \in Queued BY PendingOwned DEF Inv
<1>4. Left(t, pending[t])
  <2>1. CASE Turns(t, pending[t]) BY SMTT(30), <1>1, <1>3, <2>1, TurnLeaves
  <2>2. CASE Stays(t, pc'[t]) /\ pc'[t] \in {"ensure", "find"} BY <1>1, <2>2, StayLeaves DEF Acting
  <2> QED BY SMTT(30), <1>1, <2>1, <2>2
<1>5. GrowOK' /\ \A n : GrowEnters(n)' = GrowEnters(n)
  BY <1>1, <1>2, OtherGrow, OtherNames DEF Matches, Untouched
<1>6. ASSUME NEW n \in Nodes \ died' PROVE NodeOK(n)'
  <2>1. NodeOK(n) /\ linked' = linked /\ online' = online /\ Told(n)' = Told(n)
    BY SMTT(30), <1>1, <1>2 DEF Matches, Untouched, Told
  <2>2. CASE n # t BY SMTT(30), <1>1, <1>5, <2>1, <2>2, OtherNode
  <2>3. CASE n = t BY SMTT(30), <1>1, <1>4, <1>5, <2>1, <2>3, OffNode
  <2> QED BY <2>2, <2>3
<1>7. ASSUME NEW u \in Tasks, pc'[u] = "get" PROVE job[u].vid \in Held(job[u].node)' /\ job'[u] = job[u]
  <2>1. pc'[t] # "get" BY <1>1, <1>3, TurnsNotGet
  <2>2. u # t /\ pc[u] = "get" /\ job'[u] = job[u] BY <1>1, <1>7, <2>1 DEF Only
  <2>3. u # "grow"
    <3> SUFFICES ASSUME u = "grow" PROVE FALSE OBVIOUS
    <3>1. "grow" \in Tasks /\ pc["grow"] # "idle" BY <2>2
    <3>2. t \notin Busy BY SMTT(30), <1>1, <1>2, <3>1, WhileGrowing DEF Inv
    <3> QED BY <3>2 DEF Busy, Active
  <2>4. job[u].node = u /\ job[u].vid \in Held(job[u].node)
    BY <1>2, <2>2, <2>3, Caller DEF Inv, Matches, EntriesOK
  <2> QED BY SMTT(30), <1>1, <2>2, <2>4
<1> QED BY <1>5, <1>6, <1>7 DEF Matches, EntriesOK

\* What the steps below leave alone.
SameEntries == writable' = writable /\ locations' = locations /\ online' = online /\ died' = died

\* A node leaves the tree.
LEMMA UnlinkKeeps ==
  ASSUME Inv, NEW t \in Tasks, pc[t] = "unlink", Return(t), linked' = linked \ {t}, SameEntries,
         volumes' = volumes
  PROVE  Inv'
<1>1. ControlInv' /\ Only(t) /\ Turns(t, pending[t]) BY ReturnKeeps DEF Inv
<1>2. TypeInv' /\ EntriesDistinct' BY DEF SameEntries, Inv, TypeInv, EntriesDistinct
<1>3. AloneInv' BY <1>1, StepAlone DEF Inv
<1>4. Owned(t, job[t]) /\ job[t].op \in OpsAt(pc[t]) /\ \A c \in pending[t] : Owned(t, c) /\ c.op \in Queued
  BY PendingOwned DEF Inv
<1>5. t \in Nodes BY <1>4 DEF OpsAt, Owned
<1>6. \A n : Told(n)' = Told(n) /\ Held(n)' = Held(n) BY DEF SameEntries, Told, Held
<1>7. ASSUME Matches PROVE Matches'
  <2>1. GrowOK' /\ \A n : GrowEnters(n)' = GrowEnters(n)
    BY <1>1, <1>5, <1>7, OtherGrow, OtherNames DEF Matches, SameEntries
  <2>2. ASSUME NEW n \in Nodes \ died' PROVE NodeOK(n)'
    <3>1. NodeOK(n) /\ online' = online BY SMTT(30), <1>7 DEF Matches, SameEntries
    <3>2. CASE n # t BY SMTT(30), <1>1, <1>6, <2>1, <3>1, <3>2, OtherNode
    <3>3. CASE n = t
      <4>1. Left(n, pending[n]) BY SMTT(30), <1>1, <1>4, <3>3, TurnLeaves
      <4>2. Enters(n)' = Enters(n) /\ Leaves(n)' = Leaves(n) BY SMTT(30), <3>3, <4>1 DEF Left, Enters, Leaves
      <4> QED BY SMTT(30), <1>6, <2>1, <3>1, <3>3, <4>2 DEF NodeOK
    <3> QED BY <3>2, <3>3
  <2>3. pc'[t] # "get" BY <1>1, <1>4, TurnsNotGet
  <2>4. EntriesOK' BY SMTT(30), <1>1, <1>6, <1>7, <2>3, EntriesKept DEF Matches
  <2> QED BY <2>1, <2>2, <2>4 DEF Matches
<1> QED BY <1>1, <1>2, <1>3, <1>7, MatchStep DEF Inv, Only

\* Volume v is put on node n.
PutOn(n, v) ==
  /\ DOMAIN volumes' = Nodes /\ DOMAIN volumes'[n] = DOMAIN volumes[n] \cup {v}
  /\ \A m \in Nodes \ {n} : volumes'[m] = volumes[m]

\* The node it is put on has it to be listed for.
LEMMA AddNode ==
  ASSUME NEW n, NEW v, NodeOK(n), ~Unlinks(n), Enters(n) = {}, Leaves(n) = {}, GrowEnters(n) = {},
         Enters(n)' = {}, Leaves(n)' = {}, GrowEnters(n)' = {v}, Held(n)' = Held(n),
         Told(n)' = Told(n) \cup {v}, linked' = linked, online' = online
  PROVE  NodeOK(n)'
BY SMTT(30) DEF NodeOK

\* Growth puts the volume on a node that no other task is busy with.
LEMMA GrowAddKeeps ==
  ASSUME Inv, NEW t \in Tasks, pc[t] = "add", Goto(t, "enter"), SameEntries, linked' = linked,
         PutOn(job[t].node, job[t].vid)
  PROVE  Inv'
<1>1. Owned(t, job[t]) /\ job[t].op \in OpsAt(pc[t]) BY PendingOwned DEF Inv
<1>2. t = "grow" /\ job[t].node \in Nodes /\ job[t].vid \in Vids /\ job[t].op \in OpsAt("enter")
  BY <1>1 DEF OpsAt, Owned
<1>3. ControlInv' /\ Only(t) /\ Stays(t, "enter") BY <1>2, GotoKeeps DEF Inv
<1>4. TypeInv' /\ EntriesDistinct' BY <1>2 DEF PutOn, SameEntries, Inv, TypeInv, EntriesDistinct
<1>5. AloneInv' BY <1>3, StepAlone DEF Inv
<1>6. \A n : Held(n)' = Held(n) BY SMTT(30) DEF SameEntries, Held
<1>7. \A n : GrowEnters(n) = {} /\ GrowEnters(n)' = IF n = job[t].node THEN {job[t].vid} ELSE {}
  BY <1>2, <1>3 DEF GrowEnters, Stays
<1>8. ASSUME GrowsAlone, Matches PROVE Matches'
  <2>1. \A n \in Nodes : n \notin Busy BY <1>2, <1>8, WhileGrowing DEF Inv
  <2>2. ASSUME NEW n \in Nodes \ died' PROVE NodeOK(n)'
    <3>1. NodeOK(n) /\ n \notin died /\ online' = online BY <1>8 DEF SameEntries, Matches
    <3>2. CASE n = job[t].node
      <4>1. ~Unlinks(n) /\ Enters(n) = {} /\ Leaves(n) = {} BY SMTT(30), <2>1, NotBusy DEF Inv
      <4>2. ~Unlinks(n)' /\ Enters(n)' = {} /\ Leaves(n)' = {} BY <1>2, <1>3, <4>1, OtherLeft, OtherNames
      <4>3. n \in online BY SMTT(30), <1>2, <1>8, <3>1, <3>2 DEF Matches, GrowOK
      <4>4. Told(n)' = Told(n) \cup {job[t].vid} BY <3>1, <3>2, <4>3 DEF PutOn, Told
      <4>5. GrowEnters(n) = {} /\ GrowEnters(n)' = {job[t].vid} /\ Held(n)' = Held(n) BY SMTT(30), <1>6, <1>7, <3>2
      <4> QED BY <3>1, <4>1, <4>2, <4>4, <4>5, AddNode, ZenonT(30)
    <3>3. CASE n # job[t].node
      <4>1. Told(n)' = Told(n) BY <3>1, <3>3 DEF PutOn, Told
      <4>2. GrowEnters(n)' = GrowEnters(n) /\ n # t BY <1>2, <1>7, <3>3, OtherNames
      <4> QED BY SMTT(30), <1>3, <1>6, <3>1, <4>1, <4>2, OtherNode
    <3> QED BY SMTT(30), <3>2, <3>3
  <2>3. EntriesOK' BY SMTT(30), <1>3, <1>6, <1>8, EntriesKept DEF Matches, Stays
  <2>4. GrowOK' BY SMTT(30), <1>2, <1>3, <1>8 DEF Matches, SameEntries, GrowOK, Stays
  <2> QED BY <2>2, <2>3, <2>4 DEF Matches
<1> QED BY ZenonT(30), <1>3, <1>4, <1>5, <1>8, MatchStep DEF Inv, Only

\* ... or gives up.
LEMMA GrowFailsKeeps ==
  ASSUME Inv, NEW t \in Tasks, pc[t] = "add", Proceed(t, {}), SameEntries, linked' = linked,
         volumes' = volumes
  PROVE  Inv'
<1>1. Owned(t, job[t]) /\ job[t].op \in OpsAt(pc[t]) BY PendingOwned DEF Inv
<1>2. t = "grow" BY <1>1 DEF OpsAt, Owned
<1>3. \A d \in {} : Owned(t, d) /\ d.op \in Queued OBVIOUS
<1>4. ControlInv' /\ Only(t) /\ Turns(t, {}) BY <1>3, ProceedKeeps, Zenon DEF Inv
<1>5. TypeInv' /\ EntriesDistinct' BY DEF SameEntries, Inv, TypeInv, EntriesDistinct
<1>6. AloneInv' BY <1>4, StepAlone DEF Inv
<1>7. pc'[t] = "idle" /\ pending'[t] = {} BY <1>4 DEF Turns
<1>8. \A n : Told(n)' = Told(n) /\ Held(n)' = Held(n) /\ GrowEnters(n)' = GrowEnters(n)
  BY <1>2, <1>7 DEF SameEntries, Told, Held, GrowEnters
<1>9. ASSUME Matches PROVE Matches'
  <2>1. ASSUME NEW n \in Nodes \ died' PROVE NodeOK(n)'
    <3>1. NodeOK(n) /\ online' = online /\ n # t BY <1>2, <1>9, OtherNames DEF SameEntries, Matches
    <3> QED BY <1>4, <1>8, <3>1, OtherNode
  <2>2. EntriesOK' BY <1>4, <1>7, <1>8, <1>9, EntriesKept DEF Matches
  <2>3. GrowOK' BY SMTT(30), <1>2, <1>7 DEF GrowOK
  <2> QED BY <2>1, <2>2, <2>3 DEF Matches
<1> QED BY SMTT(30), <1>4, <1>5, <1>6, <1>9, MatchStep DEF Inv, Only

-----------------------------------------------------------------------------
(* Calls *)

\* Growth is outside when a task starts that may not overlap with it.
LEMMA StartsWithoutGrow ==
  ASSUME Inv, GrowsAlone, NEW t, Start(t)
  PROVE  "grow" \in Tasks => pc["grow"] = "idle" /\ pending["grow"] = {}
<1> SUFFICES ASSUME "grow" \in Tasks PROVE pc["grow"] = "idle" /\ pending["grow"] = {} OBVIOUS
<1>1. pc["grow"] = "idle"
  <2> SUFFICES ASSUME pc["grow"] # "idle" PROVE FALSE OBVIOUS
  <2>1. setting.active = 1 /\ "grow" \in Busy BY WhileGrowing DEF Inv
  <2> QED BY <2>1, StartsAlone
<1> QED BY SMTT(30), <1>1 DEF Inv, ControlInv, TaskOK

\* What a call of a stream changes of its node, and what the calls it queues make up
\* for: what is reported anew is registered, and what is no longer is taken off.
Covers(n, calls) ==
  /\ n \in online' \/ HasUnlink(calls)
  /\ VidsOf(calls, Registers) \subseteq Told(n)' /\ VidsOf(calls, Deregisters) \cap Told(n)' = {}
  /\ Told(n)' \subseteq Told(n) \cup VidsOf(calls, Registers)
  /\ Told(n) \subseteq Told(n)' \cup VidsOf(calls, Deregisters)

\* A call of stream n as it starts.
NodeStep(n, calls) ==
  /\ Start(n) /\ Proceed(n, calls) /\ (\A c \in calls : Owned(n, c) /\ c.op \in Queued)
  /\ writable' = writable /\ locations' = locations /\ linked' = linked /\ died' = died
  /\ DOMAIN volumes' = Nodes /\ DOMAIN volumes'[n] \subseteq Vids /\ online' \subseteq Nodes
  /\ \A m \in Nodes \ {n} : volumes'[m] = volumes[m]
  /\ online' \ {n} = online \ {n} /\ Covers(n, calls)

\* The node of the stream: the calls make up for what it reports.
LEMMA CallNode ==
  ASSUME NEW n, NEW calls, Covers(n, calls), Left(n, calls), NodeOK(n), Enters(n) = {}, Leaves(n) = {},
         GrowEnters(n) = {}, GrowEnters(n)' = {}, Held(n)' = Held(n), linked' = linked
  PROVE  NodeOK(n)'
BY SMTT(30) DEF NodeOK, Left, Covers

\* Such a call keeps the invariant.
LEMMA NodeCall ==
  ASSUME Inv, NEW n \in Nodes, NEW calls, NodeStep(n, calls)
  PROVE  Inv'
<1>1. n \in Tasks /\ n # "grow" /\ n \notin Busy BY SMTT(30), OtherNames DEF NodeStep, Tasks, Start, Busy, Active
<1>2. ControlInv' /\ Only(n) /\ Turns(n, calls) BY SMTT(30), <1>1, ProceedKeeps DEF NodeStep, Inv
<1>3. TypeInv' /\ EntriesDistinct' BY ZenonT(30) DEF NodeStep, Inv, TypeInv, EntriesDistinct
<1>4. AloneInv' BY SMTT(30), <1>1, <1>2, CallAlone DEF NodeStep, Inv
<1>5. \A m : Held(m)' = Held(m) BY DEF NodeStep, Held
<1>6. Enters(n) = {} /\ Leaves(n) = {} /\ Left(n, calls) /\ Covers(n, calls) /\ linked' = linked
  <2>1. Covers(n, calls) /\ linked' = linked BY ZenonT(30) DEF NodeStep
  <2>2. \A c \in calls : Owned(n, c) /\ c.op \in Queued BY ZenonT(30) DEF NodeStep
  <2>3. Left(n, calls) BY ZenonT(30), <1>2, <2>2, TurnLeaves
  <2>4. Enters(n) = {} /\ Leaves(n) = {} BY ZenonT(30), <1>1, NotBusy DEF Inv
  <2> QED BY ZenonT(30), <2>1, <2>3, <2>4
<1>7. ASSUME GrowsAlone, Matches PROVE Matches'
  <2>1. GrowOK' /\ \A m : GrowEnters(m) = {} /\ GrowEnters(m)' = {}
    BY <1>1, <1>2, <1>7, StartsWithoutGrow DEF NodeStep, Only, GrowOK, GrowEnters
  <2>2. ASSUME NEW m \in Nodes \ died' PROVE NodeOK(m)'
    <3>1. NodeOK(m) BY <1>7 DEF NodeStep, Matches
    <3>2. CASE m # n
      <4>1. /\ Told(m)' = Told(m) /\ linked' \ {n} = linked \ {n} /\ online' \ {n} = online \ {n}
        BY <3>2 DEF NodeStep, Told
      <4> QED BY SMTT(30), <1>1, <1>2, <1>5, <2>1, <3>1, <3>2, <4>1, OtherNode
    <3>3. CASE m = n BY ZenonT(30), <1>5, <1>6, <2>1, <3>1, <3>3, CallNode
    <3> QED BY SMTT(30), <3>2, <3>3
  <2>3. pc'[n] # "get" BY <1>2, TurnsNotGet DEF NodeStep
  <2>4. EntriesOK' BY <1>1, <1>2, <1>5, <1>7, <2>3, EntriesKept DEF Matches
  <2> QED BY SMTT(30), <2>1, <2>2, <2>4 DEF Matches
<1> QED BY SMTT(30), <1>2, <1>3, <1>4, <1>7, MatchStep DEF Inv, Only

\* A stream of node n begins; the node is new in the tree, unless a panic left it there.
ConnectStep(n) ==
  /\ n \notin online /\ pc[n] = "idle" /\ online' = online \cup {n} /\ linked' = linked \cup {n}
  /\ DOMAIN volumes' = Nodes /\ \A m \in Nodes \ {n} : volumes'[m] = volumes[m]
  /\ IF n \in linked THEN volumes' = volumes ELSE DOMAIN volumes'[n] = {}
  /\ writable' = writable /\ locations' = locations /\ died' = died
  /\ setting' = setting /\ pc' = pc /\ job' = job /\ pending' = pending /\ at' = at /\ then' = then

\* Such a step keeps the invariant.
LEMMA ConnectKeeps ==
  ASSUME Inv, NEW n \in Nodes, ConnectStep(n)
  PROVE  Inv'
<1>1. ControlInv' BY SMTT(30) DEF ConnectStep, Inv, ControlInv, TaskOK
<1>2. AloneInv' BY DEF ConnectStep, Inv, AloneInv, Busy, Active
<1>3. EntriesDistinct' BY DEF ConnectStep, Inv, EntriesDistinct
<1>4. TypeInv'
  <2>1. \A m \in Nodes : DOMAIN volumes'[m] \subseteq Vids BY DEF ConnectStep, Inv, TypeInv
  <2> QED BY <2>1 DEF ConnectStep, Inv, TypeInv
<1>5. \A m : /\ Held(m)' = Held(m) /\ Enters(m)' = Enters(m) /\ Leaves(m)' = Leaves(m)
             /\ GrowEnters(m)' = GrowEnters(m) /\ (Unlinks(m)' <=> Unlinks(m))
  BY ZenonT(30) DEF ConnectStep, Held, Enters, Leaves, GrowEnters, Unlinks
<1>6. ~Unlinks(n)
  <2>1. n \in Tasks /\ n \notin Busy BY DEF ConnectStep, Tasks, Busy, Active
  <2> QED BY <2>1, NotBusy DEF Inv
<1>7. ASSUME Matches PROVE Matches'
  <2>1. ASSUME NEW m \in Nodes \ died' PROVE NodeOK(m)'
    <3>1. NodeOK(m) BY <1>7 DEF ConnectStep, Matches
    <3>2. Told(m)' = Told(m) /\ (m \in linked' => m \in linked \cup online')
      <4>1. CASE m # n BY <4>1 DEF ConnectStep, Told
      <4>2. CASE m = n
        <5>1. n \notin linked BY <1>6, <3>1, <4>2 DEF ConnectStep, NodeOK
        <5> QED BY SMTT(30), <4>2, <5>1 DEF ConnectStep, Told
      <4> QED BY <4>1, <4>2
    <3>3. online \subseteq online' BY DEF ConnectStep
    <3> QED BY <1>5, <3>1, <3>2, <3>3 DEF NodeOK
  <2>2. EntriesOK' BY <1>5, <1>7 DEF ConnectStep, Matches, EntriesOK
  <2>3. GrowOK' BY <1>7 DEF ConnectStep, Matches, GrowOK
  <2> QED BY <2>1, <2>2, <2>3 DEF Matches
<1>8. setting' = setting BY DEF ConnectStep
<1> QED BY SMTT(30), <1>1, <1>2, <1>3, <1>4, <1>7, <1>8, MatchStep DEF Inv

\* A call of another task, which queues nothing for a node.
LEMMA OtherCall ==
  ASSUME Inv, NEW t \in Tasks \ Nodes, Start(t), ControlInv', Only(t),
         pc'[t] \notin {"enter", "get"}, GrowsAlone => GrowOK', SameEntries, volumes' = volumes,
         linked' = linked
  PROVE  Inv'
<1>1. TypeInv' /\ EntriesDistinct' BY DEF SameEntries, Inv, TypeInv, EntriesDistinct
<1>2. AloneInv' BY CallAlone DEF Inv
<1>3. \A n : Told(n)' = Told(n) /\ Held(n)' = Held(n) BY DEF SameEntries, Told, Held
<1>4. \A n : GrowEnters(n)' = GrowEnters(n) BY DEF GrowEnters, Start, Only
<1>5. ASSUME GrowsAlone, Matches PROVE Matches'
  <2>1. ASSUME NEW n \in Nodes \ died' PROVE NodeOK(n)'
    <3>1. NodeOK(n) /\ online' = online BY <1>5 DEF SameEntries, Matches
    <3> QED BY <1>3, <1>4, <3>1, OtherNode
  <2>2. EntriesOK' BY <1>3, <1>5, EntriesKept DEF Matches
  <2> QED BY <1>5, <2>1, <2>2 DEF Matches
<1> QED BY SMTT(30), <1>1, <1>2, <1>5, MatchStep DEF Inv, Only

\* The vacuum loop and the assign requests.
LEMMA ServiceKeeps ==
  ASSUME Inv, NEW t \in {"vacuum", "pick", "pickDc"}, NEW p \in {"take", "pickLen", "scan"},
         NEW c, Owned(t, c), c.op \in OpsAt(p), Start(t), Begin(t, p, c, {}),
         UNCHANGED <<layoutVars, nodeVars>>
  PROVE  Inv'
<1>1. t \in Tasks \ Nodes
  <2>1. t \notin Nodes BY OtherNames
  <2> QED BY <2>1, LayoutAssumption DEF Inv, ControlInv, Tasks, Start
<1>2. PICK none : none = {} BY Zenon
<1>3. Begin(t, p, c, none) BY <1>2, Zenon
<1>4. \A d \in none : Owned(t, d) /\ d.op \in Queued BY <1>2
<1>5. ControlInv' /\ Only(t) /\ pc'[t] = p BY <1>1, <1>2, <1>3, <1>4, BeginKeeps DEF Inv
<1>6. /\ writable' = writable /\ locations' = locations
      /\ volumes' = volumes /\ online' = online /\ linked' = linked /\ died' = died
  BY Zenon DEF layoutVars, nodeVars
<1>7. GrowsAlone => GrowOK' BY <1>1, <1>5, <1>6, OtherGrow DEF Inv, MatchInv, Matches
<1> QED BY SMTT(30), <1>1, <1>5, <1>6, <1>7, OtherCall DEF SameEntries
=============================================================================
