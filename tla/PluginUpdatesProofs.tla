-------------------------- MODULE PluginUpdatesProofs --------------------------
(* For every finite set of threads, every set of requests and every bound:  *)
(* operations run on one whole generation, the installed packages are those *)
(* it has loaded, and no change that was asked for is forgotten.            *)
EXTENDS PluginUpdates, FiniteSetTheorems, SequenceTheorems, TLAPS

Step == {"none", "prepare", "capture", "validate", "commit"}

Works == [by : Thread \cup {None}, at : Step, queue : Seq(Request), captured : Nat, watched : Nat]

Types ==
  /\ frames \in [Thread -> Seq(Seq(Request))] /\ pinned \in [Thread -> Nat]
  /\ busy \in Nat /\ generation \in Nat /\ source \in Nat /\ writes \in Nat /\ loaded \in Nat
  /\ known \in Nat /\ rejected \in Nat /\ operations \in Nat
  /\ closing \in BOOLEAN /\ closed \in BOOLEAN /\ deaf \in BOOLEAN
  /\ pending \in Seq(Request)
  /\ work \in Works
  /\ active \in SUBSET Request /\ held \in SUBSET Request /\ journal \in SUBSET Request
  /\ installed \in SUBSET Request /\ reverted \in SUBSET Request /\ condemned \in SUBSET Request
  /\ status \in [Request -> {"new", "asked", "done", "undone"}]
  /\ asker \in [Request -> Thread \cup {None}]

(* Operations are counted, nest once, and exclude the work on a generation. *)
Running == {t \in Thread : frames[t] # <<>>}

Counted ==
  /\ busy = Cardinality(Running)
  /\ \A t \in Thread : Len(frames[t]) <= 2
  /\ work # NoWork => busy = 0
  /\ busy = 0 => pending = <<>>
  /\ closed => busy = 0 /\ work = NoWork

Working ==
  /\ work.at = "none" => work = NoWork
  /\ work.at # "none" => work.by \in Thread
  /\ work.at \in {"prepare", "commit"} => work.queue # <<>>

(* Where requests are: the current one, the others that are to be applied,  *)
(* those put off, and those of a thread's frames.                           *)
Rest == IF work.queue = <<>> THEN {} ELSE Requests(Tail(work.queue))
Later == Requests(pending)
Outer(t) == IF frames[t] = <<>> THEN {} ELSE Requests(frames[t][1])
Inner(t) == IF Len(frames[t]) = 2 THEN Requests(frames[t][2]) ELSE {}
Own(t) == Outer(t) \cup Inner(t)
Touched == held \cup journal \cup installed \cup reverted \cup active

Once(q) == \A i, j \in DOMAIN q : q[i] = q[j] => i = j

Distinct ==
  /\ Once(work.queue) /\ Once(pending)
  /\ \A t \in Thread : /\ \A i \in DOMAIN frames[t] : Once(frames[t][i])
                       /\ Outer(t) \cap Inner(t) = {}
                       /\ \A r \in Own(t) : asker[r] = t /\ r \notin condemned

(* What waits has not been touched.                                         *)
Fresh ==
  /\ Later \cap Touched = {} /\ Rest \cap Touched = {}
  /\ Current \cap (installed \cup reverted) = {}
  /\ work.at = "prepare" => Current \cap Touched = {}
  /\ work.at \in {"capture", "validate"} => Current \cap active = {}
  /\ work.at \in {"capture", "validate", "commit"} /\ Current # {} => held = Current /\ journal = Current
  /\ work.at = "commit" => Current \subseteq active

Asked ==
  \A r \in Request :
    /\ status[r] = "new" => /\ asker[r] = None /\ r \notin condemned
                            /\ r \notin Later \cup Current \cup Rest \cup Touched
    /\ asker[r] # None => r \notin Later \cup Current \cup Rest \cup Touched
    /\ r \in condemned => r \notin Later \cup Current \cup Rest \cup active

OnDisk ==
  /\ installed \subseteq active /\ active \subseteq installed \cup journal \cup reverted
  /\ installed \cap reverted = {} /\ journal \cap (installed \cup reverted) = {}
  /\ held = {} => journal \subseteq active
  /\ held # {} => journal \subseteq held

Tracked ==
  /\ \A r \in Later \cup Current \cup Rest : status[r] = "asked"
  /\ \A t \in Thread : \A r \in Own(t) : status[r] = "asked"
  /\ ~deaf => /\ held \subseteq Current
              /\ \A r \in Request : status[r] = "asked" =>
                   r \in Later \cup Current \cup Rest \/ \E t \in Thread : r \in Own(t)

Inv == /\ Types /\ Counted /\ Working /\ PinnedGeneration /\ LoadedIsKnown
       /\ Distinct /\ Fresh /\ Asked /\ OnDisk /\ Tracked

LEMMA Empties == Requests(<<>>) = {} /\ Once(<<>>)
  BY DEF Requests, ToSet, Once

LEMMA Tails ==
  ASSUME NEW q \in Seq(Request), q # <<>>
  PROVE  /\ Tail(q) \in Seq(Request) /\ Head(q) \in Request
         /\ Requests(q) = {Head(q)} \cup Requests(Tail(q))
         /\ Once(q) => Once(Tail(q)) /\ Head(q) \notin Requests(Tail(q))
<1>1. /\ Tail(q) \in Seq(Request) /\ Head(q) \in Request /\ Head(q) = q[1] /\ 1 \in DOMAIN q
      /\ Len(q) \in Nat \ {0} /\ Len(Tail(q)) = Len(q) - 1
  OBVIOUS
<1>2. \A i \in DOMAIN Tail(q) : i \in Nat \ {0} /\ i + 1 \in DOMAIN q /\ Tail(q)[i] = q[i + 1]
  OBVIOUS
<1>3. \A i \in DOMAIN q : i = 1 \/ (i - 1 \in DOMAIN Tail(q) /\ Tail(q)[i - 1] = q[i])
  OBVIOUS
<1>4. Requests(q) = {Head(q)} \cup Requests(Tail(q))
  <2>1. ASSUME NEW r \in Requests(q) PROVE r \in {Head(q)} \cup Requests(Tail(q))
    BY <1>1, <1>3 DEF Requests, ToSet
  <2>2. ASSUME NEW r \in {Head(q)} \cup Requests(Tail(q)) PROVE r \in Requests(q)
    BY <1>1, <1>2 DEF Requests, ToSet
  <2> QED BY <2>1, <2>2
<1>5. ASSUME Once(q) PROVE Once(Tail(q)) /\ Head(q) \notin Requests(Tail(q))
  <2>1. ASSUME NEW i \in DOMAIN Tail(q), NEW j \in DOMAIN Tail(q), Tail(q)[i] = Tail(q)[j] PROVE i = j
    <3>1. i + 1 = j + 1
      BY <1>2, <1>5, <2>1 DEF Once
    <3> QED BY <1>2, <3>1
  <2>2. ASSUME NEW i \in DOMAIN Tail(q), Tail(q)[i] = Head(q) PROVE FALSE
    <3>1. i + 1 = 1
      BY <1>1, <1>2, <1>5, <2>2 DEF Once
    <3> QED BY <1>2, <3>1
  <2> QED BY <2>1, <2>2 DEF Once, Requests, ToSet
<1> QED BY <1>1, <1>4, <1>5

LEMMA Joins ==
  ASSUME NEW p \in Seq(Request), NEW q \in Seq(Request)
  PROVE  /\ p \o q \in Seq(Request) /\ Requests(p \o q) = Requests(p) \cup Requests(q)
         /\ Once(p) /\ Once(q) /\ Requests(p) \cap Requests(q) = {} => Once(p \o q)
<1>1. /\ p \o q \in Seq(Request) /\ Len(p) \in Nat /\ Len(q) \in Nat
      /\ DOMAIN p = 1..Len(p) /\ DOMAIN q = 1..Len(q) /\ DOMAIN (p \o q) = 1..(Len(p) + Len(q))
  OBVIOUS
<1>2. /\ \A i \in DOMAIN p : i \in DOMAIN (p \o q) /\ (p \o q)[i] = p[i]
      /\ \A i \in DOMAIN q : i + Len(p) \in DOMAIN (p \o q) /\ (p \o q)[i + Len(p)] = q[i]
  BY <1>1
<1>3. \A i \in DOMAIN (p \o q) : \/ i \in DOMAIN p /\ (p \o q)[i] = p[i]
                                 \/ i - Len(p) \in DOMAIN q /\ (p \o q)[i] = q[i - Len(p)]
  BY <1>1
<1>4. Requests(p \o q) = Requests(p) \cup Requests(q)
  <2>1. ASSUME NEW r \in Requests(p \o q) PROVE r \in Requests(p) \cup Requests(q)
    BY <1>3 DEF Requests, ToSet
  <2>2. ASSUME NEW r \in Requests(p) \cup Requests(q) PROVE r \in Requests(p \o q)
    BY <1>2 DEF Requests, ToSet
  <2> QED BY <2>1, <2>2
<1>5. ASSUME Once(p), Once(q), Requests(p) \cap Requests(q) = {} PROVE Once(p \o q)
  <2> SUFFICES ASSUME NEW i \in DOMAIN (p \o q), NEW j \in DOMAIN (p \o q), (p \o q)[i] = (p \o q)[j] PROVE i = j
    BY DEF Once
  <2>1. CASE i \in DOMAIN p /\ (p \o q)[i] = p[i] /\ j \in DOMAIN p /\ (p \o q)[j] = p[j]
    BY <1>5, <2>1 DEF Once
  <2>2. CASE /\ i - Len(p) \in DOMAIN q /\ (p \o q)[i] = q[i - Len(p)]
             /\ j - Len(p) \in DOMAIN q /\ (p \o q)[j] = q[j - Len(p)]
    <3>1. i - Len(p) = j - Len(p)
      BY <1>5, <2>2 DEF Once
    <3> QED BY <1>1, <3>1
  <2>3. \A k \in DOMAIN p : p[k] \in Requests(p)
    BY DEF Requests, ToSet
  <2>4. \A k \in DOMAIN q : q[k] \in Requests(q)
    BY DEF Requests, ToSet
  <2> QED BY <1>3, <1>5, <2>1, <2>2, <2>3, <2>4
<1> QED BY <1>1, <1>4, <1>5

LEMMA Singles ==
  ASSUME NEW r \in Request
  PROVE  <<r>> \in Seq(Request) /\ Requests(<<r>>) = {r} /\ Once(<<r>>)
  BY DEF Requests, ToSet, Once

LEMMA Appends ==
  ASSUME NEW q \in Seq(Request), NEW r \in Request
  PROVE  /\ Append(q, r) \in Seq(Request) /\ Requests(Append(q, r)) = Requests(q) \cup {r}
         /\ Once(q) /\ r \notin Requests(q) => Once(Append(q, r))
<1>1. Append(q, r) = q \o <<r>>
  BY AppendIsConcat
<1>2. <<r>> \in Seq(Request) /\ Requests(<<r>>) = {r} /\ Once(<<r>>)
  BY Singles
<1>3. /\ q \o <<r>> \in Seq(Request) /\ Requests(q \o <<r>>) = Requests(q) \cup {r}
      /\ Once(q) /\ Requests(q) \cap {r} = {} => Once(q \o <<r>>)
  BY <1>2, Joins
<1> QED BY <1>1, <1>3

LEMMA Pairs == ASSUME NEW x, NEW y PROVE Append(<<x>>, y) = <<x, y>>
<1> DEFINE s == <<x>>
<1>1. s \in Seq({x, y}) /\ y \in {x, y} /\ Len(s) = 1 /\ s[1] = x
  OBVIOUS
<1> DEFINE d == <<x, y>>
<1>2. d \in Seq({x, y}) /\ Len(d) = 2 /\ d[1] = x /\ d[2] = y
  OBVIOUS
<1> HIDE DEF s, d
<1> DEFINE T == {x, y}
<1>a. s \in Seq(T) /\ y \in T
  BY <1>1
<1> HIDE DEF T
<1>3. /\ Append(s, y) \in Seq(T) /\ Len(Append(s, y)) = Len(s) + 1
      /\ \A i \in 1..Len(s) : Append(s, y)[i] = s[i]
      /\ Append(s, y)[Len(s) + 1] = y
  BY <1>a, AppendProperties
<1>4. Len(Append(s, y)) = 2 /\ Append(s, y)[1] = x /\ Append(s, y)[2] = y
  BY <1>1, <1>3
<1>5. Append(s, y) = d
  <2>1. \A i \in 1..Len(d) : Append(s, y)[i] = d[i]
    BY <1>2, <1>4
  <2>2. d \in Seq(T)
    BY <1>2 DEF T
  <2> QED BY <1>2, <1>3, <1>4, <2>1, <2>2, SeqEqual
<1> QED BY <1>5 DEF s, d

LEMMA Elements == ASSUME NEW q \in Seq(Request) PROVE Requests(q) \in SUBSET Request
  BY DEF Requests, ToSet

LEMMA InitInv == Init => Inv
  <1> SUFFICES ASSUME Init PROVE Inv
    OBVIOUS
  <1>0. <<>> \in Seq(Request) /\ <<>> \in Seq(Seq(Request))
    OBVIOUS
  <1>1. Types
    BY <1>0 DEF Init, Types, NoWork, Works, Step
  <1>2. Running = {} /\ Cardinality(Running) = 0
    BY FS_EmptySet DEF Running, Init
  <1>3. Counted /\ Working
    BY <1>2 DEF Init, Counted, Working, NoWork
  <1>4. Later = {} /\ Rest = {} /\ Current = {} /\ \A t \in Thread : Outer(t) = {} /\ Inner(t) = {}
    BY Empties DEF Init, Later, Rest, Current, Outer, Inner, NoWork
  <1>5. Distinct
    BY <1>4, Empties DEF Init, Distinct, Own, NoWork
  <1>6. Fresh /\ Asked /\ OnDisk /\ Tracked
    BY <1>4 DEF Init, Fresh, Asked, OnDisk, Tracked, Own, Touched, NoWork
  <1> QED BY <1>1, <1>3, <1>5, <1>6 DEF Init, Inv, PinnedGeneration, LoadedIsKnown

(* Which of the places of requests a step leaves alone.                     *)
LEMMA FramesKept ==
  ASSUME UNCHANGED frames
  PROVE  /\ Running' = Running
         /\ \A t \in Thread : Outer(t)' = Outer(t) /\ Inner(t)' = Inner(t) /\ Own(t)' = Own(t)
  BY DEF Running, Outer, Inner, Own

LEMMA QueueKept ==
  ASSUME work'.queue = work.queue
  PROVE  Current' = Current /\ Rest' = Rest
  BY DEF Current, Rest

LEMMA LaterKept == ASSUME UNCHANGED pending PROVE Later' = Later
  BY DEF Later

(* Frames are nested twice at most.                                         *)
LEMMA Depth ==
  ASSUME Types, Counted, NEW t \in Thread
  PROVE  \/ frames[t] = <<>> /\ Outer(t) = {} /\ Inner(t) = {}
         \/ /\ Len(frames[t]) = 1 /\ frames[t] = <<frames[t][1]>> /\ frames[t][1] \in Seq(Request)
            /\ DOMAIN frames[t] = {1} /\ Outer(t) = Requests(frames[t][1]) /\ Inner(t) = {}
         \/ /\ Len(frames[t]) = 2 /\ frames[t] = <<frames[t][1], frames[t][2]>>
            /\ frames[t][1] \in Seq(Request) /\ frames[t][2] \in Seq(Request) /\ DOMAIN frames[t] = {1, 2}
            /\ Outer(t) = Requests(frames[t][1]) /\ Inner(t) = Requests(frames[t][2])
<1>1. frames[t] \in Seq(Seq(Request)) /\ Len(frames[t]) \in Nat /\ Len(frames[t]) <= 2
  BY DEF Types, Counted
<1>2. CASE Len(frames[t]) = 0
  BY <1>1, <1>2, EmptySeq DEF Outer, Inner
<1>3. CASE Len(frames[t]) = 1
  BY <1>1, <1>3 DEF Outer, Inner
<1>4. CASE Len(frames[t]) = 2
  <2>1. DOMAIN frames[t] = {1, 2}
    BY <1>1, <1>4
  <2>2. frames[t][1] \in Seq(Request) /\ frames[t][2] \in Seq(Request)
    BY <1>1, <2>1
  <2>3. frames[t] = <<frames[t][1], frames[t][2]>>
    BY <1>1, <1>4, <2>2
  <2>4. frames[t] # <<>>
    BY <1>4
  <2>5. Outer(t) = Requests(frames[t][1]) /\ Inner(t) = Requests(frames[t][2])
    BY <1>4, <2>4 DEF Outer, Inner
  <2> QED BY <1>4, <2>1, <2>2, <2>3, <2>5
<1>5. Len(frames[t]) = 0 \/ Len(frames[t]) = 1 \/ Len(frames[t]) = 2
  <2> DEFINE n == Len(frames[t])
  <2>1. n \in Nat /\ n <= 2
    BY <1>1
  <2> HIDE DEF n
  <2>2. n = 0 \/ n = 1 \/ n = 2
    BY <2>1
  <2> QED BY <2>2 DEF n
<1> QED BY <1>2, <1>3, <1>4, <1>5, Zenon

LEMMA RunningFinite == IsFiniteSet(Running) /\ Cardinality(Running) \in Nat
  BY PluginAssumption, FS_Subset, FS_CardinalityType DEF Running

LEMMA Idle == ASSUME Counted, busy = 0 PROVE \A t \in Thread : frames[t] = <<>> /\ Outer(t) = {} /\ Inner(t) = {}
<1>1. Running = {}
  BY RunningFinite, FS_EmptySet DEF Counted
<1> QED BY <1>1 DEF Running, Outer, Inner

(* An operation begins.                                                     *)
LEMMA Enters ==
  ASSUME Types, Counted, NEW t \in Thread, frames[t] = <<>>, Enter(t), generation' \in Nat
  PROVE  /\ frames' \in [Thread -> Seq(Seq(Request))] /\ pinned' \in [Thread -> Nat] /\ busy' \in Nat \ {0}
         /\ busy' = Cardinality(Running)' /\ \A u \in Thread : Len(frames'[u]) <= 2
         /\ \A u \in Thread : Outer(u)' = Outer(u) /\ Inner(u)' = Inner(u) /\ Own(u)' = Own(u)
         /\ frames'[t] = <<<<>>>> /\ pinned'[t] = generation'
         /\ \A u \in Thread \ {t} : frames'[u] = frames[u] /\ pinned'[u] = pinned[u]
<1>1. <<<<>>>> \in Seq(Seq(Request)) /\ Len(<<<<>>>>) = 1
  OBVIOUS
<1>2. /\ frames' = [frames EXCEPT ![t] = <<<<>>>>] /\ pinned' = [pinned EXCEPT ![t] = generation']
      /\ busy' = busy + 1
  BY DEF Enter
<1>3. /\ frames' \in [Thread -> Seq(Seq(Request))] /\ pinned' \in [Thread -> Nat]
      /\ frames'[t] = <<<<>>>> /\ pinned'[t] = generation'
      /\ \A u \in Thread \ {t} : frames'[u] = frames[u] /\ pinned'[u] = pinned[u]
  BY <1>1, <1>2 DEF Types
<1>4. Running' = Running \cup {t} /\ t \notin Running
  BY <1>1, <1>3, EmptySeq DEF Running
<1>5. busy' = Cardinality(Running') /\ busy' \in Nat \ {0}
  <2>1. Cardinality(Running \cup {t}) = Cardinality(Running) + 1
    BY <1>4, RunningFinite, FS_AddElement
  <2>2. busy = Cardinality(Running) /\ busy \in Nat
    BY DEF Counted, Types
  <2> QED BY <1>2, <1>4, <2>1, <2>2
<1>6. \A u \in Thread : Len(frames'[u]) <= 2
  <2>1. \A u \in Thread : Len(frames[u]) <= 2
    BY DEF Counted
  <2>2. Len(frames'[t]) <= 2
    BY <1>1, <1>3
  <2> QED BY <1>3, <2>1, <2>2
<1>7. \A u \in Thread : Outer(u)' = Outer(u) /\ Inner(u)' = Inner(u)
  <2>1. frames'[t] # <<>> /\ frames'[t][1] = <<>> /\ Len(frames'[t]) # 2 /\ Len(frames[t]) # 2
    BY <1>1, <1>3
  <2>2. Outer(t)' = Outer(t) /\ Inner(t)' = Inner(t)
    BY <2>1, Empties DEF Outer, Inner
  <2> QED BY <1>3, <2>2 DEF Outer, Inner
<1> QED BY <1>3, <1>5, <1>6, <1>7 DEF Own

LEMMA Places ==
  ASSUME Types, Distinct
  PROVE  /\ Current \in SUBSET Request /\ Rest \in SUBSET Request /\ Later \in SUBSET Request
         /\ Current \cap Rest = {} /\ Requests(work.queue) = Current \cup Rest
<1>1. work.queue \in Seq(Request) /\ pending \in Seq(Request)
  BY DEF Types, Works
<1>2. CASE work.queue = <<>>
  BY <1>1, <1>2, Empties, Elements DEF Current, Rest, Later
<1>3. CASE work.queue # <<>>
  <2>1. /\ Tail(work.queue) \in Seq(Request) /\ Head(work.queue) \in Request
        /\ Requests(work.queue) = {Head(work.queue)} \cup Requests(Tail(work.queue))
        /\ Head(work.queue) \notin Requests(Tail(work.queue))
    BY <1>1, <1>3, Tails DEF Distinct
  <2>2. Current = {Head(work.queue)} /\ Rest = Requests(Tail(work.queue))
    BY <1>3 DEF Current, Rest
  <2> QED BY <1>1, <2>1, <2>2, Elements DEF Later
<1> QED BY <1>2, <1>3

(* After an application the next one is prepared, or the operation that     *)
(* refreshed begins.                                                        *)
LEMMA NoWorks == NoWork \in Works /\ NoWork.at = "none" /\ NoWork.queue = <<>>
<1>1. <<>> \in Seq(Request)
  OBVIOUS
<1> QED BY <1>1 DEF NoWork, Works, Step

LEMMA Applying ==
  ASSUME NEW t \in Thread, NEW q \in Seq(Request)
  PROVE  /\ Applies(t, q) \in Works /\ Applies(t, q).at = "prepare" /\ Applies(t, q).queue = q
         /\ Applies(t, q).by = t
  BY NoWorks DEF Applies, NoWork, Works, Step

LEMMA GoesOn ==
  ASSUME Types, Counted, Working, PinnedGeneration, Distinct, work.at # "none", Proceeds,
         generation' \in Nat, UNCHANGED <<pending, closed, asker, condemned>>
  PROVE  /\ frames' \in [Thread -> Seq(Seq(Request))] /\ pinned' \in [Thread -> Nat] /\ busy' \in Nat
         /\ work' \in Works /\ work'.at \in {"none", "prepare"}
         /\ Counted' /\ Working' /\ PinnedGeneration' /\ Distinct'
         /\ Later = {} /\ Later' = {} /\ Current' \cup Rest' = Rest
         /\ \A t \in Thread : Own(t) = {} /\ Own(t)' = {}
<1>1. work # NoWork /\ busy = 0 /\ pending = <<>> /\ ~closed
  BY NoWorks DEF Counted
<1>2. \A t \in Thread : frames[t] = <<>> /\ Outer(t) = {} /\ Inner(t) = {}
  BY <1>1, Idle
<1>3. Later = {} /\ Later' = {} /\ Once(pending)'
  BY <1>1, Empties DEF Later, Distinct
<1>4. CASE work.queue = <<>>
  <2>1. work' = NoWork /\ Enter(work.by) /\ work.by \in Thread
    BY <1>4 DEF Proceeds, Working
  <2>2. /\ frames' \in [Thread -> Seq(Seq(Request))] /\ pinned' \in [Thread -> Nat] /\ busy' \in Nat \ {0}
        /\ busy' = Cardinality(Running)' /\ \A u \in Thread : Len(frames'[u]) <= 2
        /\ \A u \in Thread : Outer(u)' = {} /\ Inner(u)' = {}
        /\ frames'[work.by] = <<<<>>>> /\ pinned'[work.by] = generation'
        /\ \A u \in Thread \ {work.by} : frames'[u] = <<>>
    BY <1>2, <2>1, Enters
  <2>3. Current' = {} /\ Rest' = {} /\ Rest = {} /\ Once(work.queue)'
    BY <1>4, <2>1, NoWorks, Empties DEF Current, Rest
  <2>4. \A u \in Thread : \A i \in DOMAIN frames'[u] : Once(frames'[u][i])
    BY <2>2, Empties
  <2>5. Counted' /\ Working' /\ PinnedGeneration'
    BY <1>1, <2>1, <2>2, NoWorks DEF Counted, Working, PinnedGeneration
  <2>6. Distinct'
    BY <1>3, <2>2, <2>3, <2>4 DEF Distinct, Own
  <2> QED BY <1>2, <1>3, <2>1, <2>2, <2>3, <2>5, <2>6, NoWorks DEF Own
<1>5. CASE work.queue # <<>>
  <2>1. UNCHANGED <<frames, pinned, busy>>
    BY <1>5 DEF Proceeds
  <2>2. /\ Tail(work.queue) \in Seq(Request) /\ Once(Tail(work.queue)) /\ Rest = Requests(Tail(work.queue))
        /\ work.by \in Thread
    BY <1>5, Tails DEF Types, Works, Distinct, Rest, Working
  <2>3. /\ work' \in Works /\ work'.queue = Tail(work.queue) /\ work'.at \in {"none", "prepare"}
        /\ work'.at = "none" => work' = NoWork /\ work'.queue = <<>>
        /\ work'.at # "none" => work'.by \in Thread /\ work'.queue # <<>>
    <3>1. CASE Tail(work.queue) = <<>>
      BY <1>5, <3>1, NoWorks DEF Proceeds
    <3>2. CASE Tail(work.queue) # <<>>
      <4>1. work' = Applies(work.by, Tail(work.queue))
        BY <1>5, <3>2 DEF Proceeds
      <4>2. work' \in Works /\ work'.at = "prepare" /\ work'.queue = Tail(work.queue) /\ work'.by = work.by
        <5> DEFINE b == work.by
                   q == Tail(work.queue)
        <5>1. b \in Thread /\ q \in Seq(Request) /\ work' = Applies(b, q)
          BY <2>2, <4>1
        <5> HIDE DEF b, q
        <5>2. work' \in Works /\ work'.at = "prepare" /\ work'.queue = q /\ work'.by = b
          BY <5>1, Applying
        <5> QED BY <5>2 DEF b, q
      <4> QED BY <2>2, <3>2, <4>2
    <3> QED BY <3>1, <3>2
  <2>4. Current' \cup Rest' = Rest
    <3>1. CASE Tail(work.queue) = <<>>
      BY <2>2, <2>3, <3>1, Empties DEF Current, Rest
    <3>2. CASE Tail(work.queue) # <<>>
      BY <2>2, <2>3, <3>2, Tails DEF Current, Rest
    <3> QED BY <3>1, <3>2
  <2>5. \A t \in Thread : Outer(t)' = {} /\ Inner(t)' = {}
    BY <1>2, <2>1 DEF Outer, Inner
  <2>6. Running' = Running
    BY <2>1 DEF Running
  <2>7. Counted' /\ Working' /\ PinnedGeneration'
    BY <1>1, <1>2, <2>1, <2>3, <2>6 DEF Counted, Working, PinnedGeneration
  <2>8. Distinct'
    BY <1>2, <1>3, <2>1, <2>2, <2>3, <2>5 DEF Distinct, Own
  <2> QED BY <1>2, <1>3, <2>1, <2>3, <2>4, <2>5, <2>7, <2>8 DEF Own, Types
<1> QED BY <1>4, <1>5

(* A step that moves no request.                                            *)
LEMMA NothingMoves ==
  ASSUME Inv, UNCHANGED <<status, disk, active, asker, condemned, deaf>>,
         Later' = Later, Current' = Current, Rest' = Rest, \A t \in Thread : Own(t)' = Own(t),
         \/ work'.at = work.at
         \/ work'.at \in {"capture", "validate"} /\ (Current = {} \/ work.at \in {"capture", "validate"})
  PROVE  Fresh' /\ Asked' /\ OnDisk' /\ Tracked'
<1>1. UNCHANGED <<held, journal, installed, reverted>> /\ Touched' = Touched
  BY DEF disk, Touched
<1>2. Fresh'
  BY <1>1 DEF Inv, Fresh
<1>3. Asked'
  BY <1>1 DEF Inv, Asked
<1>4. OnDisk' /\ Tracked'
  BY <1>1 DEF Inv, OnDisk, Tracked
<1> QED BY <1>2, <1>3, <1>4

LEMMA Unframed ==
  ASSUME Inv, UNCHANGED <<frames, pending, asker, condemned>>, work'.queue = work.queue
  PROVE  /\ Distinct' /\ Running' = Running /\ Later' = Later /\ Current' = Current /\ Rest' = Rest
         /\ \A t \in Thread : Own(t)' = Own(t)
<1>1. /\ Running' = Running /\ Later' = Later /\ Current' = Current /\ Rest' = Rest
      /\ \A t \in Thread : Outer(t)' = Outer(t) /\ Inner(t)' = Inner(t) /\ Own(t)' = Own(t)
  BY FramesKept, QueueKept, LaterKept
<1>2. Distinct'
  BY <1>1 DEF Inv, Distinct
<1> QED BY <1>1, <1>2

LEMMA BeginInv == ASSUME Inv, NEW t \in Thread, Begin(t) PROVE Inv'
<1>1. /\ frames[t] = <<>> /\ work = NoWork /\ ~closed /\ Enter(t) /\ operations' \in Nat
      /\ UNCHANGED <<generation, runtime, active, loaded, known, rejected, work, edits, status, disk, past>>
  BY DEF Begin, Outside, Unlocked, Inv, Types
<1>2. /\ frames' \in [Thread -> Seq(Seq(Request))] /\ pinned' \in [Thread -> Nat] /\ busy' \in Nat \ {0}
      /\ busy' = Cardinality(Running)' /\ \A u \in Thread : Len(frames'[u]) <= 2
      /\ \A u \in Thread : Outer(u)' = Outer(u) /\ Inner(u)' = Inner(u) /\ Own(u)' = Own(u)
      /\ frames'[t] = <<<<>>>> /\ pinned'[t] = generation'
      /\ \A u \in Thread \ {t} : frames'[u] = frames[u] /\ pinned'[u] = pinned[u]
  BY <1>1, Enters DEF Inv, Types
<1>3. Later' = Later /\ Current' = Current /\ Rest' = Rest
  BY <1>1, LaterKept, QueueKept DEF runtime
<1>4. \A u \in Thread : \A i \in DOMAIN frames'[u] : Once(frames'[u][i])
  <2>1. \A i \in DOMAIN frames'[t] : Once(frames'[t][i])
    <3>1. DOMAIN <<<<>>>> = {1} /\ <<<<>>>>[1] = <<>>
      OBVIOUS
    <3> QED BY <1>2, <3>1, Empties
  <2> QED BY <1>2, <2>1 DEF Inv, Distinct
<1>5. Distinct'
  BY <1>1, <1>2, <1>4 DEF Inv, Distinct, Own, runtime, past
<1>6. Types'
  BY <1>1, <1>2 DEF Inv, Types, runtime, edits, disk, past
<1>7. Counted' /\ Working' /\ PinnedGeneration' /\ LoadedIsKnown'
  BY <1>1, <1>2 DEF Inv, Counted, Working, PinnedGeneration, LoadedIsKnown, runtime
<1>8. Fresh' /\ Asked' /\ OnDisk' /\ Tracked'
  BY <1>1, <1>2, <1>3, NothingMoves DEF past
<1> QED BY <1>5, <1>6, <1>7, <1>8 DEF Inv

LEMMA RefreshInv == ASSUME Inv, NEW t \in Thread, Refresh(t) PROVE Inv'
<1>1. /\ busy = 0 /\ work = NoWork /\ ~closed /\ operations' \in Nat
      /\ work' = [NoWork EXCEPT !.by = t, !.at = "capture", !.watched = source]
      /\ UNCHANGED <<frames, pinned, busy, runtime, plugins, edits, status, disk, past>>
  BY DEF Refresh, Unlocked, Stale, Inv, Types
<1>2. work' \in Works /\ work'.queue = work.queue /\ work'.at = "capture" /\ work'.by = t /\ work'.queue = <<>>
  BY <1>1, NoWorks DEF Inv, Types, Works, NoWork, Step
<1>3. Distinct' /\ Running' = Running /\ Later' = Later /\ Current' = Current /\ Rest' = Rest
      /\ \A u \in Thread : Own(u)' = Own(u)
  BY <1>1, <1>2, Unframed DEF runtime, past
<1>4. Current = {}
  BY <1>1, NoWorks DEF Current
<1>5. Types'
  BY <1>1, <1>2 DEF Inv, Types, runtime, plugins, edits, disk, past
<1>6. Counted' /\ Working' /\ PinnedGeneration' /\ LoadedIsKnown'
  BY <1>1, <1>2, <1>3 DEF Inv, Counted, Working, PinnedGeneration, LoadedIsKnown, runtime, plugins
<1>7. Fresh' /\ Asked' /\ OnDisk' /\ Tracked'
  BY <1>1, <1>2, <1>3, <1>4, NothingMoves DEF plugins, past
<1> QED BY <1>3, <1>5, <1>6, <1>7 DEF Inv

LEMMA NestInv == ASSUME Inv, NEW t \in Thread, Nest(t) PROVE Inv'
<1>1. /\ Len(frames[t]) = 1 /\ frames' = [frames EXCEPT ![t] = Append(@, <<>>)] /\ operations' \in Nat
      /\ UNCHANGED <<pinned, busy, runtime, plugins, work, edits, status, disk, past>>
  BY DEF Nest, Inv, Types
<1>2. /\ frames[t] = <<frames[t][1]>> /\ frames[t][1] \in Seq(Request) /\ Inner(t) = {}
      /\ Outer(t) = Requests(frames[t][1]) /\ DOMAIN frames[t] = {1} /\ frames[t] # <<>>
  <2>1. frames[t] # <<>> /\ Len(frames[t]) # 2
    BY <1>1
  <2> QED BY <2>1, Depth DEF Inv
<1>3. /\ frames'[t] = <<frames[t][1], <<>>>> /\ frames'[t] \in Seq(Seq(Request))
      /\ \A u \in Thread \ {t} : frames'[u] = frames[u]
      /\ frames' \in [Thread -> Seq(Seq(Request))]
  <2>1. Append(<<frames[t][1]>>, <<>>) = <<frames[t][1], <<>>>>
    BY Pairs
  <2>2. frames'[t] = <<frames[t][1], <<>>>>
    BY <1>1, <1>2, <2>1 DEF Inv, Types
  <2>3. <<frames[t][1], <<>>>> \in Seq(Seq(Request))
    BY <1>2
  <2> QED BY <1>1, <2>2, <2>3 DEF Inv, Types
<1>4. frames'[t] # <<>> /\ Len(frames'[t]) = 2 /\ frames'[t][1] = frames[t][1] /\ frames'[t][2] = <<>>
      /\ DOMAIN frames'[t] = {1, 2}
  BY <1>3
<1>5. \A u \in Thread : Outer(u)' = Outer(u) /\ Inner(u)' = Inner(u) /\ Own(u)' = Own(u)
  <2>1. Outer(t)' = Outer(t) /\ Inner(t)' = Inner(t)
    BY <1>2, <1>4, Empties DEF Outer, Inner
  <2> QED BY <1>3, <2>1 DEF Outer, Inner, Own
<1>6. Running' = Running
  BY <1>2, <1>3, <1>4 DEF Running
<1>7. Later' = Later /\ Current' = Current /\ Rest' = Rest
  BY <1>1, LaterKept, QueueKept DEF runtime
<1>8. \A u \in Thread : \A i \in DOMAIN frames'[u] : Once(frames'[u][i])
  <2>1. \A i \in DOMAIN frames'[t] : Once(frames'[t][i])
    BY <1>2, <1>4, Empties DEF Inv, Distinct
  <2> QED BY <1>3, <2>1 DEF Inv, Distinct
<1>9. Distinct'
  BY <1>1, <1>5, <1>8 DEF Inv, Distinct, runtime, past
<1>10. Types'
  BY <1>1, <1>3 DEF Inv, Types, runtime, plugins, edits, disk, past
<1>11. \A u \in Thread : Len(frames'[u]) <= 2
  <2>1. Len(frames'[t]) <= 2
    BY <1>4
  <2> QED BY <1>3, <2>1 DEF Inv, Counted
<1>12. Counted' /\ Working' /\ PinnedGeneration' /\ LoadedIsKnown'
  BY <1>1, <1>2, <1>3, <1>6, <1>11 DEF Inv, Counted, Working, PinnedGeneration, LoadedIsKnown, runtime, plugins
<1>13. Fresh' /\ Asked' /\ OnDisk' /\ Tracked'
  BY <1>1, <1>5, <1>7, NothingMoves DEF plugins, past
<1> QED BY <1>9, <1>10, <1>12, <1>13 DEF Inv

LEMMA StillInv == ASSUME Inv, Capture \/ Close \/ Write \/ UNCHANGED vars PROVE Inv'
<1>1. /\ UNCHANGED <<frames, pinned, busy, operations, pending, plugins, status, disk, past>>
      /\ writes' \in Nat /\ source' \in Nat
  BY DEF Capture, Close, Write, vars, calls, runtime, edits, Inv, Types
<1>2. /\ work' \in Works /\ work'.queue = work.queue /\ work'.by = work.by
      /\ closed' \in BOOLEAN /\ closing' \in BOOLEAN
      /\ \/ UNCHANGED <<work, closed>>
         \/ work = NoWork /\ work' = work /\ busy = 0 /\ closed'
         \/ work.at = "capture" /\ work'.at = "validate" /\ closed' = closed
  <2>1. CASE Capture
    BY <2>1 DEF Capture, runtime, edits, Inv, Types, Works, Step
  <2>2. CASE Close
    <3>1. work = NoWork /\ work' = work /\ work \in Works
      BY <2>2 DEF Close, Unlocked, Inv, Types
    <3>2. CASE busy > 0
      BY <2>2, <3>1, <3>2 DEF Close, Inv, Types
    <3>3. CASE ~(busy > 0)
      <4>1. busy = 0
        BY <3>3 DEF Inv, Types
      <4>2. closed' = TRUE /\ closing' = closing
        BY <2>2, <3>3 DEF Close
      <4> QED BY <3>1, <4>1, <4>2 DEF Inv, Types
    <3> QED BY <3>2, <3>3
  <2>3. CASE Write \/ UNCHANGED vars
    BY <2>3 DEF Write, vars, runtime, Inv, Types
  <2> QED BY <2>1, <2>2, <2>3
<1>3. Distinct' /\ Running' = Running /\ Later' = Later /\ Current' = Current /\ Rest' = Rest
      /\ \A u \in Thread : Own(u)' = Own(u)
  BY <1>1, <1>2, Unframed DEF past
<1>4. Types'
  BY <1>1, <1>2 DEF Inv, Types, plugins, disk, past
<1>5. Counted' /\ Working' /\ PinnedGeneration' /\ LoadedIsKnown'
  BY <1>1, <1>2, <1>3, NoWorks DEF Inv, Counted, Working, PinnedGeneration, LoadedIsKnown, plugins
<1>6. Fresh' /\ Asked' /\ OnDisk' /\ Tracked'
  BY <1>1, <1>2, <1>3, NothingMoves DEF plugins, past
<1> QED BY <1>3, <1>4, <1>5, <1>6 DEF Inv

LEMMA EndNestedInv == ASSUME Inv, NEW t \in Thread, NEW succeeded \in BOOLEAN, EndNested(t, succeeded) PROVE Inv'
<1> DEFINE f1 == frames[t][1]
           f2 == frames[t][2]
           f == IF succeeded THEN f1 \o f2 ELSE f1
<1>1. /\ Len(frames[t]) = 2 /\ work = NoWork /\ frames' = [frames EXCEPT ![t] = <<f>>]
      /\ IF succeeded THEN UNCHANGED <<status, condemned>>
         ELSE Settle(Requests(f2), "undone") /\ condemned' = condemned \cup Requests(f2)
      /\ UNCHANGED <<pinned, busy, operations, runtime, plugins, work, edits, disk, asker, deaf>>
  BY DEF EndNested, Unlocked
<1>2. /\ f1 \in Seq(Request) /\ f2 \in Seq(Request) /\ Outer(t) = Requests(f1) /\ Inner(t) = Requests(f2)
      /\ DOMAIN frames[t] = {1, 2} /\ frames[t] # <<>>
  <2>1. frames[t] # <<>> /\ Len(frames[t]) # 1
    BY <1>1
  <2> QED BY <2>1, Depth DEF Inv
<1>3. Once(f1) /\ Once(f2) /\ Requests(f1) \cap Requests(f2) = {}
  BY <1>2 DEF Inv, Distinct
<1>4. /\ f \in Seq(Request) /\ Once(f)
      /\ Requests(f) = Requests(f1) \cup IF succeeded THEN Requests(f2) ELSE {}
  <2> HIDE DEF f1, f2
  <2> QED BY <1>2, <1>3, Joins DEF f1, f2
<1> HIDE DEF f, f1, f2
<1>5. /\ frames'[t] = <<f>> /\ \A u \in Thread \ {t} : frames'[u] = frames[u]
      /\ frames' \in [Thread -> Seq(Seq(Request))]
  <2>1. <<f>> \in Seq(Seq(Request))
    BY <1>4
  <2> QED BY <1>1, <2>1 DEF Inv, Types
<1>6. frames'[t] # <<>> /\ Len(frames'[t]) = 1 /\ frames'[t][1] = f /\ DOMAIN frames'[t] = {1}
  BY <1>5
<1>7. Outer(t)' = Requests(f) /\ Inner(t)' = {} /\ Own(t)' = Requests(f)
  BY <1>6 DEF Outer, Inner, Own
<1>8. \A u \in Thread \ {t} : Outer(u)' = Outer(u) /\ Inner(u)' = Inner(u) /\ Own(u)' = Own(u)
  BY <1>5 DEF Outer, Inner, Own
<1>9. Running' = Running
  BY <1>2, <1>5, <1>6 DEF Running
<1>10. Later' = Later /\ Current' = Current /\ Rest' = Rest /\ Requests(f2) \in SUBSET Request
  BY <1>1, <1>2, LaterKept, QueueKept, Elements DEF runtime
<1>11. \A u \in Thread : \A i \in DOMAIN frames'[u] : Once(frames'[u][i])
  <2>1. \A i \in DOMAIN frames'[t] : Once(frames'[t][i])
    BY <1>4, <1>6
  <2> QED BY <1>5, <2>1 DEF Inv, Distinct
<1>12. Types'
  BY <1>1, <1>5, <1>10 DEF Inv, Types, Settle, runtime, plugins, edits, disk
<1>13. \A u \in Thread : Len(frames'[u]) <= 2
  <2>1. Len(frames'[t]) <= 2
    BY <1>6
  <2> QED BY <1>5, <2>1 DEF Inv, Counted
<1>14. Counted' /\ Working' /\ PinnedGeneration' /\ LoadedIsKnown'
  BY <1>1, <1>2, <1>5, <1>9, <1>13 DEF Inv, Counted, Working, PinnedGeneration, LoadedIsKnown, runtime, plugins
<1>15. CASE succeeded
  <2>1. \A u \in Thread : Own(u)' = Own(u) /\ Outer(u)' \cap Inner(u)' = {}
    BY <1>2, <1>4, <1>7, <1>8, <1>15 DEF Own, Inv, Distinct
  <2>2. Distinct'
    BY <1>1, <1>11, <1>15, <2>1 DEF Inv, Distinct, runtime
  <2>3. Fresh' /\ Asked' /\ OnDisk' /\ Tracked'
    BY <1>1, <1>10, <1>15, <2>1, NothingMoves DEF plugins
  <2> QED BY <1>12, <1>14, <2>2, <2>3 DEF Inv
<1>16. CASE ~succeeded
  <2>1. /\ Own(t)' = Outer(t) /\ Own(t) = Outer(t) \cup Inner(t) /\ Outer(t) \cap Inner(t) = {}
        /\ Requests(f) = Outer(t) /\ Inner(t)' = {}
    BY <1>2, <1>3, <1>4, <1>7, <1>16 DEF Own
  <2>2. /\ \A r \in Request : status'[r] = IF r \in Inner(t) THEN "undone" ELSE status[r]
        /\ condemned' = condemned \cup Inner(t) /\ Inner(t) \in SUBSET Request
    BY <1>1, <1>2, <1>10, <1>16 DEF Settle
  <2>3. \A u \in Thread \ {t} : Own(u) \cap Own(t) = {}
    BY DEF Inv, Distinct
  <2>4. Distinct'
    BY <1>1, <1>8, <1>11, <2>1, <2>2, <2>3 DEF Inv, Distinct, runtime
  <2>5. UNCHANGED <<held, journal, installed, reverted, active, work, deaf>> /\ Touched' = Touched
    BY <1>1 DEF disk, plugins, Touched
  <2>6. Fresh' /\ OnDisk'
    BY <1>10, <2>5 DEF Inv, Fresh, OnDisk
  <2>7. \A r \in Inner(t) : asker[r] = t /\ t # None
    BY <2>1, PluginAssumption DEF Inv, Distinct
  <2>8. Asked'
    <3> SUFFICES ASSUME NEW r \in Request
                 PROVE  /\ status'[r] = "new" => /\ asker'[r] = None /\ r \notin condemned'
                                                 /\ r \notin (Later \cup Current \cup Rest \cup Touched)'
                        /\ asker'[r] # None => r \notin (Later \cup Current \cup Rest \cup Touched)'
                        /\ r \in condemned' => r \notin (Later \cup Current \cup Rest \cup active)'
      BY DEF Asked
    <3>1. asker' = asker /\ (r \in Inner(t) => asker[r] # None)
      BY <1>1, <2>7
    <3>2. CASE r \in Inner(t)
      BY <1>10, <2>2, <2>5, <3>1, <3>2 DEF Inv, Asked, Touched
    <3>3. CASE r \notin Inner(t)
      BY <1>10, <2>2, <2>5, <3>1, <3>3 DEF Inv, Asked
    <3> QED BY <3>2, <3>3
  <2>9. \A r \in Inner(t) : r \notin Later \cup Current \cup Rest
    BY <2>2, <2>7 DEF Inv, Asked
  <2>10. Tracked'
    <3>1. \A r \in (Later \cup Current \cup Rest)' : status'[r] = "asked"
      BY <1>10, <2>2, <2>9, Places DEF Inv, Tracked
    <3>2. \A u \in Thread : \A r \in Own(u)' : status'[r] = "asked"
      <4>1. ASSUME NEW r \in Own(t)' PROVE status'[r] = "asked"
        BY <2>1, <2>2, <4>1, <1>2, Elements DEF Inv, Tracked
      <4>2. ASSUME NEW u \in Thread \ {t}, NEW r \in Own(u)' PROVE status'[r] = "asked"
        <5>1. r \in Own(u) /\ r \notin Inner(t) /\ Own(u) \in SUBSET Request
          BY <1>8, <2>1, <2>3, <4>2, Depth, Elements DEF Own, Inv
        <5> QED BY <2>2, <5>1 DEF Inv, Tracked
      <4> QED BY <4>1, <4>2
    <3>3. \A r \in Request : status'[r] = "asked" => status[r] = "asked" /\ r \notin Inner(t)
      BY <2>2
    <3>4. ASSUME ~deaf', NEW r \in Request, status'[r] = "asked"
          PROVE  r \in (Later \cup Current \cup Rest)' \/ \E u \in Thread : r \in Own(u)'
      <4>1. r \in Later \cup Current \cup Rest \/ \E u \in Thread : r \in Own(u)
        BY <2>5, <3>3, <3>4 DEF Inv, Tracked
      <4> QED BY <1>8, <1>10, <2>1, <3>3, <3>4, <4>1
    <3> QED BY <1>10, <2>5, <3>1, <3>2, <3>4 DEF Inv, Tracked
  <2> QED BY <1>12, <1>14, <2>4, <2>6, <2>8, <2>10 DEF Inv
<1> QED BY <1>15, <1>16

LEMMA AskInv == ASSUME Inv, NEW t \in Thread, NEW r \in Request, Ask(t, r) PROVE Inv'
<1> DEFINE n == Len(frames[t])
           f == Append(frames[t][n], r)
<1>1. /\ frames[t] # <<>> /\ work = NoWork /\ status[r] = "new" /\ status' = [status EXCEPT ![r] = "asked"]
      /\ frames' = [frames EXCEPT ![t] = [frames[t] EXCEPT ![n] = f]] /\ asker' = [asker EXCEPT ![r] = t]
      /\ UNCHANGED <<pinned, busy, operations, runtime, plugins, work, edits, disk, condemned, deaf>>
  BY DEF Ask, Outside, Unlocked, Inv, Types
<1>2. /\ asker[r] = None /\ r \notin condemned /\ r \notin Later \cup Current \cup Rest \cup Touched
      /\ \A u \in Thread : r \notin Own(u)
  BY <1>1, PluginAssumption DEF Inv, Asked, Distinct
<1>3. /\ n \in {1, 2} /\ DOMAIN frames[t] = 1..n /\ frames[t][n] \in Seq(Request)
      /\ n = 1 => Outer(t) = Requests(frames[t][1]) /\ Inner(t) = {}
      /\ n = 2 => Outer(t) = Requests(frames[t][1]) /\ Inner(t) = Requests(frames[t][2])
  <2>1. frames[t] # <<>> /\ n \in Nat /\ n # 0
    BY <1>1 DEF Inv, Types
  <2>2. CASE n = 1
    BY <2>1, <2>2, Depth DEF Inv
  <2>3. CASE n = 2
    BY <2>1, <2>3, Depth DEF Inv
  <2>4. n <= 2
    BY DEF Inv, Counted
  <2> HIDE DEF n
  <2>5. n = 1 \/ n = 2
    BY <2>1, <2>4
  <2> QED BY <2>2, <2>3, <2>5
<1>4. r \notin Requests(frames[t][n]) /\ Once(frames[t][n])
  BY <1>2, <1>3 DEF Own, Inv, Distinct
<1>5. f \in Seq(Request) /\ Requests(f) = Requests(frames[t][n]) \cup {r} /\ Once(f)
  BY <1>3, <1>4, Appends
<1>6. /\ frames'[t] = [frames[t] EXCEPT ![n] = f] /\ \A u \in Thread \ {t} : frames'[u] = frames[u]
      /\ frames' \in [Thread -> Seq(Seq(Request))]
  <2>1. [frames[t] EXCEPT ![n] = f] \in Seq(Seq(Request))
    <3>1. frames[t] \in Seq(Seq(Request)) /\ n \in 1..Len(frames[t])
      BY <1>3 DEF Inv, Types
    <3> HIDE DEF n, f
    <3> QED BY <1>5, <3>1, ExceptSeq
  <2> QED BY <1>1, <2>1 DEF Inv, Types
<1> HIDE DEF f
<1>7. /\ Len(frames'[t]) = n /\ DOMAIN frames'[t] = 1..n /\ frames'[t] # <<>> /\ frames'[t][n] = f
      /\ n = 2 => frames'[t][1] = frames[t][1]
  <2>1. DOMAIN frames'[t] = 1..n /\ frames'[t][n] = f /\ (n = 2 => frames'[t][1] = frames[t][1])
    BY <1>3, <1>6
  <2>2. Len(frames'[t]) = n /\ frames'[t] # <<>>
    <3>1. frames'[t] \in Seq(Seq(Request))
      BY <1>6
    <3> HIDE DEF n
    <3> QED BY <1>3, <2>1, <3>1, LenProperties
  <2> QED BY <2>1, <2>2
<1>8. /\ Own(t)' = Own(t) \cup {r} /\ Outer(t)' \cap Inner(t)' = {}
  <2> HIDE DEF n
  <2>1. CASE n = 1
    <3>1. Outer(t)' = Outer(t) \cup {r} /\ Inner(t)' = {}
      BY <1>3, <1>5, <1>7, <2>1 DEF Outer, Inner
    <3> QED BY <1>3, <2>1, <3>1 DEF Own
  <2>2. CASE n = 2
    <3>1. Outer(t)' = Outer(t) /\ Inner(t)' = Inner(t) \cup {r}
      BY <1>3, <1>5, <1>7, <2>2 DEF Outer, Inner
    <3> QED BY <1>2, <3>1 DEF Own, Inv, Distinct
  <2> QED BY <1>3, <2>1, <2>2
<1>9. \A u \in Thread \ {t} : Outer(u)' = Outer(u) /\ Inner(u)' = Inner(u) /\ Own(u)' = Own(u)
  BY <1>6 DEF Outer, Inner, Own
<1>10. Running' = Running
  BY <1>1, <1>6, <1>7 DEF Running
<1>11. Later' = Later /\ Current' = Current /\ Rest' = Rest
  BY <1>1, LaterKept, QueueKept DEF runtime
<1>12. \A u \in Thread : \A i \in DOMAIN frames'[u] : Once(frames'[u][i])
  <2>1. \A i \in DOMAIN frames'[t] : Once(frames'[t][i])
    <3> HIDE DEF n
    <3>1. CASE n = 1
      BY <1>5, <1>7, <3>1
    <3>2. CASE n = 2
      BY <1>3, <1>5, <1>7, <3>2 DEF Inv, Distinct
    <3> QED BY <1>3, <3>1, <3>2
  <2> QED BY <1>6, <2>1 DEF Inv, Distinct
<1>13. Types'
  BY <1>1, <1>6 DEF Inv, Types, runtime, plugins, edits, disk
<1>14. \A u \in Thread : Len(frames'[u]) <= 2
  BY <1>3, <1>6, <1>7 DEF Inv, Counted
<1>15. Counted' /\ Working' /\ PinnedGeneration' /\ LoadedIsKnown'
  BY <1>1, <1>6, <1>10, <1>14 DEF Inv, Counted, Working, PinnedGeneration, LoadedIsKnown, runtime, plugins
<1>16. /\ \A q \in Request : status'[q] = IF q = r THEN "asked" ELSE status[q]
       /\ \A q \in Request : asker'[q] = IF q = r THEN t ELSE asker[q]
  BY <1>1 DEF Inv, Types
<1>17. Distinct'
  <2>1. \A u \in Thread : Own(u) \in SUBSET Request
    <3> SUFFICES ASSUME NEW u \in Thread PROVE Own(u) \in SUBSET Request
      OBVIOUS
    <3> QED BY Depth, Elements DEF Own, Inv
  <2> QED BY <1>1, <1>2, <1>8, <1>9, <1>12, <1>16, <2>1 DEF Inv, Distinct, runtime
<1>18. UNCHANGED <<held, journal, installed, reverted, active, work, deaf>> /\ Touched' = Touched
  BY <1>1 DEF disk, plugins, Touched
<1>19. Fresh' /\ OnDisk'
  BY <1>11, <1>18 DEF Inv, Fresh, OnDisk
<1>20. Asked'
  BY <1>1, <1>2, <1>11, <1>16, <1>18 DEF Inv, Asked
<1>21. Tracked'
  <2>1. \A q \in (Later \cup Current \cup Rest)' : status'[q] = "asked"
    BY <1>11, <1>16, Places DEF Inv, Tracked
  <2>2. \A u \in Thread : \A q \in Own(u)' : q \in Request /\ status'[q] = "asked"
    <3>1. \A u \in Thread : Own(u) \in SUBSET Request
      <4> SUFFICES ASSUME NEW u \in Thread PROVE Own(u) \in SUBSET Request
        OBVIOUS
      <4> QED BY Depth, Elements DEF Own, Inv
    <3> QED BY <1>8, <1>9, <1>16, <3>1 DEF Inv, Tracked
  <2>3. ASSUME ~deaf', NEW q \in Request, status'[q] = "asked"
        PROVE  q \in (Later \cup Current \cup Rest)' \/ \E u \in Thread : q \in Own(u)'
    <3>1. CASE q = r
      BY <1>8, <3>1
    <3>2. CASE q # r
      <4>1. q \in Later \cup Current \cup Rest \/ \E u \in Thread : q \in Own(u)
        BY <1>16, <1>18, <2>3, <3>2 DEF Inv, Tracked
      <4> QED BY <1>8, <1>9, <1>11, <4>1
    <3> QED BY <3>1, <3>2
  <2> QED BY <1>11, <1>18, <2>1, <2>2, <2>3 DEF Inv, Tracked
<1> QED BY <1>13, <1>15, <1>17, <1>19, <1>20, <1>21 DEF Inv

LEMMA Owned == ASSUME Types, Counted, NEW t \in Thread PROVE Own(t) \in SUBSET Request
  BY Depth, Elements DEF Own

LEMMA EndInv == ASSUME Inv, NEW t \in Thread, NEW succeeded \in BOOLEAN, End(t, succeeded) PROVE Inv'
<1> DEFINE own == frames[t][1]
           queue == IF succeeded THEN pending \o own ELSE pending
           failed == IF succeeded THEN {} ELSE Requests(own)
           closes == busy' = 0 /\ closing
           W == Later \cup IF succeeded THEN Own(t) ELSE {}
           Now == (Later \cup Current \cup Rest)'
<1>1. /\ Len(frames[t]) = 1 /\ work = NoWork /\ frames' = [frames EXCEPT ![t] = <<>>] /\ busy' = busy - 1
      /\ condemned' = condemned \cup {r \in Request : ~succeeded /\ asker[r] = t}
      /\ asker' = [r \in Request |-> IF asker[r] = t THEN None ELSE asker[r]]
      /\ Settle(failed \cup IF closes THEN Requests(queue) ELSE {}, "undone")
      /\ closed' = (closed \/ closes)
      /\ pending' = IF busy' = 0 THEN <<>> ELSE queue
      /\ work' = IF busy' = 0 /\ ~closes /\ queue # <<>> THEN Applies(t, queue) ELSE NoWork
      /\ UNCHANGED <<pinned, operations, closing, plugins, edits, disk, deaf>>
  BY DEF End, Unlocked, Boundary, Retired
<1>2. /\ own \in Seq(Request) /\ Outer(t) = Requests(own) /\ Inner(t) = {} /\ Own(t) = Requests(own)
      /\ frames[t] # <<>> /\ Once(own)
  <2>1. frames[t] # <<>> /\ Len(frames[t]) # 2
    BY <1>1
  <2>2. own \in Seq(Request) /\ Outer(t) = Requests(own) /\ Inner(t) = {} /\ DOMAIN frames[t] = {1}
    BY <2>1, Depth DEF Inv
  <2> QED BY <2>1, <2>2 DEF Own, Inv, Distinct
<1>3. /\ \A r \in Own(t) : asker[r] = t /\ t # None /\ r \notin condemned
      /\ Own(t) \cap (Later \cup Touched) = {} /\ Own(t) \in SUBSET Request /\ Later \in SUBSET Request
      /\ Current = {} /\ Rest = {}
  <2>1. \A r \in Own(t) : asker[r] = t /\ t # None /\ r \notin condemned
    BY PluginAssumption DEF Inv, Distinct
  <2>2. Own(t) \in SUBSET Request /\ Later \in SUBSET Request
    BY Owned, Places DEF Inv
  <2>3. Own(t) \cap (Later \cup Touched) = {}
    BY <2>1, <2>2 DEF Inv, Asked
  <2>4. Current = {} /\ Rest = {}
    BY <1>1, NoWorks DEF Current, Rest
  <2> QED BY <2>1, <2>2, <2>3, <2>4
<1>4. queue \in Seq(Request) /\ Once(queue) /\ Requests(queue) = W
  <2>1. pending \in Seq(Request) /\ Once(pending) /\ Requests(pending) = Later
    BY DEF Inv, Types, Distinct, Later
  <2>2. CASE succeeded
    <3> HIDE DEF own
    <3> QED BY <1>2, <1>3, <2>1, <2>2, Joins
  <2>3. CASE ~succeeded
    BY <2>1, <2>3
  <2> QED BY <2>2, <2>3
<1>5. failed = IF succeeded THEN {} ELSE Own(t)
  BY <1>2
<1> HIDE DEF own, queue, failed
<1>6. busy \in Nat \ {0} /\ busy' \in Nat /\ ~closed /\ busy' = Cardinality(Running)'
      /\ Running' = Running \ {t}
  <2>1. t \in Running
    BY <1>2 DEF Running
  <2>2. Running' = Running \ {t}
    BY <1>1 DEF Running, Inv, Types
  <2>3. Cardinality(Running \ {t}) = Cardinality(Running) - 1 /\ Cardinality(Running \ {t}) \in Nat
    <3>1. IsFiniteSet(Running \ {t})
      BY RunningFinite, FS_Subset
    <3> QED BY <2>1, <3>1, RunningFinite, FS_RemoveElement, FS_CardinalityType
  <2>4. busy # 0
    BY <1>2, Idle DEF Inv
  <2> QED BY <1>1, <2>2, <2>3, <2>4 DEF Inv, Counted, Types
<1>7. /\ work' \in Works /\ work'.at \in {"none", "prepare"}
      /\ work'.at = "none" => work' = NoWork
      /\ work'.at = "prepare" => work'.by \in Thread /\ work'.queue # <<>>
      /\ Once(work'.queue) /\ pending' \in Seq(Request) /\ Once(pending')
      /\ work' # NoWork => busy' = 0
      /\ busy' = 0 => pending' = <<>>
  BY <1>1, <1>4, NoWorks, Applying, Empties
<1>8. Now = IF closes THEN {} ELSE W
  <2>1. CASE busy' # 0
    BY <1>1, <1>4, <2>1, NoWorks DEF Later, Current, Rest
  <2>2. CASE busy' = 0 /\ (closes \/ queue = <<>>)
    BY <1>1, <1>4, <2>2, NoWorks, Empties DEF Later, Current, Rest
  <2>3. CASE busy' = 0 /\ ~closes /\ queue # <<>>
    <3>1. pending' = <<>> /\ work'.queue = queue
      BY <1>1, <1>4, <2>3, Applying
    <3>2. Current' \cup Rest' = Requests(queue)
      BY <1>4, <2>3, <3>1, Tails DEF Current, Rest
    <3> QED BY <1>4, <2>3, <3>1, <3>2, Empties DEF Later
  <2> QED BY <2>1, <2>2, <2>3
<1>9. /\ frames'[t] = <<>> /\ \A u \in Thread \ {t} : frames'[u] = frames[u]
      /\ frames' \in [Thread -> Seq(Seq(Request))]
  <2>1. <<>> \in Seq(Seq(Request))
    OBVIOUS
  <2> QED BY <1>1, <2>1 DEF Inv, Types
<1>10. /\ Outer(t)' = {} /\ Inner(t)' = {} /\ Own(t)' = {}
       /\ \A u \in Thread \ {t} : Outer(u)' = Outer(u) /\ Inner(u)' = Inner(u) /\ Own(u)' = Own(u)
  <2>1. Len(frames'[t]) # 2
    BY <1>9
  <2> QED BY <1>9, <2>1 DEF Outer, Inner, Own
<1>11. /\ \A r \in Request : status'[r] = IF r \in (Later \cup Own(t)) \ Now THEN "undone" ELSE status[r]
       /\ status' \in [Request -> {"new", "asked", "done", "undone"}]
  <2>1. \A r \in Request : r \in failed \cup (IF closes THEN Requests(queue) ELSE {}) <=> r \in (Later \cup Own(t)) \ Now
    BY <1>3, <1>4, <1>5, <1>8
  <2> HIDE DEF Now, W, closes
  <2> QED BY <1>1, <2>1 DEF Settle, Inv, Types
<1>12. \A r \in Request : asker'[r] = IF asker[r] = t THEN None ELSE asker[r]
  BY <1>1
<1>13. Types'
  BY <1>1, <1>6, <1>7, <1>9, <1>11 DEF Inv, Types, plugins, edits, disk
<1>14. Counted' /\ Working' /\ PinnedGeneration' /\ LoadedIsKnown'
  <2>1. \A u \in Thread : Len(frames'[u]) <= 2
    <3>1. Len(frames'[t]) <= 2
      BY <1>9
    <3> QED BY <1>9, <3>1 DEF Inv, Counted
  <2>2. Counted'
    BY <1>1, <1>6, <1>7, <2>1 DEF Counted
  <2> QED BY <1>1, <1>7, <1>9, <2>2 DEF Inv, Working, PinnedGeneration, LoadedIsKnown, plugins
<1>15. \A u \in Thread \ {t} : \A r \in Own(u) :
         /\ asker[r] = u /\ asker'[r] = u /\ r \in Request /\ r \notin condemned'
         /\ r \notin Later \cup Own(t)
  <2> SUFFICES ASSUME NEW u \in Thread \ {t}, NEW r \in Own(u)
               PROVE  /\ asker[r] = u /\ asker'[r] = u /\ r \in Request /\ r \notin condemned'
                      /\ r \notin Later \cup Own(t)
    OBVIOUS
  <2>1. r \in Request /\ asker[r] = u /\ u # None /\ r \notin condemned
    BY Owned, PluginAssumption DEF Inv, Distinct
  <2>2. r \notin Later
    BY <2>1 DEF Inv, Asked
  <2> QED BY <1>1, <1>3, <1>12, <2>1, <2>2
<1>16. Distinct'
  <2>1. \A u \in Thread : \A i \in DOMAIN frames'[u] : Once(frames'[u][i])
    <3>1. DOMAIN frames'[t] = {}
      BY <1>9
    <3> QED BY <1>9, <3>1 DEF Inv, Distinct
  <2>2. \A u \in Thread : Outer(u)' \cap Inner(u)' = {}
    BY <1>10 DEF Inv, Distinct
  <2>3. \A u \in Thread : \A r \in Own(u)' : asker'[r] = u /\ r \notin condemned'
    BY <1>10, <1>15
  <2> QED BY <1>7, <2>1, <2>2, <2>3 DEF Distinct
<1>17. UNCHANGED <<held, journal, installed, reverted, active, deaf>> /\ Touched' = Touched
  BY <1>1 DEF disk, plugins, Touched
<1>18. /\ Now \subseteq W /\ W \subseteq Later \cup Own(t) /\ W \cap Touched = {}
       /\ \A r \in W : r \notin condemned' /\ asker'[r] = None
  <2>1. Later \cap Touched = {} /\ \A r \in Later : asker[r] = None /\ r \notin condemned
    BY <1>3 DEF Inv, Fresh, Asked
  <2>2. t # None
    BY PluginAssumption
  <2> QED BY <1>1, <1>3, <1>8, <1>12, <2>1, <2>2
<1> HIDE DEF W, closes
<1>19. Fresh' /\ OnDisk'
  BY <1>7, <1>17, <1>18 DEF Inv, Fresh, OnDisk, Touched
<1>20. Asked'
  <2> SUFFICES ASSUME NEW r \in Request
               PROVE  /\ status'[r] = "new" => asker'[r] = None /\ r \notin condemned' /\ r \notin Now \cup Touched
                      /\ asker'[r] # None => r \notin Now \cup Touched
                      /\ r \in condemned' => r \notin Now \cup active
    BY <1>17 DEF Asked
  <2> HIDE DEF Now
  <2>1. status'[r] = "new" => status[r] = "new"
    BY <1>11
  <2>2. status[r] = "new" => asker[r] = None /\ r \notin condemned /\ r \notin Later \cup Touched /\ r \notin Own(t)
    BY <1>3, PluginAssumption DEF Inv, Asked
  <2>3. asker[r] # None => r \notin Touched
    BY DEF Inv, Asked
  <2>4. r \in condemned => r \notin active
    BY DEF Inv, Asked
  <2>5. t # None /\ active \subseteq Touched
    BY PluginAssumption DEF Touched
  <2> QED BY <1>1, <1>12, <1>18, <2>1, <2>2, <2>3, <2>4, <2>5
<1>21. Tracked'
  <2>1. \A r \in Now : status'[r] = "asked"
    BY <1>3, <1>11, <1>18 DEF Inv, Tracked
  <2>2. \A u \in Thread : \A r \in Own(u)' : status'[r] = "asked"
    BY <1>10, <1>11, <1>15 DEF Inv, Tracked
  <2>3. ASSUME ~deaf', NEW r \in Request, status'[r] = "asked"
        PROVE  r \in Now \/ \E u \in Thread : r \in Own(u)'
    <3> HIDE DEF Now
    <3>1. status[r] = "asked" /\ r \notin (Later \cup Own(t)) \ Now
      BY <1>11, <2>3
    <3>2. r \in Later \/ \E u \in Thread : r \in Own(u)
      BY <1>3, <1>17, <2>3, <3>1 DEF Inv, Tracked
    <3> QED BY <1>10, <3>1, <3>2
  <2>4. ~deaf' => held' = {}
    BY <1>3, <1>17 DEF Inv, Tracked
  <2> QED BY <2>1, <2>2, <2>3, <2>4 DEF Tracked
<1> QED BY <1>13, <1>14, <1>16, <1>19, <1>20, <1>21 DEF Inv

LEMMA AskOutsideInv == ASSUME Inv, NEW t \in Thread, NEW r \in Request, AskOutside(t, r) PROVE Inv'
<1> DEFINE Before == Later \cup Current \cup Rest
           Now == (Later \cup Current \cup Rest)'
<1>1. /\ work = NoWork /\ status[r] = "new" /\ UNCHANGED <<calls, closing, closed, plugins, edits, disk, past>>
      /\ IF closed THEN status' = [status EXCEPT ![r] = "undone"] /\ UNCHANGED <<pending, work>>
         ELSE /\ status' = [status EXCEPT ![r] = "asked"]
              /\ IF busy > 0 THEN pending' = Append(pending, r) /\ UNCHANGED work
                 ELSE work' = Applies(t, <<r>>) /\ UNCHANGED pending
  BY DEF AskOutside, Unlocked
<1>2. /\ asker[r] = None /\ r \notin condemned /\ r \notin Before \cup Touched
      /\ \A u \in Thread : r \notin Own(u)
  BY <1>1, PluginAssumption DEF Inv, Asked, Distinct
<1>3. Current = {} /\ Rest = {} /\ pending \in Seq(Request) /\ Once(pending)
  BY <1>1, NoWorks DEF Current, Rest, Inv, Types, Distinct
<1>4. /\ Now = IF closed THEN Before ELSE Before \cup {r}
      /\ work' \in Works /\ work'.at \in {"none", "prepare"} /\ Once(work'.queue)
      /\ work'.at = "none" => work' = NoWork
      /\ work'.at = "prepare" => work'.by \in Thread /\ work'.queue # <<>>
      /\ pending' \in Seq(Request) /\ Once(pending')
      /\ work' # NoWork => busy = 0 /\ ~closed
      /\ busy = 0 => pending' = pending
  <2>1. CASE closed
    BY <1>1, <1>3, <2>1, NoWorks, Empties, LaterKept, QueueKept
  <2>2. CASE ~closed /\ busy > 0
    <3>1. pending' = Append(pending, r) /\ work' = NoWork
      BY <1>1, <2>2
    <3>2. pending' \in Seq(Request) /\ Requests(pending') = Requests(pending) \cup {r} /\ Once(pending')
      BY <1>2, <1>3, <3>1, Appends DEF Later
    <3>3. Current' = {} /\ Rest' = {}
      BY <3>1, NoWorks DEF Current, Rest
    <3> QED BY <1>3, <2>2, <3>1, <3>2, <3>3, NoWorks, Empties DEF Later, Inv, Types
  <2>3. CASE ~closed /\ ~(busy > 0)
    <3>1. /\ busy = 0 /\ pending' = pending /\ work' = Applies(t, <<r>>)
      BY <1>1, <2>3 DEF Inv, Types
    <3>2. /\ work' \in Works /\ work'.at = "prepare" /\ work'.queue = <<r>> /\ work'.by = t
          /\ Once(<<r>>) /\ Requests(<<r>>) = {r} /\ <<r>> \in Seq(Request)
      BY <3>1, Singles, Applying
    <3>3. <<r>> # <<>>
      OBVIOUS
    <3>4. Current' \cup Rest' = {r}
      BY <3>2, <3>3, Tails DEF Current, Rest
    <3> QED BY <1>3, <2>3, <3>1, <3>2, <3>3, <3>4, NoWorks, LaterKept
  <2> QED BY <2>1, <2>2, <2>3
<1>5. /\ Running' = Running
      /\ \A u \in Thread : Outer(u)' = Outer(u) /\ Inner(u)' = Inner(u) /\ Own(u)' = Own(u)
  BY <1>1, FramesKept DEF calls
<1>6. /\ \A q \in Request : status'[q] = IF q = r THEN (IF closed THEN "undone" ELSE "asked") ELSE status[q]
      /\ status' \in [Request -> {"new", "asked", "done", "undone"}]
  BY <1>1 DEF Inv, Types
<1>7. Types'
  BY <1>1, <1>4, <1>6 DEF Inv, Types, calls, plugins, edits, disk, past
<1>8. Counted' /\ Working' /\ PinnedGeneration' /\ LoadedIsKnown'
  BY <1>1, <1>4, <1>5 DEF Inv, Counted, Working, PinnedGeneration, LoadedIsKnown, calls, plugins
<1>9. Distinct'
  BY <1>1, <1>4, <1>5 DEF Inv, Distinct, calls, past
<1>10. UNCHANGED <<held, journal, installed, reverted, active, asker, condemned, deaf>> /\ Touched' = Touched
  BY <1>1 DEF disk, plugins, past, Touched
<1>11. Before \cap Touched = {} /\ Before \in SUBSET Request
  BY <1>3, Places DEF Inv, Fresh
<1>12. Fresh' /\ OnDisk'
  BY <1>2, <1>4, <1>10, <1>11 DEF Inv, Fresh, OnDisk, Touched
<1>13. Asked'
  BY <1>2, <1>4, <1>6, <1>10 DEF Inv, Asked
<1>14. Tracked'
  <2>1. \A q \in Now : status'[q] = "asked"
    BY <1>2, <1>4, <1>6, <1>11 DEF Inv, Tracked
  <2>2. \A u \in Thread : \A q \in Own(u)' : status'[q] = "asked"
    <3>1. \A u \in Thread : Own(u) \in SUBSET Request
      BY Owned DEF Inv
    <3> QED BY <1>2, <1>5, <1>6, <3>1 DEF Inv, Tracked
  <2>3. ASSUME ~deaf', NEW q \in Request, status'[q] = "asked"
        PROVE  q \in Now \/ \E u \in Thread : q \in Own(u)'
    <3>1. q = r => ~closed
      BY <1>6, <2>3
    <3>2. q # r => q \in Before \/ \E u \in Thread : q \in Own(u)
      BY <1>6, <1>10, <2>3 DEF Inv, Tracked
    <3> QED BY <1>4, <1>5, <3>1, <3>2
  <2>4. ~deaf' => held' = {}
    BY <1>3, <1>10 DEF Inv, Tracked
  <2> QED BY <2>1, <2>2, <2>3, <2>4 DEF Tracked
<1> QED BY <1>7, <1>8, <1>9, <1>12, <1>13, <1>14 DEF Inv

LEMMA AskWithinInv == ASSUME Inv, NEW r \in Request, AskWithin(r) PROVE Inv'
<1>1. /\ status[r] = "new" /\ status' = [status EXCEPT ![r] = "undone"]
      /\ UNCHANGED <<frames, pinned, busy, operations, pending, closing, closed, plugins, work, edits, disk, past>>
  BY DEF AskWithin, calls, runtime
<1>2. Distinct' /\ Running' = Running /\ Later' = Later /\ Current' = Current /\ Rest' = Rest
      /\ \A u \in Thread : Own(u)' = Own(u)
  BY <1>1, Unframed DEF past
<1>3. r \notin Later \cup Current \cup Rest /\ \A u \in Thread : r \notin Own(u)
  BY <1>1, PluginAssumption DEF Inv, Asked, Distinct
<1>4. \A q \in Request : status'[q] = IF q = r THEN "undone" ELSE status[q]
  BY <1>1 DEF Inv, Types
<1>5. Types'
  BY <1>1 DEF Inv, Types, plugins, edits, disk, past
<1>6. Counted' /\ Working' /\ PinnedGeneration' /\ LoadedIsKnown'
  BY <1>1, <1>2 DEF Inv, Counted, Working, PinnedGeneration, LoadedIsKnown, plugins
<1>7. UNCHANGED <<held, journal, installed, reverted, active, asker, condemned, deaf>> /\ Touched' = Touched
  BY <1>1 DEF disk, plugins, past, Touched
<1>8. Fresh' /\ OnDisk' /\ Asked'
  BY <1>1, <1>2, <1>4, <1>7 DEF Inv, Fresh, OnDisk, Asked
<1>9. Tracked'
  <2>1. (\A u \in Thread : Own(u) \in SUBSET Request) /\ Later \cup Current \cup Rest \subseteq Request
    BY Owned, Places DEF Inv
  <2>2. \A q \in (Later \cup Current \cup Rest)' : status'[q] = "asked"
    BY <1>2, <1>3, <1>4, <2>1 DEF Inv, Tracked
  <2>3. \A u \in Thread : \A q \in Own(u)' : status'[q] = "asked"
    BY <1>2, <1>3, <1>4, <2>1 DEF Inv, Tracked
  <2>4. \A q \in Request : status'[q] = "asked" => status[q] = "asked"
    BY <1>4
  <2> QED BY <1>2, <1>7, <2>2, <2>3, <2>4 DEF Inv, Tracked
<1> QED BY <1>2, <1>5, <1>6, <1>8, <1>9 DEF Inv

LEMMA RecoverInv == ASSUME Inv, NEW decided \in BOOLEAN, Recover(decided) PROVE Inv'
<1>1. /\ held = {} /\ journal' = {} /\ source' \in Nat
      /\ IF decided THEN installed' = installed \cup journal /\ UNCHANGED reverted
         ELSE reverted' = reverted \cup journal /\ UNCHANGED installed
      /\ UNCHANGED <<frames, pinned, busy, operations, pending, closing, closed, plugins, work, writes, status, held, past>>
  BY DEF Recover, calls, runtime, Inv, Types
<1>2. Distinct' /\ Running' = Running /\ Later' = Later /\ Current' = Current /\ Rest' = Rest
      /\ \A u \in Thread : Own(u)' = Own(u)
  BY <1>1, Unframed DEF past
<1>3. Types'
  BY <1>1 DEF Inv, Types, plugins, past
<1>4. Counted' /\ Working' /\ PinnedGeneration' /\ LoadedIsKnown'
  BY <1>1, <1>2 DEF Inv, Counted, Working, PinnedGeneration, LoadedIsKnown, plugins
<1>5. Touched' = Touched /\ UNCHANGED <<active, asker, condemned, deaf, work>>
  BY <1>1 DEF Touched, plugins, past
<1>6. Current # {} => work.at = "prepare" /\ Current \cap Touched = {}
  <2>1. Current # {} => work.queue # <<>> /\ work.at \in Step
    BY DEF Current, Inv, Types, Works
  <2>2. work.at = "none" => Current = {}
    BY NoWorks DEF Current, Inv, Working
  <2> QED BY <1>1, <2>1, <2>2 DEF Inv, Fresh, Step
<1>7. Fresh'
  BY <1>1, <1>2, <1>5, <1>6 DEF Inv, Fresh, Touched
<1>8. OnDisk'
  BY <1>1, <1>5 DEF Inv, OnDisk
<1>9. Asked'
  BY <1>1, <1>2, <1>5 DEF Inv, Asked
<1>10. Tracked'
  BY <1>1, <1>2, <1>5 DEF Inv, Tracked
<1> QED BY <1>2, <1>3, <1>4, <1>7, <1>8, <1>9, <1>10 DEF Inv

(* While a generation is made nothing waits but the queue.                  *)
LEMMA Alone == ASSUME Inv, work.at # "none" PROVE Later = {} /\ \A t \in Thread : Own(t) = {}
<1>1. busy = 0 /\ pending = <<>>
  BY NoWorks DEF Inv, Counted
<1> QED BY <1>1, Idle, Empties DEF Later, Own, Inv

LEMMA PrepareInv == ASSUME Inv, Prepare PROVE Inv'
<1>1. /\ work.at = "prepare" /\ held = {} /\ journal = {} /\ held' = Current /\ journal' = Current
      /\ work' = [work EXCEPT !.at = "capture"]
      /\ UNCHANGED <<frames, pinned, busy, operations, pending, closing, closed, plugins, edits, status,
                     installed, reverted, past>>
  BY DEF Prepare, calls, runtime
<1>2. /\ work' \in Works /\ work'.at = "capture" /\ work'.queue = work.queue /\ work'.by = work.by
      /\ work.queue # <<>> /\ work.by \in Thread /\ work # NoWork
  BY <1>1, NoWorks DEF Inv, Types, Works, Step, Working
<1>3. Distinct' /\ Running' = Running /\ Later' = Later /\ Current' = Current /\ Rest' = Rest
      /\ \A u \in Thread : Own(u)' = Own(u)
  BY <1>1, <1>2, Unframed DEF past
<1>4. Later = {} /\ Current \in SUBSET Request /\ Current \cap Rest = {}
  BY <1>1, Alone, Places DEF Inv
<1>5. Types'
  BY <1>1, <1>2, <1>4 DEF Inv, Types, plugins, edits, past
<1>6. Counted' /\ Working' /\ PinnedGeneration' /\ LoadedIsKnown'
  BY <1>1, <1>2, <1>3 DEF Inv, Counted, Working, PinnedGeneration, LoadedIsKnown, plugins
<1>7. Touched' = Touched \cup Current /\ UNCHANGED <<active, installed, reverted, asker, condemned, deaf>>
  BY <1>1 DEF Touched, plugins, past
<1>8. Fresh' /\ OnDisk'
  BY <1>1, <1>2, <1>3, <1>4, <1>7 DEF Inv, Fresh, OnDisk, Touched
<1>9. Asked' /\ Tracked'
  BY <1>1, <1>3, <1>7 DEF Inv, Asked, Tracked
<1> QED BY <1>3, <1>5, <1>6, <1>8, <1>9 DEF Inv

(* What the steps of an application change: the requests that were to be    *)
(* applied become the rest, or none when the others are dropped.            *)
LEMMA FailInv ==
  ASSUME Inv, NEW seen \in {0, work.watched}, Fail(seen) \/ FailAloud(seen)
  PROVE  Inv'
<1>1. /\ work.at \in {"prepare", "capture", "validate"} /\ Settle(Current, "undone")
      /\ held' = held \ Current /\ journal' = journal \ Current
      /\ rejected' = IF work.queue = <<>> THEN seen ELSE rejected
      /\ UNCHANGED <<operations, pending, closing, closed, generation, active, loaded, known, source, writes,
                     installed, reverted, asker, condemned>>
  BY DEF Fail, FailAloud, Fails, runtime, edits
<1>2. /\ Later = {} /\ (\A t \in Thread : Own(t) = {}) /\ Current \in SUBSET Request /\ Rest \in SUBSET Request
      /\ Current \cap Rest = {}
  BY <1>1, Alone, Places DEF Inv
<1>3. /\ frames' \in [Thread -> Seq(Seq(Request))] /\ pinned' \in [Thread -> Nat] /\ busy' \in Nat
      /\ work' \in Works /\ work'.at \in {"none", "prepare"}
      /\ Counted' /\ Working' /\ PinnedGeneration' /\ Distinct' /\ Later' = {}
      /\ (Current \cup Rest)' \subseteq Rest /\ deaf' \in BOOLEAN
      /\ ~deaf' => ~deaf /\ (Current \cup Rest)' = Rest
      /\ \A t \in Thread : Own(t)' = {}
  <2>1. CASE Fail(seen)
    <3>1. Proceeds /\ deaf' = deaf /\ generation' \in Nat /\ deaf \in BOOLEAN
      BY <1>1, <2>1 DEF Fail, Inv, Types
    <3> QED BY <1>1, <3>1, GoesOn DEF Inv
  <2>2. CASE FailAloud(seen)
    <3>1. work' = NoWork /\ deaf' = (deaf \/ Len(work.queue) > 1) /\ UNCHANGED <<frames, pinned, busy>>
      BY <2>2 DEF FailAloud
    <3>2. Current' = {} /\ Rest' = {} /\ work' \in Works /\ work'.at = "none" /\ work'.queue = <<>>
      BY <3>1, NoWorks DEF Current, Rest
    <3>3. Running' = Running /\ Later' = Later /\ \A t \in Thread : Outer(t)' = Outer(t) /\ Inner(t)' = Inner(t)
                                                                 /\ Own(t)' = Own(t)
      BY <1>1, <3>1, FramesKept, LaterKept
    <3>4. ~(Len(work.queue) > 1) => Rest = {}
      <4>1. work.queue \in Seq(Request) /\ Len(work.queue) \in Nat
        BY DEF Inv, Types, Works
      <4>2. CASE work.queue = <<>>
        BY <4>2 DEF Rest
      <4>3. CASE work.queue # <<>> /\ ~(Len(work.queue) > 1)
        <5>1. ASSUME NEW q \in Seq(Request), q # <<>>, ~(Len(q) > 1) PROVE Tail(q) \in Seq(Request) /\ Len(Tail(q)) = 0
          <6>1. Len(q) \in Nat /\ Len(q) # 0
            BY <5>1, EmptySeq
          <6>2. Tail(q) \in Seq(Request) /\ Len(Tail(q)) = Len(q) - 1
            BY <5>1, HeadTailProperties
          <6> QED BY <5>1, <6>1, <6>2
        <5>2. Tail(work.queue) \in Seq(Request) /\ Len(Tail(work.queue)) = 0
          BY <4>1, <4>3, <5>1
        <5> QED BY <4>3, <5>2, EmptySeq, Empties DEF Rest
      <4> QED BY <4>2, <4>3
    <3>5. Distinct'
      BY <1>1, <3>1, <3>2, <3>3, Empties DEF Inv, Distinct
    <3>6. Counted' /\ Working' /\ PinnedGeneration'
      BY <1>1, <3>1, <3>2, <3>3 DEF Inv, Counted, Working, PinnedGeneration
    <3>7. deaf' \in BOOLEAN /\ (~deaf' => ~deaf /\ Rest = {})
      BY <3>1, <3>4 DEF Inv, Types
    <3> QED BY <1>2, <3>1, <3>2, <3>3, <3>5, <3>6, <3>7 DEF Inv, Types
  <2> QED BY <2>1, <2>2
<1>4. \A r \in Request : status'[r] = IF r \in Current THEN "undone" ELSE status[r]
  BY <1>1 DEF Settle
<1>5. rejected' \in Nat
  BY <1>1 DEF Inv, Types, Works
<1>6. Types'
  BY <1>1, <1>3, <1>5 DEF Inv, Types, Settle
<1>7. LoadedIsKnown'
  BY <1>1 DEF Inv, LoadedIsKnown
<1>8. /\ Touched' \subseteq Touched /\ Rest \cap Touched = {} /\ Current \cap active = {}
      /\ Current \cap (installed \cup reverted) = {}
      /\ held' # {} => held' = held /\ journal' = journal
  BY <1>1 DEF Inv, Fresh, Touched
<1>9. Fresh'
  BY <1>1, <1>3, <1>8 DEF Fresh, Touched
<1>10. OnDisk'
  BY <1>1, <1>8 DEF Inv, OnDisk, Fresh, Touched
<1>11. Asked'
  BY <1>1, <1>3, <1>4, <1>8 DEF Inv, Asked
<1>12. Tracked'
  <2>1. \A r \in (Later \cup Current \cup Rest)' : status'[r] = "asked"
    BY <1>2, <1>3, <1>4 DEF Inv, Tracked
  <2>2. ASSUME ~deaf', NEW r \in Request, status'[r] = "asked" PROVE r \in (Later \cup Current \cup Rest)'
    BY <1>2, <1>3, <1>4, <2>2 DEF Inv, Tracked
  <2>3. ~deaf' => held' = {}
    BY <1>1, <1>3 DEF Inv, Tracked
  <2> QED BY <1>3, <2>1, <2>2, <2>3 DEF Tracked
<1> QED BY <1>3, <1>6, <1>7, <1>9, <1>10, <1>11, <1>12 DEF Inv

LEMMA CommitInv == ASSUME Inv, NEW succeeds \in BOOLEAN, Commit(succeeds) PROVE Inv'
<1>1. /\ work.at = "commit" /\ Settle(Current, "done") /\ held' = held \ Current /\ Proceeds
      /\ IF succeeds THEN journal' = journal \ Current /\ installed' = installed \cup Current
         ELSE UNCHANGED <<journal, installed>>
      /\ UNCHANGED <<operations, pending, closing, closed, plugins, source, writes, reverted, asker, condemned, deaf>>
  BY DEF Commit, runtime, edits, past
<1>2. /\ Later = {} /\ (\A t \in Thread : Own(t) = {}) /\ Current \in SUBSET Request /\ Rest \in SUBSET Request
      /\ Current \cap Rest = {} /\ Current # {}
  BY <1>1, Alone, Places DEF Inv, Working, Current
<1>3. /\ frames' \in [Thread -> Seq(Seq(Request))] /\ pinned' \in [Thread -> Nat] /\ busy' \in Nat
      /\ work' \in Works /\ work'.at \in {"none", "prepare"}
      /\ Counted' /\ Working' /\ PinnedGeneration' /\ Distinct' /\ Later' = {}
      /\ (Current \cup Rest)' = Rest /\ \A t \in Thread : Own(t)' = {}
  <2>1. generation' \in Nat
    BY <1>1 DEF plugins, Inv, Types
  <2> QED BY <1>1, <2>1, GoesOn DEF Inv
<1>4. \A r \in Request : status'[r] = IF r \in Current THEN "done" ELSE status[r]
  BY <1>1 DEF Settle
<1>5. Types'
  BY <1>1, <1>2, <1>3 DEF Inv, Types, Settle, plugins
<1>6. LoadedIsKnown'
  BY <1>1 DEF Inv, LoadedIsKnown, plugins
<1>7. /\ held = Current /\ journal = Current /\ Current \subseteq active /\ held' = {} /\ active' = active
      /\ Rest \cap Touched = {} /\ Current \cap (installed \cup reverted) = {}
      /\ Touched' \subseteq Touched
  BY <1>1, <1>2 DEF Inv, Fresh, Touched, plugins
<1>8. Fresh' /\ OnDisk'
  BY <1>1, <1>3, <1>7 DEF Inv, Fresh, OnDisk, Touched
<1>9. Asked'
  BY <1>1, <1>3, <1>4, <1>7 DEF Inv, Asked
<1>10. Tracked'
  BY <1>1, <1>2, <1>3, <1>4, <1>7 DEF Inv, Tracked
<1> QED BY <1>3, <1>5, <1>6, <1>8, <1>9, <1>10 DEF Inv

LEMMA ActivateInv == ASSUME Inv, Activate \/ NoticeFails PROVE Inv'
<1>1. /\ work.at = "validate" /\ source = work.captured /\ generation' = generation + 1
      /\ active' = (active \ reverted) \cup Current /\ loaded' = work.captured /\ known' = source
      /\ rejected' \in Nat
      /\ UNCHANGED <<operations, pending, closing, closed, source, writes, status, disk, asker, condemned>>
  BY DEF Activate, NoticeFails, Activates, Valid, runtime, edits, past, Inv, Types, Works
<1>2. /\ Later = {} /\ (\A t \in Thread : Own(t) = {}) /\ Current \in SUBSET Request /\ Rest \in SUBSET Request
      /\ Current \cap Rest = {}
  BY <1>1, Alone, Places DEF Inv
<1>3. /\ Touched' \subseteq Touched \cup Current /\ Rest \cap Touched = {} /\ Current \cap (installed \cup reverted) = {}
      /\ Current # {} => held = Current /\ journal = Current
      /\ UNCHANGED <<held, journal, installed, reverted>>
  BY <1>1 DEF Inv, Fresh, Touched, disk
<1>4. OnDisk'
  BY <1>1, <1>3 DEF Inv, OnDisk
<1>5. CASE Activate /\ Current # {}
  <2>1. work' = [work EXCEPT !.at = "commit"] /\ UNCHANGED <<frames, pinned, busy, deaf>>
    BY <1>5 DEF Activate, past
  <2>2. /\ work' \in Works /\ work'.at = "commit" /\ work'.queue = work.queue /\ work'.by = work.by
        /\ work.queue # <<>> /\ work.by \in Thread /\ work # NoWork
    BY <1>1, <1>5, <2>1, NoWorks DEF Inv, Types, Works, Step, Working, Current
  <2>3. Distinct' /\ Running' = Running /\ Later' = Later /\ Current' = Current /\ Rest' = Rest
        /\ \A u \in Thread : Own(u)' = Own(u)
    BY <1>1, <2>1, <2>2, Unframed
  <2>4. Types'
    <3>1. work.captured \in Nat /\ generation + 1 \in Nat /\ deaf \in BOOLEAN /\ source \in Nat
      BY DEF Inv, Types, Works
    <3>2. (active \ reverted) \cup Current \in SUBSET Request
      BY <1>2 DEF Inv, Types
    <3>3. active' \in SUBSET Request /\ loaded' \in Nat /\ known' \in Nat /\ generation' \in Nat /\ deaf' \in BOOLEAN
      BY <1>1, <2>1, <3>1, <3>2
    <3> QED BY <1>1, <1>3, <2>1, <2>2, <3>3 DEF Inv, Types
  <2>5. Counted' /\ Working' /\ LoadedIsKnown'
    BY <1>1, <2>1, <2>2, <2>3 DEF Inv, Counted, Working, LoadedIsKnown
  <2>6. PinnedGeneration'
    <3>1. busy = 0
      BY <2>2 DEF Inv, Counted
    <3> QED BY <2>1, <3>1, Idle DEF PinnedGeneration, Inv
  <2>7. Fresh'
    BY <1>1, <1>2, <1>3, <1>5, <2>2, <2>3 DEF Fresh
  <2>8. Asked'
    BY <1>1, <1>2, <1>3, <2>3 DEF Inv, Asked, Touched
  <2>9. Tracked'
    BY <1>1, <1>3, <2>1, <2>3 DEF Inv, Tracked
  <2> QED BY <1>4, <2>3, <2>4, <2>5, <2>6, <2>7, <2>8, <2>9 DEF Inv
<1>6. CASE Proceeds /\ deaf' = (deaf \/ Current # {})
  <2>1. /\ frames' \in [Thread -> Seq(Seq(Request))] /\ pinned' \in [Thread -> Nat] /\ busy' \in Nat
        /\ work' \in Works /\ work'.at \in {"none", "prepare"}
        /\ Counted' /\ Working' /\ PinnedGeneration' /\ Distinct' /\ Later' = {}
        /\ (Current \cup Rest)' = Rest /\ \A t \in Thread : Own(t)' = {}
    <3>1. generation' \in Nat
      BY <1>1 DEF Inv, Types
    <3> QED BY <1>1, <1>6, <3>1, GoesOn DEF Inv
  <2>2. Types'
    <3>1. work.captured \in Nat /\ deaf \in BOOLEAN /\ (active \ reverted) \cup Current \in SUBSET Request
      BY <1>2 DEF Inv, Types, Works
    <3>2. /\ active' \in SUBSET Request /\ loaded' \in Nat /\ known' \in Nat /\ generation' \in Nat
          /\ deaf' \in BOOLEAN
      BY <1>1, <1>6, <3>1 DEF Inv, Types
    <3> QED BY <1>1, <1>3, <2>1, <3>2 DEF Inv, Types
  <2>3. LoadedIsKnown'
    BY <1>1 DEF LoadedIsKnown
  <2>4. Rest \cap Touched' = {}
    BY <1>2, <1>3
  <2>5. Fresh'
    BY <1>3, <2>1, <2>4 DEF Fresh, Touched
  <2>6. Asked'
    BY <1>1, <1>2, <1>3, <2>1, <2>4 DEF Inv, Asked
  <2>7. Tracked'
    BY <1>1, <1>2, <1>3, <1>6, <2>1 DEF Inv, Tracked
  <2> QED BY <1>4, <2>1, <2>2, <2>3, <2>5, <2>6, <2>7 DEF Inv
<1>7. CASE Activate /\ Current = {}
  BY <1>6, <1>7 DEF Activate, past, Inv, Types
<1>8. CASE NoticeFails
  BY <1>6, <1>8 DEF NoticeFails
<1> QED BY <1>5, <1>7, <1>8

LEMMA NextInv == Inv /\ [Next]_vars => Inv'
<1> SUFFICES ASSUME Inv, [Next]_vars PROVE Inv'
  OBVIOUS
<1>1. ASSUME NEW t \in Thread, Begin(t) \/ Refresh(t) \/ Nest(t) PROVE Inv'
  BY <1>1, BeginInv, RefreshInv, NestInv
<1>2. ASSUME NEW t \in Thread, NEW ok \in BOOLEAN, EndNested(t, ok) \/ End(t, ok) PROVE Inv'
  BY <1>2, EndNestedInv, EndInv
<1>3. ASSUME NEW t \in Thread, NEW r \in Request, Ask(t, r) \/ AskOutside(t, r) PROVE Inv'
  BY <1>3, AskInv, AskOutsideInv
<1>4. ASSUME NEW r \in Request, AskWithin(r) PROVE Inv'
  BY <1>4, AskWithinInv
<1>5. ASSUME NEW decided \in BOOLEAN, Recover(decided) PROVE Inv'
  BY <1>5, RecoverInv
<1>6. CASE Apply
  <2>1. ASSUME NEW seen \in {0, work.watched}, Fail(seen) \/ FailAloud(seen) PROVE Inv'
    BY <2>1, FailInv
  <2>2. ASSUME NEW ok \in BOOLEAN, Commit(ok) PROVE Inv'
    BY <2>2, CommitInv
  <2> QED BY <1>6, <2>1, <2>2, PrepareInv, ActivateInv, StillInv DEF Apply
<1>7. CASE Close \/ Write \/ UNCHANGED vars
  BY <1>7, StillInv
<1> QED BY <1>1, <1>2, <1>3, <1>4, <1>5, <1>6, <1>7 DEF Next

LEMMA Invariant == Spec => []Inv
  BY InitInv, NextInv, PTL DEF Spec

LEMMA InvTypes == Inv => TypeOK
<1> SUFFICES ASSUME Inv PROVE TypeOK
  OBVIOUS
<1>1. UNION {active, held, journal, installed, reverted, condemned} \subseteq Request
  BY DEF Inv, Types
<1>2. {work.captured, work.watched} \subseteq Nat /\ work.queue \in Seq(Request)
      /\ work.by \in Thread \cup {None} /\ work.at \in Step
  BY DEF Inv, Types, Works
<1> QED BY <1>1, <1>2 DEF TypeOK, Inv, Types, Step

(* What a failed operation asked for is never in a generation, and the      *)
(* packages that are installed are those a generation has, but for journals *)
(* left behind: _commit_transaction and the recovery of its journal.        *)
THEOREM GenerationIsInstalled == Spec => []InstalledIsActive
<1>1. Inv => InstalledIsActive
  <2> SUFFICES ASSUME Inv PROVE InstalledIsActive
    OBVIOUS
  <2>1. condemned \cap active = {}
    BY DEF Inv, Types, Asked
  <2> QED BY <2>1 DEF InstalledIsActive, Inv, OnDisk
<1> QED BY Invariant, <1>1, PTL

(* The generation that operations run on is one, whole and installed:       *)
(* _begin_operation pins it, and _activate_generation waits for the last.   *)
THEOREM GenerationsStand == Spec => []GenerationStands
<1>1. Inv => TypeOK /\ PinnedGeneration /\ LoadedIsKnown
  BY InvTypes DEF Inv
<1> QED BY Invariant, GenerationIsInstalled, <1>1, PTL DEF GenerationStands

(* A change that was asked for is held by someone until it is done or       *)
(* undone, whatever order operations end in; whoever holds the installation *)
(* is at work on it.                                                        *)
THEOREM NoneForgotten == Spec => []NothingForgotten
<1>1. Inv => NothingForgotten
  <2> SUFFICES ASSUME Inv, ~deaf PROVE NothingForgotten
    BY DEF NothingForgotten
  <2>1. ASSUME NEW t \in Thread PROVE UNION {Requests(q) : q \in ToSet(frames[t])} = Own(t)
    <3>1. CASE frames[t] = <<>>
      BY <3>1, Depth DEF ToSet, Own, Inv
    <3>2. CASE Len(frames[t]) = 1
      <4>1. frames[t] # <<>> /\ Len(frames[t]) # 2
        BY <3>2
      <4> QED BY <4>1, Depth DEF ToSet, Own, Inv
    <3>3. CASE Len(frames[t]) = 2
      <4>1. frames[t] # <<>> /\ Len(frames[t]) # 1
        BY <3>3
      <4> QED BY <4>1, Depth DEF ToSet, Own, Inv
    <3> QED BY <3>1, <3>2, <3>3, Depth DEF Inv
  <2>2. Waiting = Later \cup Current \cup Rest \cup UNION {Own(t) : t \in Thread}
    BY <2>1, Places DEF Waiting, Later, Inv
  <2>3. \A r \in Request : status[r] = "asked" <=> r \in Waiting
    BY <2>2 DEF Inv, Tracked
  <2> QED BY <2>3 DEF NothingForgotten, Inv, Tracked, Counted
<1> QED BY Invariant, <1>1, PTL
=====================
