------------------------- MODULE SessionJournalProofs -------------------------
(***************************************************************************)
(* Theorems of SessionJournal, for any number of records, turns and faults:*)
(* FilesAreSound, OutcomesHold, TurnsWhole and SelectsDurably.  FileInv is *)
(* the inductive invariant of the journal's file and of what memory makes  *)
(* of it; on top of it, TurnInv is the one of the branches that turns grow *)
(* on and NearInv the one of what a failed operation can leave behind.     *)
(***************************************************************************)
EXTENDS SessionJournal, WellFoundedInduction, FiniteSetTheorems, SequenceTheorems, TLAPS

------------------------------------------------------------------------------
LEMMA Least ==
  ASSUME NEW T \in SUBSET Nat, T # {}
  PROVE  \E x \in T : \A y \in T : x <= y
  <1> DEFINE F == {0..i : i \in T}
             R == StrictSubsetOrdering(Nat)
  <1>1. F \subseteq FiniteSubsetsOf(Nat) /\ F # {}
    <2>1. \A i \in T : 0..i \in SUBSET Nat /\ IsFiniteSet(0..i)
      BY FS_Interval
    <2> QED
      BY <2>1 DEF FiniteSubsetsOf
  <1>2. IsWellFoundedOn(R, FiniteSubsetsOf(Nat))
    BY FS_StrictSubsetOrderingWellFounded
  <1>3. PICK f \in F : \A g \in F : <<g, f>> \notin R
    <2> HIDE DEF F, R
    <2> QED
      BY <1>1, <1>2, WFMin
  <1>4. PICK x \in T : f = 0..x
    OBVIOUS
  <1>5. \A y \in T : ~(y < x)
    <2> SUFFICES ASSUME NEW y \in T, y < x
                 PROVE  FALSE
      OBVIOUS
    <2>1. 0..y \in SUBSET Nat /\ 0..x \in SUBSET Nat /\ 0..y \subseteq 0..x
      OBVIOUS
    <2>2. x \in 0..x /\ x \notin 0..y
      OBVIOUS
    <2>3. <<0..y, f>> \in R
      BY <1>4, <2>1, <2>2, Zenon DEF StrictSubsetOrdering
    <2> QED
      BY <1>3, <2>3
  <1> QED
    BY <1>5

LEMMA MaxOf ==
  ASSUME NEW n \in Nat, NEW T \in SUBSET (0..n), T # {}
  PROVE  Max(T) \in T /\ \A y \in T : Max(T) >= y
  <1> DEFINE U == {n - i : i \in T}
  <1>1. U \in SUBSET Nat /\ U # {}
    <2>1. \A i \in T : i \in 0..n /\ n - i \in Nat
      OBVIOUS
    <2> QED
      BY <2>1
  <1>2. PICK u \in U : \A y \in U : u <= y
    BY <1>1, Least
  <1>3. PICK x \in T : u = n - x
    OBVIOUS
  <1>4. \A y \in T : x >= y
    <2> TAKE y \in T
    <2>1. n - x <= n - y
      BY <1>2, <1>3
    <2> QED
      BY <2>1
  <1> QED
    BY <1>4 DEF Max

(* The selection found in lines.                                            *)
Marks(r, s) == {i \in DOMAIN s : r[s[i]].kind \in Durable}
Pick(r, x) == IF r[x].kind = "select" THEN r[x].target ELSE x
Sel(r, s) == IF Marks(r, s) = {} THEN Root ELSE Pick(r, s[Max(Marks(r, s))])

LEMMA SelectionIsSel ==
  ASSUME NEW f
  PROVE  Selection(f) = Sel(rec, f.ids)
  BY DEF Selection, Sel, Marks, Pick

LEMMA SelLast ==
  ASSUME NEW S, NEW s \in Seq(S), NEW r, NEW m \in 1..Len(s), r[s[m]].kind \in Durable,
         \A j \in (m + 1)..Len(s) : r[s[j]].kind \notin Durable
  PROVE  Sel(r, s) = Pick(r, s[m])
  <1>1. Marks(r, s) \in SUBSET (0..Len(s)) /\ m \in Marks(r, s) /\ Len(s) \in Nat
    BY DEF Marks
  <1>2. Max(Marks(r, s)) \in Marks(r, s) /\ \A y \in Marks(r, s) : Max(Marks(r, s)) >= y
    BY <1>1, MaxOf
  <1>3. Max(Marks(r, s)) = m
    <2>1. Max(Marks(r, s)) >= m /\ Max(Marks(r, s)) \in 1..Len(s)
      BY <1>1, <1>2 DEF Marks
    <2>2. r[s[Max(Marks(r, s))]].kind \in Durable
      BY <1>2 DEF Marks
    <2> QED
      BY <2>1, <2>2
  <1> QED
    BY <1>1, <1>3 DEF Sel

LEMMA SelNone ==
  ASSUME NEW S, NEW s \in Seq(S), NEW r, \A j \in 1..Len(s) : r[s[j]].kind \notin Durable
  PROVE  Sel(r, s) = Root
  BY DEF Sel, Marks

LEMMA SelCases ==
  ASSUME NEW S, NEW s \in Seq(S), NEW r
  PROVE  \/ \A j \in 1..Len(s) : r[s[j]].kind \notin Durable
         \/ \E m \in 1..Len(s) : /\ r[s[m]].kind \in Durable
                                 /\ \A j \in (m + 1)..Len(s) : r[s[j]].kind \notin Durable
  <1>1. CASE Marks(r, s) = {}
    BY <1>1 DEF Marks
  <1>2. CASE Marks(r, s) # {}
    <2> DEFINE m == Max(Marks(r, s))
    <2>1. Marks(r, s) \in SUBSET (0..Len(s))
      BY DEF Marks
    <2>2. m \in Marks(r, s) /\ \A y \in Marks(r, s) : m >= y
      BY <1>2, <2>1, MaxOf
    <2>3. m \in 1..Len(s) /\ r[s[m]].kind \in Durable
      BY <2>2 DEF Marks
    <2>4. \A j \in (m + 1)..Len(s) : r[s[j]].kind \notin Durable
      <3> SUFFICES ASSUME NEW j \in (m + 1)..Len(s), r[s[j]].kind \in Durable
                   PROVE FALSE
        OBVIOUS
      <3>1. j \in Marks(r, s)
        BY <2>3 DEF Marks
      <3> QED
        BY <2>2, <2>3, <3>1
    <2> QED
      BY <2>3, <2>4
  <1> QED
    BY <1>1, <1>2

(* A line more: a message changes nothing, another record decides.          *)
LEMMA SelAppend ==
  ASSUME NEW S, NEW s \in Seq(S), NEW x \in S, NEW r
  PROVE  Sel(r, s \o <<x>>) = IF r[x].kind \in Durable THEN Pick(r, x) ELSE Sel(r, s)
  <1> DEFINE t == s \o <<x>>
  <1>1. t \in Seq(S) /\ Len(t) = Len(s) + 1 /\ t[Len(s) + 1] = x /\ Len(s) \in Nat
        /\ \A i \in 1..Len(s) : t[i] = s[i]
    OBVIOUS
  <1> HIDE DEF t
  <1>2. CASE r[x].kind \in Durable
    <2>1. Sel(r, t) = Pick(r, t[Len(s) + 1])
      BY <1>1, <1>2, SelLast
    <2> QED
      BY <1>1, <1>2, <2>1 DEF t
  <1>3. CASE r[x].kind \notin Durable
    <2>1. CASE \A j \in 1..Len(s) : r[s[j]].kind \notin Durable
      <3>1. \A j \in 1..Len(t) : r[t[j]].kind \notin Durable
        BY <1>1, <1>3, <2>1
      <3>2. Sel(r, t) = Root /\ Sel(r, s) = Root
        BY <1>1, <2>1, <3>1, SelNone
      <3> QED
        BY <1>3, <3>2 DEF t
    <2>2. CASE \E m \in 1..Len(s) : /\ r[s[m]].kind \in Durable
                                    /\ \A j \in (m + 1)..Len(s) : r[s[j]].kind \notin Durable
      <3>1. PICK m \in 1..Len(s) : /\ r[s[m]].kind \in Durable
                                   /\ \A j \in (m + 1)..Len(s) : r[s[j]].kind \notin Durable
        BY <2>2
      <3>2. \A j \in (m + 1)..Len(t) : r[t[j]].kind \notin Durable
        <4> TAKE j \in (m + 1)..Len(t)
        <4>1. j = Len(s) + 1 \/ (j \in (m + 1)..Len(s) /\ j \in 1..Len(s))
          BY <1>1
        <4>2. CASE j = Len(s) + 1
          BY <1>1, <1>3, <4>2
        <4>3. CASE j \in (m + 1)..Len(s) /\ j \in 1..Len(s)
          BY <1>1, <3>1, <4>3
        <4> QED
          BY <4>1, <4>2, <4>3
      <3>3. m \in 1..Len(t) /\ t[m] = s[m]
        BY <1>1
      <3>4. Sel(r, t) = Pick(r, t[m])
        BY <1>1, <3>1, <3>2, <3>3, SelLast
      <3>5. Sel(r, s) = Pick(r, s[m])
        BY <3>1, SelLast
      <3> QED
        BY <1>3, <3>3, <3>4, <3>5 DEF t
    <2> QED
      BY <2>1, <2>2, SelCases
  <1> QED
    BY <1>2, <1>3

(* What is selected depends on the records in the lines only.               *)
LEMMA SelSame ==
  ASSUME NEW S, NEW s \in Seq(S), NEW r, NEW q, \A i \in 1..Len(s) : q[s[i]] = r[s[i]]
  PROVE  Sel(q, s) = Sel(r, s)
  <1>1. CASE \A j \in 1..Len(s) : r[s[j]].kind \notin Durable
    <2>1. \A j \in 1..Len(s) : q[s[j]].kind \notin Durable
      BY <1>1
    <2> QED
      BY <1>1, <2>1, SelNone
  <1>2. CASE \E m \in 1..Len(s) : /\ r[s[m]].kind \in Durable
                                  /\ \A j \in (m + 1)..Len(s) : r[s[j]].kind \notin Durable
    <2>1. PICK m \in 1..Len(s) : /\ r[s[m]].kind \in Durable
                                 /\ \A j \in (m + 1)..Len(s) : r[s[j]].kind \notin Durable
      BY <1>2
    <2>2. /\ q[s[m]].kind \in Durable
          /\ \A j \in (m + 1)..Len(s) : q[s[j]].kind \notin Durable
      <3>1. Len(s) \in Nat
        OBVIOUS
      <3>2. \A j \in (m + 1)..Len(s) : j \in 1..Len(s)
        BY <3>1
      <3> QED
        BY <2>1, <3>2
    <2>3. Sel(r, s) = Pick(r, s[m]) /\ Sel(q, s) = Pick(q, s[m])
      BY <2>1, <2>2, SelLast
    <2> QED
      BY <2>3 DEF Pick
  <1> QED
    BY <1>1, <1>2, SelCases

------------------------------------------------------------------------------
(* Lines that load: the header first, no line twice, parents and targets    *)
(* before, and every record made before id n.                               *)
Selectable(r, d) == r[d].kind \in {"turn_commit", "state", "session"}
Behind(r, s, i, x) == \E j \in 1..(i - 1) : s[j] = r[x].parent
Targets(r, s, i, x) ==
  r[x].kind = "select" =>
    \E j \in 1..(i - 1) : s[j] = r[x].target /\ Selectable(r, s[j])
Chain(r, n, s) ==
  /\ \A i \in 1..Len(s) : s[i] \in 0..(n - 1)
  /\ s # <<>> => s[1] = Root
  /\ \A i, j \in 1..Len(s) : s[i] = s[j] => i = j
  /\ \A i \in 2..Len(s) : Behind(r, s, i, s[i]) /\ Targets(r, s, i, s[i])

LEMMA ChainPrefix ==
  ASSUME NEW S, NEW s \in Seq(S), NEW r, NEW n \in Nat, Chain(r, n, s), NEW k \in 0..Len(s)
  PROVE  Chain(r, n, SubSeq(s, 1, k))
  <1> DEFINE t == SubSeq(s, 1, k)
  <1>1. t \in Seq(S) /\ Len(t) = k /\ Len(s) \in Nat /\ \A i \in 1..k : t[i] = s[i]
    OBVIOUS
  <1> HIDE DEF t
  <1>2. \A i \in 2..k : i \in 2..Len(s) /\ \A j \in 1..(i - 1) : t[j] = s[j]
    BY <1>1
  <1>3. \A i \in 2..k : Behind(r, t, i, t[i]) /\ Targets(r, t, i, t[i])
    <2> TAKE i \in 2..k
    <2>1. i \in 2..Len(s) /\ t[i] = s[i] /\ \A j \in 1..(i - 1) : t[j] = s[j]
      BY <1>1, <1>2
    <2>2. Behind(r, s, i, s[i]) /\ Targets(r, s, i, s[i])
      BY <2>1 DEF Chain
    <2> QED
      BY <2>1, <2>2 DEF Behind, Targets
  <1>4. \A i, j \in 1..Len(t) : t[i] = t[j] => i = j
    BY <1>1 DEF Chain
  <1>5. t # <<>> => t[1] = Root
    BY <1>1 DEF Chain
  <1>6. \A i \in 1..Len(t) : t[i] \in 0..(n - 1)
    BY <1>1 DEF Chain
  <1> QED
    BY <1>1, <1>3, <1>4, <1>5, <1>6 DEF Chain, t

LEMMA ChainGrown ==
  ASSUME NEW S, NEW s \in Seq(S), NEW r, NEW q, NEW n \in Nat, Chain(r, n, s),
         \A i \in 0..(n - 1) : q[i] = r[i]
  PROVE  Chain(q, n, s) /\ Chain(q, n + 1, s)
  <1>1. \A i \in 1..Len(s) : s[i] \in 0..n /\ q[s[i]] = r[s[i]]
    BY DEF Chain
  <1>2. \A i \in 2..Len(s) : i \in 1..Len(s) /\ \A j \in 1..(i - 1) : j \in 1..Len(s)
    OBVIOUS
  <1>3. \A i \in 2..Len(s) : Behind(q, s, i, s[i]) /\ Targets(q, s, i, s[i])
    <2> TAKE i \in 2..Len(s)
    <2>1. Behind(r, s, i, s[i]) /\ Targets(r, s, i, s[i]) /\ q[s[i]] = r[s[i]]
      BY <1>1, <1>2 DEF Chain
    <2>2. \A j \in 1..(i - 1) : q[s[j]] = r[s[j]]
      BY <1>1, <1>2
    <2> QED
      BY <2>1, <2>2 DEF Behind, Targets, Selectable
  <1> QED
    BY <1>1, <1>3 DEF Chain

LEMMA ChainAppend ==
  ASSUME NEW S, NEW s \in Seq(S), NEW r, NEW n \in Nat, n \in S, Chain(r, n, s), s # <<>>,
         NEW q, \A i \in 0..(n - 1) : q[i] = r[i], q[n].parent \in Elements(s),
         q[n].kind = "select" => q[n].target \in Elements(s) /\ Selectable(r, q[n].target)
  PROVE  Chain(q, n + 1, s \o <<n>>)
  <1> DEFINE t == s \o <<n>>
  <1>1. t \in Seq(S) /\ Len(t) = Len(s) + 1 /\ t[Len(s) + 1] = n /\ Len(s) \in Nat
        /\ \A i \in 1..Len(s) : t[i] = s[i]
    OBVIOUS
  <1> HIDE DEF t
  <1>2. Chain(q, n + 1, s)
    BY ChainGrown
  <1>3. \A i \in 1..Len(s) : s[i] \in 0..(n - 1)
    BY DEF Chain
  <1>4. \A i \in 1..Len(t) : t[i] \in 0..(n + 1 - 1)
    BY <1>1, <1>3
  <1>5. t # <<>> => t[1] = Root
    BY <1>1 DEF Chain
  <1>6. \A i, j \in 1..Len(t) : t[i] = t[j] => i = j
    <2>1. \A i \in 1..Len(s) : t[i] # n
      BY <1>1, <1>3
    <2>2. \A i, j \in 1..Len(s) : t[i] = t[j] => i = j
      BY <1>1 DEF Chain
    <2> QED
      BY <1>1, <2>1, <2>2
  <1>7. \A i \in 2..Len(t) : Behind(q, t, i, t[i]) /\ Targets(q, t, i, t[i])
    <2>1. ASSUME NEW i \in 2..Len(s)
          PROVE  Behind(q, t, i, t[i]) /\ Targets(q, t, i, t[i])
      <3>1. Behind(q, s, i, s[i]) /\ Targets(q, s, i, s[i])
        BY <1>2 DEF Chain
      <3>2. t[i] = s[i] /\ \A j \in 1..(i - 1) : t[j] = s[j]
        BY <1>1
      <3> QED
        BY <3>1, <3>2 DEF Behind, Targets
    <2>2. Behind(q, t, Len(s) + 1, n)
      <3>1. PICK j \in 1..Len(s) : s[j] = q[n].parent
        BY DEF Elements
      <3> QED
        BY <1>1, <3>1 DEF Behind
    <2>3. Targets(q, t, Len(s) + 1, n)
      <3> SUFFICES ASSUME q[n].kind = "select"
                   PROVE  \E j \in 1..(Len(s) + 1 - 1) : t[j] = q[n].target /\ Selectable(q, t[j])
        BY DEF Targets
      <3>1. PICK j \in 1..Len(s) : s[j] = q[n].target
        BY DEF Elements
      <3>2. Selectable(r, s[j]) /\ q[s[j]] = r[s[j]]
        BY <1>3, <3>1
      <3> QED
        BY <1>1, <3>1, <3>2 DEF Selectable
    <2> QED
      BY <1>1, <2>1, <2>2, <2>3
  <1> QED
    BY <1>4, <1>5, <1>6, <1>7 DEF Chain, t

LEMMA ElementsAppend ==
  ASSUME NEW S, NEW s \in Seq(S), NEW x
  PROVE  Elements(s \o <<x>>) = Elements(s) \cup {x}
  <1> DEFINE t == s \o <<x>>
  <1>1. DOMAIN t = 1..(Len(s) + 1) /\ t[Len(s) + 1] = x /\ Len(s) \in Nat
        /\ \A i \in 1..Len(s) : t[i] = s[i]
    OBVIOUS
  <1> HIDE DEF t
  <1>2. Elements(t) \subseteq Elements(s) \cup {x}
    BY <1>1 DEF Elements
  <1>3. Elements(s) \subseteq Elements(t) /\ x \in Elements(t)
    BY <1>1 DEF Elements
  <1> QED
    BY <1>2, <1>3 DEF t

(* What is selected in lines that load is one of them, and can be selected. *)
LEMMA SelInChain ==
  ASSUME NEW S, NEW s \in Seq(S), NEW r, NEW n \in Nat, Chain(r, n, s), s # <<>>,
         r[Root] = Header
  PROVE  Sel(r, s) \in Elements(s) /\ Selectable(r, Sel(r, s))
  <1>1. s[1] = Root /\ 1 \in 1..Len(s) /\ DOMAIN s = 1..Len(s)
    BY DEF Chain
  <1>2. CASE \A j \in 1..Len(s) : r[s[j]].kind \notin Durable
    <2>1. Sel(r, s) = Root
      BY <1>2, SelNone
    <2> QED
      BY <1>1, <2>1 DEF Elements, Selectable, Header
  <1>3. CASE \E m \in 1..Len(s) : /\ r[s[m]].kind \in Durable
                                  /\ \A j \in (m + 1)..Len(s) : r[s[j]].kind \notin Durable
    <2>1. PICK m \in 1..Len(s) : /\ r[s[m]].kind \in Durable
                                 /\ \A j \in (m + 1)..Len(s) : r[s[j]].kind \notin Durable
      BY <1>3
    <2>2. Sel(r, s) = Pick(r, s[m])
      BY <2>1, SelLast
    <2>3. CASE r[s[m]].kind = "select"
      <3>1. m # 1
        BY <1>1, <2>3 DEF Header
      <3>2. PICK j \in 1..(m - 1) : s[j] = r[s[m]].target /\ Selectable(r, s[j])
        BY <2>3, <3>1 DEF Chain, Targets
      <3>3. j \in 1..Len(s) /\ Sel(r, s) = s[j]
        BY <2>2, <2>3, <3>2 DEF Pick
      <3> QED
        BY <1>1, <3>2, <3>3 DEF Elements
    <2>4. CASE r[s[m]].kind # "select"
      BY <1>1, <2>1, <2>2, <2>4 DEF Pick, Elements, Selectable, Durable
    <2> QED
      BY <2>3, <2>4
  <1> QED
    BY <1>2, <1>3, SelCases

LEMMA ChainElements ==
  ASSUME NEW S, NEW s \in Seq(S), NEW r, NEW n \in Nat, Chain(r, n, s)
  PROVE  Elements(s) \subseteq 0..(n - 1)
  BY DEF Chain, Elements

LEMMA ChainLoads ==
  ASSUME NEW f \in File, NEW n \in 1..(MaxId + 1), MaxId \in Nat, Chain(rec, n, f.ids), f.ids # <<>>
  PROVE  Loads(f)
  <1> DEFINE s == f.ids
  <1>1. s \in Seq(Lines) /\ DOMAIN s = 1..Len(s) /\ Len(s) \in Nat
    BY DEF File
  <1>2. s # <<>> /\ Chain(rec, n, s)
    OBVIOUS
  <1> HIDE DEF s
  <1>3. s[1] = Root
    BY <1>2 DEF Chain
  <1>4. ASSUME NEW i \in 2..Len(s)
        PROVE  LET before == {s[j] : j \in 1..(i - 1)}
                   r == rec[s[i]]
               IN  /\ s[i] \notin before \cup {Malformed}
                   /\ r.parent \in before
                   /\ r.kind = "select" =>
                        /\ r.target \in before
                        /\ rec[r.target].kind \in {"turn_commit", "state", "session"}
    <2>1. s[i] # Malformed
      BY <1>2 DEF Chain, Malformed
    <2>2. \A j \in 1..(i - 1) : s[j] # s[i]
      BY <1>2 DEF Chain
    <2>3. Behind(rec, s, i, s[i]) /\ Targets(rec, s, i, s[i])
      BY <1>2 DEF Chain
    <2> QED
      BY <2>1, <2>2, <2>3 DEF Behind, Targets, Selectable
  <1>5. \A i \in DOMAIN s :
          LET before == {s[j] : j \in 1..(i - 1)}
              r == rec[s[i]]
          IN IF i = 1 THEN s[i] = Root
             ELSE /\ s[i] \notin before \cup {Malformed}
                  /\ r.parent \in before
                  /\ r.kind = "select" =>
                       /\ r.target \in before
                       /\ rec[r.target].kind \in {"turn_commit", "state", "session"}
    <2> TAKE i \in DOMAIN s
    <2>1. CASE i = 1
      BY <1>3, <2>1
    <2>2. CASE i # 1
      <3>1. i \in 2..Len(s)
        BY <1>1, <2>2
      <3> QED
        BY <1>4, <2>2, <3>1
    <2> QED
      BY <2>1, <2>2
  <1> QED
    BY <1>2, <1>5, Zenon DEF Loads, s

------------------------------------------------------------------------------
(* Files                                                                    *)
LEMMA FileType ==
  ASSUME NEW f \in File
  PROVE  f.ids \in Seq(Lines) /\ f.torn \in BOOLEAN /\ Len(f.ids) \in Nat
  BY DEF File

LEMMA FlushedIs ==
  ASSUME NEW f \in File, NEW b \in {<<>>} \cup {<<i>> : i \in Lines}
  PROVE  /\ Flushed(f, b) \in File /\ Flushed(f, b).ids = f.ids \o b
         /\ b \in Seq(Lines) /\ Len(f.ids \o b) >= Len(f.ids)
         /\ \A i \in 1..Len(f.ids) : (f.ids \o b)[i] = f.ids[i]
         /\ f.ids # <<>> => f.ids \o b # <<>>
  <1>1. f.ids \in Seq(Lines) /\ b \in Seq(Lines)
    <2>1. b = <<>> => b \in Seq(Lines)
      OBVIOUS
    <2>2. ASSUME NEW i \in Lines, b = <<i>>
          PROVE  b \in Seq(Lines)
      BY <2>2
    <2>3. b \in Seq(Lines)
      BY <2>1, <2>2
    <2> QED
      BY <2>3 DEF File
  <1>2. /\ Len(f.ids \o b) >= Len(f.ids)
        /\ \A i \in 1..Len(f.ids) : (f.ids \o b)[i] = f.ids[i]
        /\ f.ids # <<>> => f.ids \o b # <<>>
    BY <1>1
  <1>3. f.ids \o b \in Seq(Lines)
    BY <1>1
  <1>4. b = <<>> => f.ids \o b = f.ids
    BY <1>1
  <1>5. [ids |-> f.ids \o b, torn |-> FALSE] \in File
    BY <1>3 DEF File
  <1> QED
    BY <1>1, <1>2, <1>4, <1>5 DEF Flushed

(* What a power loss leaves is a prefix of one of the two, not shorter than *)
(* both.                                                                    *)
LEMMA BetweenIs ==
  ASSUME NEW f \in File, NEW g \in File, NEW h \in Between(f, g)
  PROVE  /\ h \in File
         /\ \E s \in {f.ids, g.ids} : \E n \in 0..Len(s) :
              h.ids = SubSeq(s, 1, n) /\ (n >= Len(f.ids) \/ n >= Len(g.ids))
  <1>1. /\ f.ids \in Seq(Lines) /\ Len(f.ids) \in Nat
        /\ g.ids \in Seq(Lines) /\ Len(g.ids) \in Nat
    BY FileType
  <1>2. CASE h \in {f, g}
    <2>1. SubSeq(f.ids, 1, Len(f.ids)) = f.ids /\ SubSeq(g.ids, 1, Len(g.ids)) = g.ids
      BY <1>1
    <2> QED
      BY <1>1, <1>2, <2>1
  <1>3. ASSUME NEW long \in {f, g}, NEW short \in {f, g}, Len(short.ids) <= Len(long.ids),
               NEW n \in Len(short.ids)..(Len(long.ids) - 1), NEW t \in BOOLEAN,
               h = [ids |-> SubSeq(long.ids, 1, n), torn |-> t]
        PROVE  /\ h \in File
               /\ \E s \in {f.ids, g.ids} : \E k \in 0..Len(s) :
                    h.ids = SubSeq(s, 1, k) /\ (k >= Len(f.ids) \/ k >= Len(g.ids))
    <2>1. n \in 0..Len(long.ids) /\ n >= Len(short.ids) /\ long.ids \in Seq(Lines)
      BY <1>1, <1>3
    <2>2. SubSeq(long.ids, 1, n) \in Seq(Lines)
      BY <2>1
    <2> QED
      BY <1>3, <2>1, <2>2 DEF File
  <1>4. CASE h \notin {f, g}
    <2>1. CASE Len(f.ids) > Len(g.ids)
      <3>1. PICK n \in Len(g.ids)..(Len(f.ids) - 1), t \in BOOLEAN :
              h = [ids |-> SubSeq(f.ids, 1, n), torn |-> t]
        BY <1>4, <2>1 DEF Between
      <3>2. Len(g.ids) <= Len(f.ids)
        BY <1>1, <2>1
      <3> QED
        BY <1>3, <3>1, <3>2
    <2>2. CASE ~(Len(f.ids) > Len(g.ids))
      <3>1. PICK n \in Len(f.ids)..(Len(g.ids) - 1), t \in BOOLEAN :
              h = [ids |-> SubSeq(g.ids, 1, n), torn |-> t]
        BY <1>4, <2>2 DEF Between
      <3>2. Len(f.ids) <= Len(g.ids)
        BY <1>1, <2>2
      <3> QED
        BY <1>3, <3>1, <3>2
    <2> QED
      BY <2>1, <2>2
  <1> QED
    BY <1>2, <1>4

LEMMA BetweenChains ==
  ASSUME NEW f \in File, NEW g \in File, NEW h \in Between(f, g), NEW r, NEW n \in Nat,
         Chain(r, n, f.ids), Chain(r, n, g.ids)
  PROVE  Chain(r, n, h.ids) /\ (f.ids # <<>> /\ g.ids # <<>> => h.ids # <<>>)
  <1>0. PICK s \in {f.ids, g.ids} : \E n0 \in 0..Len(s) :
          h.ids = SubSeq(s, 1, n0) /\ (n0 >= Len(f.ids) \/ n0 >= Len(g.ids))
    BY BetweenIs
  <1>1. PICK k \in 0..Len(s) :
          h.ids = SubSeq(s, 1, k) /\ (k >= Len(f.ids) \/ k >= Len(g.ids))
    BY <1>0
  <1>2. s \in Seq(Lines) /\ Chain(r, n, s)
    BY FileType
  <1>3. Chain(r, n, h.ids)
    BY <1>1, <1>2, ChainPrefix
  <1>4. ASSUME f.ids # <<>>, g.ids # <<>>
        PROVE  h.ids # <<>>
    <2>1. f.ids \in Seq(Lines) /\ g.ids \in Seq(Lines)
      BY FileType
    <2>2. k >= 1
      BY <1>1, <1>4, <2>1
    <2> QED
      BY <1>1, <1>2, <2>2
  <1> QED
    BY <1>3, <1>4

LEMMA BetweenKeeps ==
  ASSUME NEW f \in File, NEW g \in File, NEW h \in Between(f, g), NEW k \in Nat,
         k <= Len(f.ids), k <= Len(g.ids), \A i \in 1..k : g.ids[i] = f.ids[i]
  PROVE  k <= Len(h.ids) /\ \A i \in 1..k : h.ids[i] = f.ids[i]
  <1>0. PICK s \in {f.ids, g.ids} : \E n0 \in 0..Len(s) :
          h.ids = SubSeq(s, 1, n0) /\ (n0 >= Len(f.ids) \/ n0 >= Len(g.ids))
    BY BetweenIs
  <1>1. PICK n \in 0..Len(s) :
          h.ids = SubSeq(s, 1, n) /\ (n >= Len(f.ids) \/ n >= Len(g.ids))
    BY <1>0
  <1>2. s \in Seq(Lines) /\ Len(f.ids) \in Nat /\ Len(g.ids) \in Nat
    BY FileType
  <1>3. k <= n /\ Len(h.ids) = n /\ \A i \in 1..n : h.ids[i] = s[i]
    BY <1>1, <1>2
  <1> QED
    BY <1>1, <1>3

LEMMA BetweenSame ==
  ASSUME NEW f \in File
  PROVE  Between(f, f) = {f}
  <1>1. Len(f.ids)..(Len(f.ids) - 1) = {}
    BY FileType
  <1> QED
    BY <1>1 DEF Between

------------------------------------------------------------------------------
(* The file, the memory and the operation under way                         *)

(* The records: those made, each behind its parent, and the rest.           *)
Made(r, n) ==
  /\ r[Root] = Header
  /\ \A i \in Lines : i >= n => r[i] = Header
  /\ \A i \in 1..(n - 1) :
       /\ r[i].kind \in Durable \cup {"message"}
       /\ r[i].parent < i /\ r[i].target < i

Writing == pc \in {"flush", "fsync", "sync"}
Removing == pc \in {"seek", "truncate", "cleansync"}

(* Whatever a reopening finds loads.                                        *)
Files ==
  /\ Chain(rec, nextId, disk.ids)
  /\ Chain(rec, nextId, cache.ids)
  /\ Chain(rec, nextId, cache.ids \o buffer)
  /\ disk.ids # <<>> => cache.ids # <<>>

(* What the stream holds at each place.                                     *)
Places ==
  /\ pc \in {"closed", "trim", "trimsync"} => buffer = <<>>
  /\ pc = "trimsync" => ~cache.torn
  /\ pc \in {"trim", "trimsync", "idle"} \/ Removing => cache.ids # <<>>
  /\ pc \in {"closed", "trim", "trimsync", "idle"} => op = NoOp
  /\ pc = "closing" => op.kind \in {"none", "session"}
  /\ pc \in {"closed", "trim", "trimsync"} =>
       entries = {} /\ head = Root /\ committed = Root /\ ~failed /\ turn = 0

(* Memory is true to the lines s.                                           *)
Mirrors(s) ==
  /\ entries = Elements(s) \ {Root} /\ committed = Sel(rec, s)
  /\ head \in Elements(s)

Idle ==
  pc = "idle" /\ ~failed => buffer = <<>> /\ ~cache.torn /\ Mirrors(cache.ids)

(* A header on its way.                                                     *)
HeaderFrame ==
  Writing /\ op.kind = "session" =>
    /\ ~failed
    /\ op = [NoOp EXCEPT !.kind = "session"]
    /\ entries = {} /\ head = Root /\ committed = Root /\ turn = 0
    /\ pc = "flush" => cache.ids = <<>> /\ buffer = <<Root>>
    /\ pc \in {"fsync", "sync"} => cache = [ids |-> <<Root>>, torn |-> FALSE] /\ buffer = <<>>

(* A record on its way, behind the lines of op.offset.                      *)
RecordFrame ==
  Writing /\ op.kind # "session" =>
    /\ ~failed
    /\ op.id \in 1..(nextId - 1) /\ op.kind = rec[op.id].kind
    /\ ~op.offset.torn /\ op.offset.ids # <<>>
    /\ Chain(rec, nextId, op.offset.ids)
    /\ Chain(rec, nextId, op.offset.ids \o <<op.id>>)
    /\ op.previous \in Elements(op.offset.ids)
    /\ committed = Sel(rec, op.offset.ids)
    /\ op.kind = "message" => head = op.previous /\ rec[op.id].parent = head

RecordPlace ==
  Writing /\ op.kind # "session" =>
    /\ pc = "flush" => cache.ids = op.offset.ids /\ buffer = <<op.id>>
    /\ pc \in {"fsync", "sync"} =>
         cache = [ids |-> op.offset.ids \o <<op.id>>, torn |-> FALSE] /\ buffer = <<>>
    /\ pc \in {"flush", "fsync"} => entries = Elements(op.offset.ids) \ {Root}
    /\ pc = "sync" => /\ entries = Elements(cache.ids) \ {Root}
                      /\ disk = cache /\ op.kind # "message"

(* A removal on its way: of nothing, when the store has not failed.         *)
RemovalFrame ==
  Removing =>
    /\ op.kind \in Durable
    /\ op.offset.ids # <<>> /\ Chain(rec, nextId, op.offset.ids)
    /\ pc \in {"truncate", "cleansync"} => buffer = <<>>
    /\ pc = "cleansync" => cache = op.offset
    /\ op.id # Root => committed = Sel(rec, op.offset.ids)
    /\ op.previous = head
    /\ ~failed => /\ op.id = Root /\ buffer = <<>> /\ cache = op.offset /\ ~cache.torn
                  /\ Mirrors(cache.ids)

Frames == Places /\ Idle /\ HeaderFrame /\ RecordFrame /\ RecordPlace /\ RemovalFrame

(* The records a caller was told of are in a common part of all files.      *)
Returned(t) == {i \in Ids : t[i] = "returned"}
Common(k, s, d) == k <= Len(s) /\ \A i \in 1..k : s[i] = d[i]
Holds(k, t, d) == \A x \in Returned(t) : \E i \in 1..k : d[i] = x
Kept ==
  \E k \in 0..Len(disk.ids) :
    /\ Common(k, cache.ids, disk.ids)
    /\ Holds(k, told, disk.ids)
    /\ (Writing \/ Removing) /\ op.kind # "session" => Common(k, op.offset.ids, disk.ids)

FileInv == TypeOK /\ Made(rec, nextId) /\ Files /\ Frames /\ Kept

LEMMA InitFileInv ==
  ASSUME BoundsAssumption, Init
  PROVE  FileInv
  <1> USE BoundsAssumption DEF BoundsAssumption
  <1>1. TypeOK
    <2>1. Header \in Record /\ Empty \in File /\ NoOp \in OpRecord
      BY DEF Header, Record, Empty, File, NoOp, OpRecord, Kinds, Durable, Ids, Root
    <2>2. rec \in [Lines -> Record] /\ told \in [Ids -> {"nothing", "returned", "raised"}]
      BY <2>1 DEF Init
    <2>3. /\ nextId \in 1..(MaxId + 1) /\ head \in Ids /\ committed \in Ids /\ entries \subseteq Ids
          /\ turn \in 0..MaxTurn /\ begun \in 0..MaxTurn
          /\ faults \in 0..MaxFaults /\ stops \in 0..MaxStops
      BY DEF Init, Ids, Root
    <2> QED
      BY <2>1, <2>2, <2>3 DEF Init, TypeOK
  <1>2. Made(rec, nextId)
    BY DEF Init, Made, Lines, Ids, Root
  <1>3. Files
    BY DEF Init, Files, Chain, Empty
  <1>4. Frames
    BY DEF Init, Frames, Places, Idle, HeaderFrame, RecordFrame, RecordPlace, RemovalFrame,
           Writing, Removing, Root
  <1>5. Kept
    <2>1. Len(disk.ids) = 0 /\ cache = disk
      BY DEF Init, Empty
    <2>2. Returned(told) = {}
      BY DEF Init, Returned
    <2> QED
      BY <2>1, <2>2 DEF Init, Kept, Common, Holds, Writing, Removing
  <1> QED
    BY <1>1, <1>2, <1>3, <1>4, <1>5 DEF FileInv

(* Facts about values                                                       *)
LEMMA TornFile ==
  ASSUME NEW f \in File, NEW t \in BOOLEAN
  PROVE  /\ [f EXCEPT !.torn = t] \in File
         /\ [f EXCEPT !.torn = t].ids = f.ids /\ [f EXCEPT !.torn = t].torn = t
  BY DEF File

LEMMA NoOpType ==
  ASSUME BoundsAssumption
  PROVE  /\ NoOp \in OpRecord /\ NoOp.kind = "none" /\ NoOp.id = Root /\ NoOp.offset = Empty
         /\ Root \in Ids /\ Root \in Lines
  BY DEF BoundsAssumption, NoOp, OpRecord, Kinds, Durable, Ids, Lines, Root, File, Empty

LEMMA FileFacts ==
  ASSUME FileInv
  PROVE  /\ disk \in File /\ cache \in File /\ op \in OpRecord /\ op.offset \in File
         /\ op.kind \in Kinds \cup {"none"} /\ op.id \in Ids /\ op.previous \in Ids
         /\ disk.ids \in Seq(Lines) /\ cache.ids \in Seq(Lines) /\ op.offset.ids \in Seq(Lines)
         /\ Len(disk.ids) \in Nat /\ Len(cache.ids) \in Nat
         /\ cache.ids \o <<>> = cache.ids
  <1>1. disk \in File /\ cache \in File /\ op \in OpRecord
    BY DEF FileInv, TypeOK
  <1>2. op.offset \in File /\ op.kind \in Kinds \cup {"none"} /\ op.id \in Ids /\ op.previous \in Ids
    BY <1>1 DEF OpRecord
  <1> QED
    BY <1>1, <1>2, FileType, ConcatEmptySeq

(* What the stream holds behind the file.                                   *)
LEMMA FlushFacts ==
  ASSUME FileInv
  PROVE  /\ Flushed(cache, buffer) \in File /\ Flushed(cache, buffer).ids = cache.ids \o buffer
         /\ cache.ids # <<>> => cache.ids \o buffer # <<>>
         /\ cache.ids \o buffer \in Seq(Lines)
         /\ cache.ids \o buffer \o <<>> = cache.ids \o buffer
         /\ \A k \in Nat : \A d : Common(k, cache.ids, d) => Common(k, cache.ids \o buffer, d)
  <1>1. cache \in File /\ buffer \in {<<>>} \cup {<<i>> : i \in Lines}
    BY DEF FileInv, TypeOK
  <1>2. cache.ids \in Seq(Lines) /\ buffer \in Seq(Lines)
    BY <1>1, FlushedIs, FileType
  <1>3. cache.ids \o buffer \in Seq(Lines)
    BY <1>2
  <1>4. cache.ids \o buffer \o <<>> = cache.ids \o buffer
    BY <1>3, ConcatEmptySeq
  <1>5. \A k \in Nat : \A d : Common(k, cache.ids, d) => Common(k, cache.ids \o buffer, d)
    <2> TAKE k \in Nat
    <2> TAKE d
    <2>1. Len(cache.ids \o buffer) >= Len(cache.ids) /\ Len(cache.ids) \in Nat
          /\ Len(cache.ids \o buffer) \in Nat
          /\ \A i \in 1..Len(cache.ids) : (cache.ids \o buffer)[i] = cache.ids[i]
      BY <1>1, <1>2, <1>3, FlushedIs
    <2> QED
      BY <2>1 DEF Common
  <1> QED
    BY <1>1, <1>3, <1>4, <1>5, FlushedIs

LEMMA BoundsAre ==
  ASSUME BoundsAssumption
  PROVE  /\ MaxId \in Nat \ {0} /\ MaxTurn \in Nat /\ MaxFaults \in Nat /\ MaxStops \in Nat
         /\ 0 \in 0..MaxTurn
  BY DEF BoundsAssumption

(* What is written and what is removed.                                     *)
LEMMA Kind ==
  ASSUME FileInv
  PROVE  /\ Writing => op.kind \in Durable \cup {"message", "session"}
         /\ Writing /\ op.kind # "session" =>
              cache.ids # <<>> /\ op.offset.ids # <<>> /\ op.id # Root /\ op.id \in Ids
         /\ Removing => op.kind \in Durable /\ op.offset.ids # <<>> /\ Chain(rec, nextId, op.offset.ids)
         /\ "message" \notin Durable /\ "session" \notin Durable /\ "none" \notin Durable
  <1>1. ASSUME Writing, op.kind # "session"
        PROVE  /\ op.kind \in Durable \cup {"message"}
               /\ cache.ids # <<>> /\ op.offset.ids # <<>> /\ op.id # Root /\ op.id \in Ids
    <2>1. op.id \in 1..(nextId - 1) /\ op.kind = rec[op.id].kind /\ op.offset.ids # <<>>
      BY <1>1 DEF FileInv, Frames, RecordFrame
    <2>2. op.kind \in Durable \cup {"message"}
      BY <2>1 DEF FileInv, Made
    <2>3. op.offset.ids \o <<op.id>> # <<>>
      BY FileFacts
    <2>4. cache.ids # <<>>
      BY <1>1, <2>1, <2>3 DEF FileInv, Frames, RecordPlace, Writing
    <2>5. op.id # Root
      BY <2>1, FileFacts DEF Root
    <2> QED
      BY <2>1, <2>2, <2>4, <2>5, FileFacts
  <1> QED
    BY <1>1 DEF FileInv, Frames, RemovalFrame, Durable

LEMMA Untold ==
  ASSUME NEW t, NEW x, NEW a, a # "returned"
  PROVE  Returned([t EXCEPT ![x] = a]) \subseteq Returned(t)
  BY DEF Returned

(* What a reopening makes of the file.                                      *)
LEMMA Opening ==
  ASSUME BoundsAssumption, FileInv, cache.ids # <<>>
  PROVE  /\ Selection(cache) = Sel(rec, cache.ids)
         /\ Sel(rec, cache.ids) \in Elements(cache.ids)
         /\ Elements(cache.ids) \subseteq Ids /\ Elements(cache.ids) \subseteq 0..(nextId - 1)
         /\ Selectable(rec, Sel(rec, cache.ids))
  <1>1. Chain(rec, nextId, cache.ids) /\ rec[Root] = Header /\ nextId \in 1..(MaxId + 1)
    BY DEF FileInv, Files, Made, TypeOK
  <1>2. Elements(cache.ids) \subseteq 0..(nextId - 1)
    BY <1>1, FileFacts, BoundsAre, ChainElements
  <1>3. Elements(cache.ids) \subseteq Ids
    BY <1>1, <1>2, BoundsAre DEF Ids
  <1>4. nextId \in Nat
    BY <1>1, BoundsAre
  <1>5. Sel(rec, cache.ids) \in Elements(cache.ids) /\ Selectable(rec, Sel(rec, cache.ids))
    BY <1>1, <1>4, FileFacts, SelInChain
  <1> QED
    BY <1>2, <1>3, <1>5, SelectionIsSel

(* What is durable and done is kept.                                        *)
LEMMA AllKept ==
  ASSUME FileInv, disk' = cache, cache' = cache, ~(Writing' \/ Removing'),
         Returned(told') \subseteq Returned(told) \cup Elements(cache.ids)
  PROVE  Kept'
  <1>1. PICK k \in 0..Len(disk.ids) : Common(k, cache.ids, disk.ids) /\ Holds(k, told, disk.ids)
    BY DEF FileInv, Kept
  <1> DEFINE n == Len(cache.ids)
  <1>2. n \in 0..Len(disk'.ids) /\ Common(n, cache'.ids, disk'.ids)
    BY FileFacts DEF Common
  <1>3. Holds(n, told', disk'.ids)
    <2> SUFFICES ASSUME NEW x \in Returned(told')
                 PROVE  \E i \in 1..n : cache.ids[i] = x
      BY DEF Holds
    <2>1. CASE x \in Elements(cache.ids)
      BY <2>1, FileFacts DEF Elements
    <2>2. CASE x \in Returned(told)
      <3>1. PICK i \in 1..k : disk.ids[i] = x
        BY <1>1, <2>2 DEF Holds
      <3> QED
        BY <1>1, <3>1, FileFacts DEF Common
    <2> QED
      BY <2>1, <2>2
  <1> QED
    BY <1>2, <1>3 DEF Kept

(* The line of a record that was flushed.                                   *)
LEMMA Appended ==
  ASSUME BoundsAssumption, FileInv, pc \in {"fsync", "sync"}, op.kind # "session"
  PROVE  /\ cache.ids = op.offset.ids \o <<op.id>> /\ cache.ids # <<>>
         /\ cache = [ids |-> op.offset.ids \o <<op.id>>, torn |-> FALSE]
         /\ ~cache.torn /\ buffer = <<>>
         /\ Elements(cache.ids) = Elements(op.offset.ids) \cup {op.id}
         /\ op.id # Root /\ op.previous \in Elements(cache.ids)
         /\ op.kind = rec[op.id].kind /\ op.kind \in Durable \cup {"message"}
         /\ Sel(rec, cache.ids) = IF op.kind \in Durable THEN Pick(rec, op.id) ELSE committed
  <1>1. Writing
    BY DEF Writing
  <1>2. cache = [ids |-> op.offset.ids \o <<op.id>>, torn |-> FALSE] /\ buffer = <<>>
    BY <1>1 DEF FileInv, Frames, RecordPlace
  <1>3. op.kind = rec[op.id].kind /\ op.previous \in Elements(op.offset.ids)
        /\ committed = Sel(rec, op.offset.ids)
    BY <1>1 DEF FileInv, Frames, RecordFrame
  <1>4. op.id \in Ids /\ op.id \in Lines /\ op.id # Root /\ op.kind \in Durable \cup {"message"}
    BY <1>1, Kind DEF Lines
  <1>5. cache.ids = op.offset.ids \o <<op.id>> /\ ~cache.torn
    BY <1>2
  <1>6. Sel(rec, cache.ids) = IF op.kind \in Durable THEN Pick(rec, op.id) ELSE committed
    BY <1>3, <1>4, <1>5, FileFacts, SelAppend
  <1>7. Elements(cache.ids) = Elements(op.offset.ids) \cup {op.id}
    BY <1>5, FileFacts, ElementsAppend
  <1>8. cache.ids # <<>>
    BY <1>1, Kind
  <1> QED
    BY <1>2, <1>3, <1>4, <1>5, <1>6, <1>7, <1>8

LEMMA Told ==
  ASSUME NEW t, NEW x, NEW a
  PROVE  Returned([t EXCEPT ![x] = a]) \subseteq Returned(t) \cup {x}
  BY DEF Returned

LEMMA UnchangedFile ==
  ASSUME BoundsAssumption, FileInv, UNCHANGED vars
  PROVE  FileInv'
  <1> USE DEF file, memory, client, bounds
  <1>1. TypeOK'
    <2>1. rec' \in [Lines -> Record] /\ nextId' \in 1..(MaxId + 1)
          /\ told' \in [Ids -> {"nothing", "returned", "raised"}]
      BY FileFacts DEF FileInv, TypeOK, vars
    <2>2. disk' \in File /\ cache' \in File /\ op' \in OpRecord
      BY NoOpType, FileFacts DEF FileInv, TypeOK, vars
    <2>3. buffer' \in {<<>>} \cup {<<i>> : i \in Lines}
      BY FileFacts DEF FileInv, TypeOK, vars
    <2>4. entries' \subseteq Ids /\ head' \in Ids /\ committed' \in Ids /\ failed' \in BOOLEAN
      BY NoOpType, FileFacts DEF FileInv, TypeOK, vars
    <2>5. pc' \in {"closed", "trim", "trimsync", "idle", "flush", "fsync", "sync",
                   "seek", "truncate", "cleansync", "closing"}
      BY FileFacts DEF FileInv, TypeOK, vars
    <2>6. turn' \in 0..MaxTurn /\ broken' \in BOOLEAN /\ begun' \in 0..MaxTurn
      BY BoundsAre, FileFacts DEF FileInv, TypeOK, vars
    <2>7. faults' \in 0..MaxFaults /\ stops' \in 0..MaxStops
      BY BoundsAre, FileFacts DEF FileInv, TypeOK, vars
    <2> QED
      BY <2>1, <2>2, <2>3, <2>4, <2>5, <2>6, <2>7 DEF TypeOK
  <1>2. Made(rec, nextId)'
    BY FileFacts DEF FileInv, vars
  <1>3. Files'
    BY FileFacts DEF FileInv, Files, vars
  <1>4. Places'
    BY NoOpType, FileFacts DEF FileInv, Frames, Places, Writing, Removing, vars
  <1>5. Idle'
    BY FileFacts DEF FileInv, Frames, Places, Idle, Mirrors, RemovalFrame, Writing, Removing, vars
  <1>6. HeaderFrame'
    BY FileFacts DEF FileInv, Frames, Places, HeaderFrame, Writing, vars
  <1>7. RecordFrame'
    BY FileFacts DEF FileInv, Frames, Places, RecordFrame, Writing, vars
  <1>8. RecordPlace'
    BY FileFacts DEF FileInv, Frames, Places, RecordFrame, RecordPlace, Writing, vars
  <1>9. RemovalFrame'
    BY FileFacts DEF FileInv, Frames, Places, RemovalFrame, Removing, Mirrors, vars
  <1>10. Kept'
    <2>1. PICK k \in 0..Len(disk.ids) :
            /\ Common(k, cache.ids, disk.ids)
            /\ Holds(k, told, disk.ids)
            /\ (Writing \/ Removing) /\ op.kind # "session" => Common(k, op.offset.ids, disk.ids)
      BY DEF FileInv, Kept
    <2>2. k \in 0..Len(disk'.ids) /\ Common(k, cache'.ids, disk'.ids)
      BY <2>1, FileFacts DEF FileInv, Common, Frames, RecordPlace, RecordFrame, RemovalFrame, Removing, Writing, Places, vars
    <2>3. Holds(k, told', disk'.ids)
      BY <2>1, FileFacts DEF Holds, Common, Returned, vars
    <2>4. (Writing' \/ Removing') /\ op'.kind # "session" => Common(k, op'.offset.ids, disk'.ids)
      BY <2>1, FileFacts DEF FileInv, Common, Writing, Removing, vars
    <2> QED
      BY <2>2, <2>3, <2>4 DEF Kept
  <1> QED
    BY <1>1, <1>2, <1>3, <1>4, <1>5, <1>6, <1>7, <1>8, <1>9, <1>10 DEF FileInv, Frames

LEMMA OpenRefusedFile ==
  ASSUME BoundsAssumption, FileInv, OpenRefused
  PROVE  FileInv'
  <1> USE DEF file, memory, client, bounds
  <1>1. TypeOK'
    <2>1. rec' \in [Lines -> Record] /\ nextId' \in 1..(MaxId + 1)
          /\ told' \in [Ids -> {"nothing", "returned", "raised"}]
      BY FileFacts DEF FileInv, TypeOK, OpenRefused, vars
    <2>2. disk' \in File /\ cache' \in File /\ op' \in OpRecord
      BY NoOpType, FileFacts DEF FileInv, TypeOK, OpenRefused, vars
    <2>3. buffer' \in {<<>>} \cup {<<i>> : i \in Lines}
      BY FileFacts DEF FileInv, TypeOK, OpenRefused, vars
    <2>4. entries' \subseteq Ids /\ head' \in Ids /\ committed' \in Ids /\ failed' \in BOOLEAN
      BY NoOpType, FileFacts DEF FileInv, TypeOK, OpenRefused, vars
    <2>5. pc' \in {"closed", "trim", "trimsync", "idle", "flush", "fsync", "sync",
                   "seek", "truncate", "cleansync", "closing"}
      BY FileFacts DEF FileInv, TypeOK, OpenRefused, vars
    <2>6. turn' \in 0..MaxTurn /\ broken' \in BOOLEAN /\ begun' \in 0..MaxTurn
      BY BoundsAre, FileFacts DEF FileInv, TypeOK, OpenRefused, vars
    <2>7. faults' \in 0..MaxFaults /\ stops' \in 0..MaxStops
      BY BoundsAre, FileFacts DEF FileInv, TypeOK, OpenRefused, vars
    <2> QED
      BY <2>1, <2>2, <2>3, <2>4, <2>5, <2>6, <2>7 DEF TypeOK
  <1>2. Made(rec, nextId)'
    BY FileFacts DEF FileInv, OpenRefused, vars
  <1>3. Files'
    BY FileFacts DEF FileInv, Files, OpenRefused, vars
  <1>4. Places'
    BY NoOpType, FileFacts DEF FileInv, Frames, Places, Writing, Removing, OpenRefused, vars
  <1>5. Idle'
    BY FileFacts DEF FileInv, Frames, Places, Idle, Mirrors, RemovalFrame, Writing, Removing, OpenRefused, vars
  <1>6. HeaderFrame'
    BY FileFacts DEF FileInv, Frames, Places, HeaderFrame, Writing, OpenRefused, vars
  <1>7. RecordFrame'
    BY FileFacts DEF FileInv, Frames, Places, RecordFrame, Writing, OpenRefused, vars
  <1>8. RecordPlace'
    BY FileFacts DEF FileInv, Frames, Places, RecordFrame, RecordPlace, Writing, OpenRefused, vars
  <1>9. RemovalFrame'
    BY FileFacts DEF FileInv, Frames, Places, RemovalFrame, Removing, Mirrors, OpenRefused, vars
  <1>10. Kept'
    <2>1. PICK k \in 0..Len(disk.ids) :
            /\ Common(k, cache.ids, disk.ids)
            /\ Holds(k, told, disk.ids)
            /\ (Writing \/ Removing) /\ op.kind # "session" => Common(k, op.offset.ids, disk.ids)
      BY DEF FileInv, Kept
    <2>2. k \in 0..Len(disk'.ids) /\ Common(k, cache'.ids, disk'.ids)
      BY <2>1, FileFacts DEF FileInv, Common, Frames, RecordPlace, RecordFrame, RemovalFrame, Removing, Writing, Places, OpenRefused, vars
    <2>3. Holds(k, told', disk'.ids)
      BY <2>1, FileFacts DEF Holds, Common, Returned, OpenRefused, vars
    <2>4. (Writing' \/ Removing') /\ op'.kind # "session" => Common(k, op'.offset.ids, disk'.ids)
      BY <2>1, FileFacts DEF FileInv, Common, Writing, Removing, OpenRefused, vars
    <2> QED
      BY <2>2, <2>3, <2>4 DEF Kept
  <1> QED
    BY <1>1, <1>2, <1>3, <1>4, <1>5, <1>6, <1>7, <1>8, <1>9, <1>10 DEF FileInv, Frames

LEMMA TrimFile ==
  ASSUME BoundsAssumption, FileInv, Trim
  PROVE  FileInv'
  <1> USE DEF file, memory, client, bounds
  <1>0. cache' \in File /\ cache'.ids = cache.ids
    BY FileFacts, TornFile DEF Trim
  <1>1. TypeOK'
    <2>1. rec' \in [Lines -> Record] /\ nextId' \in 1..(MaxId + 1)
          /\ told' \in [Ids -> {"nothing", "returned", "raised"}]
      BY FileFacts, <1>0 DEF FileInv, TypeOK, Trim
    <2>2. disk' \in File /\ cache' \in File /\ op' \in OpRecord
      BY NoOpType, FileFacts, <1>0 DEF FileInv, TypeOK, Trim
    <2>3. buffer' \in {<<>>} \cup {<<i>> : i \in Lines}
      BY FileFacts, <1>0 DEF FileInv, TypeOK, Trim
    <2>4. entries' \subseteq Ids /\ head' \in Ids /\ committed' \in Ids /\ failed' \in BOOLEAN
      BY NoOpType, FileFacts, <1>0 DEF FileInv, TypeOK, Trim
    <2>5. pc' \in {"closed", "trim", "trimsync", "idle", "flush", "fsync", "sync",
                   "seek", "truncate", "cleansync", "closing"}
      BY FileFacts, <1>0 DEF FileInv, TypeOK, Trim
    <2>6. turn' \in 0..MaxTurn /\ broken' \in BOOLEAN /\ begun' \in 0..MaxTurn
      BY BoundsAre, FileFacts, <1>0 DEF FileInv, TypeOK, Trim
    <2>7. faults' \in 0..MaxFaults /\ stops' \in 0..MaxStops
      BY BoundsAre, FileFacts, <1>0 DEF FileInv, TypeOK, Trim
    <2> QED
      BY <2>1, <2>2, <2>3, <2>4, <2>5, <2>6, <2>7 DEF TypeOK
  <1>2. Made(rec, nextId)'
    BY FileFacts, <1>0 DEF FileInv, Trim
  <1>3. Files'
    BY FileFacts, <1>0 DEF FileInv, Files, Trim
  <1>4. Places'
    BY NoOpType, FileFacts, <1>0 DEF FileInv, Frames, Places, Writing, Removing, Trim
  <1>5. Idle'
    BY FileFacts, <1>0 DEF FileInv, Frames, Places, Idle, Mirrors, RemovalFrame, Writing, Removing, Trim
  <1>6. HeaderFrame'
    BY FileFacts, <1>0 DEF FileInv, Frames, Places, HeaderFrame, Writing, Trim
  <1>7. RecordFrame'
    BY FileFacts, <1>0 DEF FileInv, Frames, Places, RecordFrame, Writing, Trim
  <1>8. RecordPlace'
    BY FileFacts, <1>0 DEF FileInv, Frames, Places, RecordFrame, RecordPlace, Writing, Trim
  <1>9. RemovalFrame'
    BY FileFacts, <1>0 DEF FileInv, Frames, Places, RemovalFrame, Removing, Mirrors, Trim
  <1>10. Kept'
    <2>1. PICK k \in 0..Len(disk.ids) :
            /\ Common(k, cache.ids, disk.ids)
            /\ Holds(k, told, disk.ids)
            /\ (Writing \/ Removing) /\ op.kind # "session" => Common(k, op.offset.ids, disk.ids)
      BY DEF FileInv, Kept
    <2>2. k \in 0..Len(disk'.ids) /\ Common(k, cache'.ids, disk'.ids)
      BY <2>1, FileFacts, <1>0 DEF FileInv, Common, Frames, RecordPlace, RecordFrame, RemovalFrame, Removing, Writing, Places, Trim
    <2>3. Holds(k, told', disk'.ids)
      BY <2>1, FileFacts, <1>0 DEF Holds, Common, Returned, Trim
    <2>4. (Writing' \/ Removing') /\ op'.kind # "session" => Common(k, op'.offset.ids, disk'.ids)
      BY <2>1, FileFacts, <1>0 DEF FileInv, Common, Writing, Removing, Trim
    <2> QED
      BY <2>2, <2>3, <2>4 DEF Kept
  <1> QED
    BY <1>1, <1>2, <1>3, <1>4, <1>5, <1>6, <1>7, <1>8, <1>9, <1>10 DEF FileInv, Frames

LEMMA TrimFailsFile ==
  ASSUME BoundsAssumption, FileInv, TrimFails
  PROVE  FileInv'
  <1> USE DEF file, memory, client, bounds
  <1>1. TypeOK'
    <2>1. rec' \in [Lines -> Record] /\ nextId' \in 1..(MaxId + 1)
          /\ told' \in [Ids -> {"nothing", "returned", "raised"}]
      BY FileFacts DEF FileInv, TypeOK, TrimFails, Fault, MayHarm, Closed
    <2>2. disk' \in File /\ cache' \in File /\ op' \in OpRecord
      BY NoOpType, FileFacts DEF FileInv, TypeOK, TrimFails, Fault, MayHarm, Closed
    <2>3. buffer' \in {<<>>} \cup {<<i>> : i \in Lines}
      BY FileFacts DEF FileInv, TypeOK, TrimFails, Fault, MayHarm, Closed
    <2>4. entries' \subseteq Ids /\ head' \in Ids /\ committed' \in Ids /\ failed' \in BOOLEAN
      BY NoOpType, FileFacts DEF FileInv, TypeOK, TrimFails, Fault, MayHarm, Closed
    <2>5. pc' \in {"closed", "trim", "trimsync", "idle", "flush", "fsync", "sync",
                   "seek", "truncate", "cleansync", "closing"}
      BY FileFacts DEF FileInv, TypeOK, TrimFails, Fault, MayHarm, Closed
    <2>6. turn' \in 0..MaxTurn /\ broken' \in BOOLEAN /\ begun' \in 0..MaxTurn
      BY BoundsAre, FileFacts DEF FileInv, TypeOK, TrimFails, Fault, MayHarm, Closed
    <2>7. faults' \in 0..MaxFaults /\ stops' \in 0..MaxStops
      BY BoundsAre, FileFacts DEF FileInv, TypeOK, TrimFails, Fault, MayHarm, Closed
    <2> QED
      BY <2>1, <2>2, <2>3, <2>4, <2>5, <2>6, <2>7 DEF TypeOK
  <1>2. Made(rec, nextId)'
    BY FileFacts DEF FileInv, TrimFails, Fault, MayHarm, Closed
  <1>3. Files'
    BY FileFacts DEF FileInv, Files, TrimFails, Fault, MayHarm, Closed
  <1>4. Places'
    BY NoOpType, FileFacts DEF FileInv, Frames, Places, Writing, Removing, TrimFails, Fault, MayHarm, Closed
  <1>5. Idle'
    BY FileFacts DEF FileInv, Frames, Places, Idle, Mirrors, RemovalFrame, Writing, Removing, TrimFails, Fault, MayHarm, Closed
  <1>6. HeaderFrame'
    BY FileFacts DEF FileInv, Frames, Places, HeaderFrame, Writing, TrimFails, Fault, MayHarm, Closed
  <1>7. RecordFrame'
    BY FileFacts DEF FileInv, Frames, Places, RecordFrame, Writing, TrimFails, Fault, MayHarm, Closed
  <1>8. RecordPlace'
    BY FileFacts DEF FileInv, Frames, Places, RecordFrame, RecordPlace, Writing, TrimFails, Fault, MayHarm, Closed
  <1>9. RemovalFrame'
    BY FileFacts DEF FileInv, Frames, Places, RemovalFrame, Removing, Mirrors, TrimFails, Fault, MayHarm, Closed
  <1>10. Kept'
    <2>1. PICK k \in 0..Len(disk.ids) :
            /\ Common(k, cache.ids, disk.ids)
            /\ Holds(k, told, disk.ids)
            /\ (Writing \/ Removing) /\ op.kind # "session" => Common(k, op.offset.ids, disk.ids)
      BY DEF FileInv, Kept
    <2>2. k \in 0..Len(disk'.ids) /\ Common(k, cache'.ids, disk'.ids)
      BY <2>1, FileFacts DEF FileInv, Common, Frames, RecordPlace, RecordFrame, RemovalFrame, Removing, Writing, Places, TrimFails, Fault, MayHarm, Closed
    <2>3. Holds(k, told', disk'.ids)
      BY <2>1, FileFacts DEF Holds, Common, Returned, TrimFails, Fault, MayHarm, Closed
    <2>4. (Writing' \/ Removing') /\ op'.kind # "session" => Common(k, op'.offset.ids, disk'.ids)
      BY <2>1, FileFacts DEF FileInv, Common, Writing, Removing, TrimFails, Fault, MayHarm, Closed
    <2> QED
      BY <2>2, <2>3, <2>4 DEF Kept
  <1> QED
    BY <1>1, <1>2, <1>3, <1>4, <1>5, <1>6, <1>7, <1>8, <1>9, <1>10 DEF FileInv, Frames

LEMMA PartlyFlushedFile ==
  ASSUME BoundsAssumption, FileInv, PartlyFlushed
  PROVE  FileInv'
  <1> USE DEF file, memory, client, bounds
  <1>0. cache' \in File /\ cache'.ids = cache.ids
    BY FileFacts, TornFile DEF PartlyFlushed
  <1>1. TypeOK'
    <2>1. rec' \in [Lines -> Record] /\ nextId' \in 1..(MaxId + 1)
          /\ told' \in [Ids -> {"nothing", "returned", "raised"}]
      BY FileFacts, <1>0 DEF FileInv, TypeOK, PartlyFlushed
    <2>2. disk' \in File /\ cache' \in File /\ op' \in OpRecord
      BY NoOpType, FileFacts, <1>0 DEF FileInv, TypeOK, PartlyFlushed
    <2>3. buffer' \in {<<>>} \cup {<<i>> : i \in Lines}
      BY FileFacts, <1>0 DEF FileInv, TypeOK, PartlyFlushed
    <2>4. entries' \subseteq Ids /\ head' \in Ids /\ committed' \in Ids /\ failed' \in BOOLEAN
      BY NoOpType, FileFacts, <1>0 DEF FileInv, TypeOK, PartlyFlushed
    <2>5. pc' \in {"closed", "trim", "trimsync", "idle", "flush", "fsync", "sync",
                   "seek", "truncate", "cleansync", "closing"}
      BY FileFacts, <1>0 DEF FileInv, TypeOK, PartlyFlushed
    <2>6. turn' \in 0..MaxTurn /\ broken' \in BOOLEAN /\ begun' \in 0..MaxTurn
      BY BoundsAre, FileFacts, <1>0 DEF FileInv, TypeOK, PartlyFlushed
    <2>7. faults' \in 0..MaxFaults /\ stops' \in 0..MaxStops
      BY BoundsAre, FileFacts, <1>0 DEF FileInv, TypeOK, PartlyFlushed
    <2> QED
      BY <2>1, <2>2, <2>3, <2>4, <2>5, <2>6, <2>7 DEF TypeOK
  <1>2. Made(rec, nextId)'
    BY FileFacts, <1>0 DEF FileInv, PartlyFlushed
  <1>3. Files'
    BY FileFacts, <1>0 DEF FileInv, Files, PartlyFlushed
  <1>4. Places'
    BY NoOpType, FileFacts, <1>0 DEF FileInv, Frames, Places, Writing, Removing, PartlyFlushed
  <1>5. Idle'
    BY FileFacts, <1>0 DEF FileInv, Frames, Places, Idle, Mirrors, RemovalFrame, Writing, Removing, PartlyFlushed
  <1>6. HeaderFrame'
    BY FileFacts, <1>0 DEF FileInv, Frames, Places, HeaderFrame, Writing, PartlyFlushed
  <1>7. RecordFrame'
    BY FileFacts, <1>0 DEF FileInv, Frames, Places, RecordFrame, Writing, PartlyFlushed
  <1>8. RecordPlace'
    BY FileFacts, <1>0 DEF FileInv, Frames, Places, RecordFrame, RecordPlace, Writing, PartlyFlushed
  <1>9. RemovalFrame'
    BY FileFacts, <1>0 DEF FileInv, Frames, Places, RemovalFrame, Removing, Mirrors, PartlyFlushed
  <1>10. Kept'
    <2>1. PICK k \in 0..Len(disk.ids) :
            /\ Common(k, cache.ids, disk.ids)
            /\ Holds(k, told, disk.ids)
            /\ (Writing \/ Removing) /\ op.kind # "session" => Common(k, op.offset.ids, disk.ids)
      BY DEF FileInv, Kept
    <2>2. k \in 0..Len(disk'.ids) /\ Common(k, cache'.ids, disk'.ids)
      BY <2>1, FileFacts, <1>0 DEF FileInv, Common, Frames, RecordPlace, RecordFrame, RemovalFrame, Removing, Writing, Places, PartlyFlushed
    <2>3. Holds(k, told', disk'.ids)
      BY <2>1, FileFacts, <1>0 DEF Holds, Common, Returned, PartlyFlushed
    <2>4. (Writing' \/ Removing') /\ op'.kind # "session" => Common(k, op'.offset.ids, disk'.ids)
      BY <2>1, FileFacts, <1>0 DEF FileInv, Common, Writing, Removing, PartlyFlushed
    <2> QED
      BY <2>2, <2>3, <2>4 DEF Kept
  <1> QED
    BY <1>1, <1>2, <1>3, <1>4, <1>5, <1>6, <1>7, <1>8, <1>9, <1>10 DEF FileInv, Frames

LEMMA FlushedAllFile ==
  ASSUME BoundsAssumption, FileInv, FlushedAll
  PROVE  FileInv'
  <1> USE DEF file, memory, client, bounds
  <1>a. <<>> \o <<Root>> = <<Root>>
    BY ConcatEmptySeq
  <1>b. buffer # <<>> => cache' = [ids |-> cache.ids \o buffer, torn |-> FALSE]
    BY DEF FlushedAll, Flushed
  <1>0. /\ cache' \in File /\ cache'.ids = cache.ids \o buffer /\ cache'.ids \o <<>> = cache'.ids
        /\ cache.ids # <<>> => cache'.ids # <<>>
        /\ \A k \in Nat : \A d : Common(k, cache.ids, d) => Common(k, cache'.ids, d)
    BY FlushFacts DEF FlushedAll
  <1>1. TypeOK'
    <2>1. rec' \in [Lines -> Record] /\ nextId' \in 1..(MaxId + 1)
          /\ told' \in [Ids -> {"nothing", "returned", "raised"}]
      BY FileFacts, <1>0 DEF FileInv, TypeOK, FlushedAll
    <2>2. disk' \in File /\ cache' \in File /\ op' \in OpRecord
      BY NoOpType, FileFacts, <1>0 DEF FileInv, TypeOK, FlushedAll
    <2>3. buffer' \in {<<>>} \cup {<<i>> : i \in Lines}
      BY FileFacts, <1>0 DEF FileInv, TypeOK, FlushedAll
    <2>4. entries' \subseteq Ids /\ head' \in Ids /\ committed' \in Ids /\ failed' \in BOOLEAN
      BY NoOpType, FileFacts, <1>0 DEF FileInv, TypeOK, FlushedAll
    <2>5. pc' \in {"closed", "trim", "trimsync", "idle", "flush", "fsync", "sync",
                   "seek", "truncate", "cleansync", "closing"}
      BY FileFacts, <1>0 DEF FileInv, TypeOK, FlushedAll
    <2>6. turn' \in 0..MaxTurn /\ broken' \in BOOLEAN /\ begun' \in 0..MaxTurn
      BY BoundsAre, FileFacts, <1>0 DEF FileInv, TypeOK, FlushedAll
    <2>7. faults' \in 0..MaxFaults /\ stops' \in 0..MaxStops
      BY BoundsAre, FileFacts, <1>0 DEF FileInv, TypeOK, FlushedAll
    <2> QED
      BY <2>1, <2>2, <2>3, <2>4, <2>5, <2>6, <2>7 DEF TypeOK
  <1>2. Made(rec, nextId)'
    BY FileFacts, <1>0 DEF FileInv, FlushedAll
  <1>3. Files'
    BY FileFacts, <1>0 DEF FileInv, Files, FlushedAll
  <1>4. Places'
    BY NoOpType, FileFacts, <1>0 DEF FileInv, Frames, Places, Writing, Removing, FlushedAll
  <1>5. Idle'
    BY FileFacts, <1>0 DEF FileInv, Frames, Places, Idle, Mirrors, RemovalFrame, Writing, Removing, FlushedAll
  <1>6. HeaderFrame'
    <2>1. op.kind = "session" => cache' = [ids |-> <<Root>>, torn |-> FALSE]
      <3>1. op.kind = "session" => cache.ids = <<>> /\ buffer = <<Root>>
        BY DEF FileInv, Frames, HeaderFrame, Writing, FlushedAll
      <3>2. buffer = <<Root>> => buffer # <<>>
        OBVIOUS
      <3> QED
        BY <1>a, <1>b, <3>1, <3>2, Zenon
    <2> QED
      BY <2>1 DEF FileInv, Frames, HeaderFrame, Writing, FlushedAll
  <1>7. RecordFrame'
    BY FileFacts, <1>0 DEF FileInv, Frames, Places, RecordFrame, Writing, FlushedAll
  <1>8. RecordPlace'
    <2>1. op.kind # "session" => cache' = [ids |-> op.offset.ids \o <<op.id>>, torn |-> FALSE]
      <3>1. <<op.id>> # <<>>
        OBVIOUS
      <3> QED
        BY <1>b, <3>1 DEF FileInv, Frames, RecordPlace, Writing, FlushedAll
    <2> QED
      BY <2>1 DEF FileInv, Frames, RecordPlace, Writing, FlushedAll
  <1>9. RemovalFrame'
    BY FileFacts, <1>0 DEF FileInv, Frames, Places, RemovalFrame, Removing, Mirrors, FlushedAll
  <1>10. Kept'
    <2>1. PICK k \in 0..Len(disk.ids) :
            /\ Common(k, cache.ids, disk.ids)
            /\ Holds(k, told, disk.ids)
            /\ (Writing \/ Removing) /\ op.kind # "session" => Common(k, op.offset.ids, disk.ids)
      BY DEF FileInv, Kept
    <2>2. k \in 0..Len(disk'.ids) /\ Common(k, cache'.ids, disk'.ids)
      BY <2>1, FileFacts, <1>0 DEF FileInv, Common, Frames, RecordPlace, RecordFrame, RemovalFrame, Removing, Writing, Places, FlushedAll
    <2>3. Holds(k, told', disk'.ids)
      BY <2>1, FileFacts, <1>0 DEF Holds, Common, Returned, FlushedAll
    <2>4. (Writing' \/ Removing') /\ op'.kind # "session" => Common(k, op'.offset.ids, disk'.ids)
      BY <2>1, FileFacts, <1>0 DEF FileInv, Common, Writing, Removing, FlushedAll
    <2> QED
      BY <2>2, <2>3, <2>4 DEF Kept
  <1> QED
    BY <1>1, <1>2, <1>3, <1>4, <1>5, <1>6, <1>7, <1>8, <1>9, <1>10 DEF FileInv, Frames

LEMMA SeekFile ==
  ASSUME BoundsAssumption, FileInv, Seek
  PROVE  FileInv'
  <1> USE DEF file, memory, client, bounds
  <1>0. /\ cache' \in File /\ cache'.ids = cache.ids \o buffer /\ cache'.ids \o <<>> = cache'.ids
        /\ cache.ids # <<>> => cache'.ids # <<>>
        /\ \A k \in Nat : \A d : Common(k, cache.ids, d) => Common(k, cache'.ids, d)
    BY FlushFacts DEF Seek
  <1>1. TypeOK'
    <2>1. rec' \in [Lines -> Record] /\ nextId' \in 1..(MaxId + 1)
          /\ told' \in [Ids -> {"nothing", "returned", "raised"}]
      BY FileFacts, <1>0 DEF FileInv, TypeOK, Seek
    <2>2. disk' \in File /\ cache' \in File /\ op' \in OpRecord
      BY NoOpType, FileFacts, <1>0 DEF FileInv, TypeOK, Seek
    <2>3. buffer' \in {<<>>} \cup {<<i>> : i \in Lines}
      BY FileFacts, <1>0 DEF FileInv, TypeOK, Seek
    <2>4. entries' \subseteq Ids /\ head' \in Ids /\ committed' \in Ids /\ failed' \in BOOLEAN
      BY NoOpType, FileFacts, <1>0 DEF FileInv, TypeOK, Seek
    <2>5. pc' \in {"closed", "trim", "trimsync", "idle", "flush", "fsync", "sync",
                   "seek", "truncate", "cleansync", "closing"}
      BY FileFacts, <1>0 DEF FileInv, TypeOK, Seek
    <2>6. turn' \in 0..MaxTurn /\ broken' \in BOOLEAN /\ begun' \in 0..MaxTurn
      BY BoundsAre, FileFacts, <1>0 DEF FileInv, TypeOK, Seek
    <2>7. faults' \in 0..MaxFaults /\ stops' \in 0..MaxStops
      BY BoundsAre, FileFacts, <1>0 DEF FileInv, TypeOK, Seek
    <2> QED
      BY <2>1, <2>2, <2>3, <2>4, <2>5, <2>6, <2>7 DEF TypeOK
  <1>2. Made(rec, nextId)'
    BY FileFacts, <1>0 DEF FileInv, Seek
  <1>3. Files'
    BY FileFacts, <1>0 DEF FileInv, Files, Seek
  <1>4. Places'
    BY NoOpType, FileFacts, <1>0 DEF FileInv, Frames, Places, Writing, Removing, Seek
  <1>5. Idle'
    BY FileFacts, <1>0 DEF FileInv, Frames, Places, Idle, Mirrors, RemovalFrame, Writing, Removing, Seek
  <1>6. HeaderFrame'
    BY FileFacts, <1>0 DEF FileInv, Frames, Places, HeaderFrame, Writing, Seek
  <1>7. RecordFrame'
    BY FileFacts, <1>0 DEF FileInv, Frames, Places, RecordFrame, Writing, Seek
  <1>8. RecordPlace'
    BY FileFacts, <1>0 DEF FileInv, Frames, Places, RecordFrame, RecordPlace, Writing, Seek
  <1>9. RemovalFrame'
    BY FileFacts, <1>0 DEF FileInv, Frames, Places, RemovalFrame, Removing, Mirrors, Seek, Flushed
  <1>10. Kept'
    <2>1. PICK k \in 0..Len(disk.ids) :
            /\ Common(k, cache.ids, disk.ids)
            /\ Holds(k, told, disk.ids)
            /\ (Writing \/ Removing) /\ op.kind # "session" => Common(k, op.offset.ids, disk.ids)
      BY DEF FileInv, Kept
    <2>2. k \in 0..Len(disk'.ids) /\ Common(k, cache'.ids, disk'.ids)
      BY <2>1, FileFacts, <1>0 DEF FileInv, Common, Frames, RecordPlace, RecordFrame, RemovalFrame, Removing, Writing, Places, Seek
    <2>3. Holds(k, told', disk'.ids)
      BY <2>1, FileFacts, <1>0 DEF Holds, Common, Returned, Seek
    <2>4. (Writing' \/ Removing') /\ op'.kind # "session" => Common(k, op'.offset.ids, disk'.ids)
      BY <2>1, FileFacts, <1>0 DEF FileInv, Common, Writing, Removing, Seek
    <2> QED
      BY <2>2, <2>3, <2>4 DEF Kept
  <1> QED
    BY <1>1, <1>2, <1>3, <1>4, <1>5, <1>6, <1>7, <1>8, <1>9, <1>10 DEF FileInv, Frames

LEMMA TruncateFile ==
  ASSUME BoundsAssumption, FileInv, Truncate
  PROVE  FileInv'
  <1> USE DEF file, memory, client, bounds
  <1>a. Removing
    BY DEF Truncate, Removing
  <1>0. /\ cache'.ids \o <<>> = cache'.ids /\ cache' = op.offset /\ cache'.ids # <<>>
        /\ Chain(rec, nextId, cache'.ids) /\ op.kind # "session" /\ buffer = <<>> /\ Removing
    BY <1>a, FileFacts, Kind, ConcatEmptySeq DEF Truncate, FileInv, Frames, RemovalFrame
  <1>1. TypeOK'
    <2>1. rec' \in [Lines -> Record] /\ nextId' \in 1..(MaxId + 1)
          /\ told' \in [Ids -> {"nothing", "returned", "raised"}]
      BY FileFacts, <1>0 DEF FileInv, TypeOK, Truncate
    <2>2. disk' \in File /\ cache' \in File /\ op' \in OpRecord
      BY NoOpType, FileFacts, <1>0 DEF FileInv, TypeOK, Truncate
    <2>3. buffer' \in {<<>>} \cup {<<i>> : i \in Lines}
      BY FileFacts, <1>0 DEF FileInv, TypeOK, Truncate
    <2>4. entries' \subseteq Ids /\ head' \in Ids /\ committed' \in Ids /\ failed' \in BOOLEAN
      BY NoOpType, FileFacts, <1>0 DEF FileInv, TypeOK, Truncate
    <2>5. pc' \in {"closed", "trim", "trimsync", "idle", "flush", "fsync", "sync",
                   "seek", "truncate", "cleansync", "closing"}
      BY FileFacts, <1>0 DEF FileInv, TypeOK, Truncate
    <2>6. turn' \in 0..MaxTurn /\ broken' \in BOOLEAN /\ begun' \in 0..MaxTurn
      BY BoundsAre, FileFacts, <1>0 DEF FileInv, TypeOK, Truncate
    <2>7. faults' \in 0..MaxFaults /\ stops' \in 0..MaxStops
      BY BoundsAre, FileFacts, <1>0 DEF FileInv, TypeOK, Truncate
    <2> QED
      BY <2>1, <2>2, <2>3, <2>4, <2>5, <2>6, <2>7 DEF TypeOK
  <1>2. Made(rec, nextId)'
    BY FileFacts, <1>0 DEF FileInv, Truncate
  <1>3. Files'
    BY FileFacts, <1>0 DEF FileInv, Files, Truncate
  <1>4. Places'
    BY NoOpType, FileFacts, <1>0 DEF FileInv, Frames, Places, Writing, Removing, Truncate
  <1>5. Idle'
    BY FileFacts, <1>0 DEF FileInv, Frames, Places, Idle, Mirrors, RemovalFrame, Writing, Removing, Truncate
  <1>6. HeaderFrame'
    BY FileFacts, <1>0 DEF FileInv, Frames, Places, HeaderFrame, Writing, Truncate
  <1>7. RecordFrame'
    BY FileFacts, <1>0 DEF FileInv, Frames, Places, RecordFrame, Writing, Truncate
  <1>8. RecordPlace'
    BY FileFacts, <1>0 DEF FileInv, Frames, Places, RecordFrame, RecordPlace, Writing, Truncate
  <1>9. RemovalFrame'
    BY FileFacts, <1>0 DEF FileInv, Frames, Places, RemovalFrame, Removing, Mirrors, Truncate
  <1>10. Kept'
    <2>1. PICK k \in 0..Len(disk.ids) :
            /\ Common(k, cache.ids, disk.ids)
            /\ Holds(k, told, disk.ids)
            /\ (Writing \/ Removing) /\ op.kind # "session" => Common(k, op.offset.ids, disk.ids)
      BY DEF FileInv, Kept
    <2>2. k \in 0..Len(disk'.ids) /\ Common(k, cache'.ids, disk'.ids)
      BY <2>1, FileFacts, <1>0 DEF FileInv, Common, Frames, RecordPlace, RecordFrame, RemovalFrame, Removing, Writing, Places, Truncate
    <2>3. Holds(k, told', disk'.ids)
      BY <2>1, FileFacts, <1>0 DEF Holds, Common, Returned, Truncate
    <2>4. (Writing' \/ Removing') /\ op'.kind # "session" => Common(k, op'.offset.ids, disk'.ids)
      BY <2>1, FileFacts, <1>0 DEF FileInv, Common, Writing, Removing, Truncate
    <2> QED
      BY <2>2, <2>3, <2>4 DEF Kept
  <1> QED
    BY <1>1, <1>2, <1>3, <1>4, <1>5, <1>6, <1>7, <1>8, <1>9, <1>10 DEF FileInv, Frames

LEMMA CleanedFile ==
  ASSUME BoundsAssumption, FileInv, Cleaned
  PROVE  FileInv'
  <1> USE DEF file, memory, client, bounds
  <1>1. TypeOK'
    <2>1. rec' \in [Lines -> Record] /\ nextId' \in 1..(MaxId + 1)
          /\ told' \in [Ids -> {"nothing", "returned", "raised"}]
      BY FileFacts DEF FileInv, TypeOK, Cleaned, Return
    <2>2. disk' \in File /\ cache' \in File /\ op' \in OpRecord
      BY NoOpType, FileFacts DEF FileInv, TypeOK, Cleaned, Return
    <2>3. buffer' \in {<<>>} \cup {<<i>> : i \in Lines}
      BY FileFacts DEF FileInv, TypeOK, Cleaned, Return
    <2>4. entries' \subseteq Ids /\ head' \in Ids /\ committed' \in Ids /\ failed' \in BOOLEAN
      BY NoOpType, FileFacts DEF FileInv, TypeOK, Cleaned, Return
    <2>5. pc' \in {"closed", "trim", "trimsync", "idle", "flush", "fsync", "sync",
                   "seek", "truncate", "cleansync", "closing"}
      BY FileFacts DEF FileInv, TypeOK, Cleaned, Return
    <2>6. turn' \in 0..MaxTurn /\ broken' \in BOOLEAN /\ begun' \in 0..MaxTurn
      BY BoundsAre, FileFacts DEF FileInv, TypeOK, Cleaned, Return
    <2>7. faults' \in 0..MaxFaults /\ stops' \in 0..MaxStops
      BY BoundsAre, FileFacts DEF FileInv, TypeOK, Cleaned, Return
    <2> QED
      BY <2>1, <2>2, <2>3, <2>4, <2>5, <2>6, <2>7 DEF TypeOK
  <1>2. Made(rec, nextId)'
    BY FileFacts DEF FileInv, Cleaned, Return
  <1>3. Files'
    BY FileFacts DEF FileInv, Files, Cleaned, Return
  <1>4. Places'
    BY NoOpType, FileFacts DEF FileInv, Frames, Places, Writing, Removing, Cleaned, Return
  <1>5. Idle'
    BY FileFacts DEF FileInv, Frames, Places, Idle, Mirrors, RemovalFrame, Writing, Removing, Cleaned, Return
  <1>6. HeaderFrame'
    BY FileFacts DEF FileInv, Frames, Places, HeaderFrame, Writing, Cleaned, Return
  <1>7. RecordFrame'
    BY FileFacts DEF FileInv, Frames, Places, RecordFrame, Writing, Cleaned, Return
  <1>8. RecordPlace'
    BY FileFacts DEF FileInv, Frames, Places, RecordFrame, RecordPlace, Writing, Cleaned, Return
  <1>9. RemovalFrame'
    BY FileFacts DEF FileInv, Frames, Places, RemovalFrame, Removing, Mirrors, Cleaned, Return
  <1>10. Kept'
    <2>1. PICK k \in 0..Len(disk.ids) :
            /\ Common(k, cache.ids, disk.ids)
            /\ Holds(k, told, disk.ids)
            /\ (Writing \/ Removing) /\ op.kind # "session" => Common(k, op.offset.ids, disk.ids)
      BY DEF FileInv, Kept
    <2>2. k \in 0..Len(disk'.ids) /\ Common(k, cache'.ids, disk'.ids)
      BY <2>1, FileFacts DEF FileInv, Common, Frames, RecordPlace, RecordFrame, RemovalFrame, Removing, Writing, Places, Cleaned, Return
    <2>3. Holds(k, told', disk'.ids)
      BY <2>1, FileFacts DEF Holds, Common, Returned, Cleaned, Return
    <2>4. (Writing' \/ Removing') /\ op'.kind # "session" => Common(k, op'.offset.ids, disk'.ids)
      BY <2>1, FileFacts DEF FileInv, Common, Writing, Removing, Cleaned, Return
    <2> QED
      BY <2>2, <2>3, <2>4 DEF Kept
  <1> QED
    BY <1>1, <1>2, <1>3, <1>4, <1>5, <1>6, <1>7, <1>8, <1>9, <1>10 DEF FileInv, Frames

LEMMA CleanupFailsFile ==
  ASSUME BoundsAssumption, FileInv, CleanupFails
  PROVE  FileInv'
  <1> USE DEF file, memory, client, bounds
  <1>0. cache' \in File /\ cache'.ids = cache.ids
    BY FileFacts, TornFile DEF CleanupFails
  <1>1. TypeOK'
    <2>1. rec' \in [Lines -> Record] /\ nextId' \in 1..(MaxId + 1)
          /\ told' \in [Ids -> {"nothing", "returned", "raised"}]
      BY FileFacts, <1>0 DEF FileInv, TypeOK, CleanupFails, Fault, MayHarm, Return
    <2>2. disk' \in File /\ cache' \in File /\ op' \in OpRecord
      BY NoOpType, FileFacts, <1>0 DEF FileInv, TypeOK, CleanupFails, Fault, MayHarm, Return
    <2>3. buffer' \in {<<>>} \cup {<<i>> : i \in Lines}
      BY FileFacts, <1>0 DEF FileInv, TypeOK, CleanupFails, Fault, MayHarm, Return
    <2>4. entries' \subseteq Ids /\ head' \in Ids /\ committed' \in Ids /\ failed' \in BOOLEAN
      BY NoOpType, FileFacts, <1>0 DEF FileInv, TypeOK, CleanupFails, Fault, MayHarm, Return
    <2>5. pc' \in {"closed", "trim", "trimsync", "idle", "flush", "fsync", "sync",
                   "seek", "truncate", "cleansync", "closing"}
      BY FileFacts, <1>0 DEF FileInv, TypeOK, CleanupFails, Fault, MayHarm, Return
    <2>6. turn' \in 0..MaxTurn /\ broken' \in BOOLEAN /\ begun' \in 0..MaxTurn
      BY BoundsAre, FileFacts, <1>0 DEF FileInv, TypeOK, CleanupFails, Fault, MayHarm, Return
    <2>7. faults' \in 0..MaxFaults /\ stops' \in 0..MaxStops
      BY BoundsAre, FileFacts, <1>0 DEF FileInv, TypeOK, CleanupFails, Fault, MayHarm, Return
    <2> QED
      BY <2>1, <2>2, <2>3, <2>4, <2>5, <2>6, <2>7 DEF TypeOK
  <1>2. Made(rec, nextId)'
    BY FileFacts, <1>0 DEF FileInv, CleanupFails, Fault, MayHarm, Return
  <1>3. Files'
    BY FileFacts, <1>0 DEF FileInv, Files, CleanupFails, Fault, MayHarm, Return
  <1>4. Places'
    BY NoOpType, FileFacts, <1>0 DEF FileInv, Frames, Places, Writing, Removing, CleanupFails, Fault, MayHarm, Return
  <1>5. Idle'
    BY FileFacts, <1>0 DEF FileInv, Frames, Places, Idle, Mirrors, RemovalFrame, Writing, Removing, CleanupFails, Fault, MayHarm, Return
  <1>6. HeaderFrame'
    BY FileFacts, <1>0 DEF FileInv, Frames, Places, HeaderFrame, Writing, CleanupFails, Fault, MayHarm, Return
  <1>7. RecordFrame'
    BY FileFacts, <1>0 DEF FileInv, Frames, Places, RecordFrame, Writing, CleanupFails, Fault, MayHarm, Return
  <1>8. RecordPlace'
    BY FileFacts, <1>0 DEF FileInv, Frames, Places, RecordFrame, RecordPlace, Writing, CleanupFails, Fault, MayHarm, Return
  <1>9. RemovalFrame'
    BY FileFacts, <1>0 DEF FileInv, Frames, Places, RemovalFrame, Removing, Mirrors, CleanupFails, Fault, MayHarm, Return
  <1>10. Kept'
    <2>1. PICK k \in 0..Len(disk.ids) :
            /\ Common(k, cache.ids, disk.ids)
            /\ Holds(k, told, disk.ids)
            /\ (Writing \/ Removing) /\ op.kind # "session" => Common(k, op.offset.ids, disk.ids)
      BY DEF FileInv, Kept
    <2>2. k \in 0..Len(disk'.ids) /\ Common(k, cache'.ids, disk'.ids)
      BY <2>1, FileFacts, <1>0 DEF FileInv, Common, Frames, RecordPlace, RecordFrame, RemovalFrame, Removing, Writing, Places, CleanupFails, Fault, MayHarm, Return
    <2>3. Holds(k, told', disk'.ids)
      BY <2>1, FileFacts, <1>0 DEF Holds, Common, Returned, CleanupFails, Fault, MayHarm, Return
    <2>4. (Writing' \/ Removing') /\ op'.kind # "session" => Common(k, op'.offset.ids, disk'.ids)
      BY <2>1, FileFacts, <1>0 DEF FileInv, Common, Writing, Removing, CleanupFails, Fault, MayHarm, Return
    <2> QED
      BY <2>2, <2>3, <2>4 DEF Kept
  <1> QED
    BY <1>1, <1>2, <1>3, <1>4, <1>5, <1>6, <1>7, <1>8, <1>9, <1>10 DEF FileInv, Frames

LEMMA FlushFailsFile ==
  ASSUME BoundsAssumption, FileInv, FlushFails
  PROVE  FileInv'
  <1> USE DEF file, memory, client, bounds
  <1>a. cache' \in File /\ cache'.ids = cache.ids
    BY FileFacts, TornFile DEF FlushFails
  <1>b. Returned(told') \subseteq Returned(told)
    BY Untold DEF FlushFails, Raise, Tell
  <1>c. Writing
    BY DEF FlushFails, Writing
  <1>0. /\ cache' \in File /\ cache'.ids = cache.ids /\ Returned(told') \subseteq Returned(told)
        /\ op.kind \in Durable \cup {"message", "session"}
        /\ op.kind = "session" => pc' = "closing" /\ op' = op
        /\ op.kind = "message" => pc' = "idle" /\ op' = NoOp /\ cache.ids # <<>>
        /\ op.kind \in Durable =>
             pc' = "seek" /\ op' = op /\ head' = op.previous /\ cache.ids # <<>> /\ op.offset.ids # <<>>
    BY <1>a, <1>b, <1>c, Kind DEF FlushFails, Raise, Durable
  <1>1. TypeOK'
    <2>1. rec' \in [Lines -> Record] /\ nextId' \in 1..(MaxId + 1)
          /\ told' \in [Ids -> {"nothing", "returned", "raised"}]
      BY FileFacts, <1>0 DEF FileInv, TypeOK, FlushFails, Raise, Tell, Fault, MayHarm
    <2>2. disk' \in File /\ cache' \in File /\ op' \in OpRecord
      BY NoOpType, FileFacts, <1>0 DEF FileInv, TypeOK, FlushFails, Raise, Tell, Fault, MayHarm
    <2>3. buffer' \in {<<>>} \cup {<<i>> : i \in Lines}
      BY FileFacts, <1>0 DEF FileInv, TypeOK, FlushFails, Raise, Tell, Fault, MayHarm
    <2>4. entries' \subseteq Ids /\ head' \in Ids /\ committed' \in Ids /\ failed' \in BOOLEAN
      BY NoOpType, FileFacts, <1>0 DEF FileInv, TypeOK, FlushFails, Raise, Tell, Fault, MayHarm
    <2>5. pc' \in {"closed", "trim", "trimsync", "idle", "flush", "fsync", "sync",
                   "seek", "truncate", "cleansync", "closing"}
      BY FileFacts, <1>0 DEF FileInv, TypeOK, FlushFails, Raise, Tell, Fault, MayHarm
    <2>6. turn' \in 0..MaxTurn /\ broken' \in BOOLEAN /\ begun' \in 0..MaxTurn
      BY BoundsAre, FileFacts, <1>0 DEF FileInv, TypeOK, FlushFails, Raise, Tell, Fault, MayHarm
    <2>7. faults' \in 0..MaxFaults /\ stops' \in 0..MaxStops
      BY BoundsAre, FileFacts, <1>0 DEF FileInv, TypeOK, FlushFails, Raise, Tell, Fault, MayHarm
    <2> QED
      BY <2>1, <2>2, <2>3, <2>4, <2>5, <2>6, <2>7 DEF TypeOK
  <1>2. Made(rec, nextId)'
    BY FileFacts, <1>0 DEF FileInv, FlushFails, Raise, Tell, Fault, MayHarm
  <1>3. Files'
    BY FileFacts, <1>0 DEF FileInv, Files, FlushFails, Raise, Tell, Fault, MayHarm
  <1>4. Places'
    BY <1>0, NoOpType DEF FileInv, Frames, Places, Writing, Removing, FlushFails
  <1>5. Idle'
    BY FileFacts, <1>0 DEF FileInv, Frames, Places, Idle, Mirrors, RemovalFrame, Writing, Removing, FlushFails, Raise, Tell, Fault, MayHarm
  <1>6. HeaderFrame'
    BY FileFacts, <1>0 DEF FileInv, Frames, Places, HeaderFrame, Writing, FlushFails, Raise, Tell, Fault, MayHarm
  <1>7. RecordFrame'
    BY FileFacts, <1>0 DEF FileInv, Frames, Places, RecordFrame, Writing, FlushFails, Raise, Tell, Fault, MayHarm
  <1>8. RecordPlace'
    BY FileFacts, <1>0 DEF FileInv, Frames, Places, RecordFrame, RecordPlace, Writing, FlushFails, Raise, Tell, Fault, MayHarm
  <1>9. RemovalFrame'
    BY <1>0, Kind DEF FileInv, Frames, Places, RecordFrame, RemovalFrame, Removing, Writing, FlushFails, Raise, Durable
  <1>10. Kept'
    <2>1. PICK k \in 0..Len(disk.ids) :
            /\ Common(k, cache.ids, disk.ids)
            /\ Holds(k, told, disk.ids)
            /\ (Writing \/ Removing) /\ op.kind # "session" => Common(k, op.offset.ids, disk.ids)
      BY DEF FileInv, Kept
    <2>2. k \in 0..Len(disk'.ids) /\ Common(k, cache'.ids, disk'.ids)
      BY <2>1, FileFacts, <1>0 DEF FileInv, Common, Frames, RecordPlace, RecordFrame, RemovalFrame, Removing, Writing, Places, FlushFails, Raise, Tell, Fault, MayHarm
    <2>3. Holds(k, told', disk'.ids)
      BY <2>1, <1>0 DEF Holds, FlushFails
    <2>4. (Writing' \/ Removing') /\ op'.kind # "session" => Common(k, op'.offset.ids, disk'.ids)
      BY <2>1, FileFacts, <1>0 DEF FileInv, Common, Writing, Removing, FlushFails, Raise, Tell, Fault, MayHarm
    <2> QED
      BY <2>2, <2>3, <2>4 DEF Kept
  <1> QED
    BY <1>1, <1>2, <1>3, <1>4, <1>5, <1>6, <1>7, <1>8, <1>9, <1>10 DEF FileInv, Frames

LEMMA SyncFailsFile ==
  ASSUME BoundsAssumption, FileInv, SyncFails
  PROVE  FileInv'
  <1> USE DEF file, memory, client, bounds
  <1>a. cache' \in File /\ cache'.ids = cache.ids
    BY FileFacts, TornFile DEF SyncFails
  <1>b. Returned(told') \subseteq Returned(told)
    BY Untold DEF SyncFails, Raise, Tell
  <1>c. Writing
    BY DEF SyncFails, Writing
  <1>0. /\ cache' \in File /\ cache'.ids = cache.ids /\ Returned(told') \subseteq Returned(told)
        /\ op.kind \in Durable \cup {"message", "session"}
        /\ op.kind = "session" => pc' = "closing" /\ op' = op
        /\ op.kind = "message" => pc' = "idle" /\ op' = NoOp /\ cache.ids # <<>>
        /\ op.kind \in Durable =>
             pc' = "seek" /\ op' = op /\ head' = op.previous /\ cache.ids # <<>> /\ op.offset.ids # <<>>
    BY <1>a, <1>b, <1>c, Kind DEF SyncFails, Raise, Durable
  <1>1. TypeOK'
    <2>1. rec' \in [Lines -> Record] /\ nextId' \in 1..(MaxId + 1)
          /\ told' \in [Ids -> {"nothing", "returned", "raised"}]
      BY FileFacts, <1>0 DEF FileInv, TypeOK, SyncFails, Raise, Tell, Fault, MayHarm
    <2>2. disk' \in File /\ cache' \in File /\ op' \in OpRecord
      BY NoOpType, FileFacts, <1>0 DEF FileInv, TypeOK, SyncFails, Raise, Tell, Fault, MayHarm
    <2>3. buffer' \in {<<>>} \cup {<<i>> : i \in Lines}
      BY FileFacts, <1>0 DEF FileInv, TypeOK, SyncFails, Raise, Tell, Fault, MayHarm
    <2>4. entries' \subseteq Ids /\ head' \in Ids /\ committed' \in Ids /\ failed' \in BOOLEAN
      BY NoOpType, FileFacts, <1>0 DEF FileInv, TypeOK, SyncFails, Raise, Tell, Fault, MayHarm
    <2>5. pc' \in {"closed", "trim", "trimsync", "idle", "flush", "fsync", "sync",
                   "seek", "truncate", "cleansync", "closing"}
      BY FileFacts, <1>0 DEF FileInv, TypeOK, SyncFails, Raise, Tell, Fault, MayHarm
    <2>6. turn' \in 0..MaxTurn /\ broken' \in BOOLEAN /\ begun' \in 0..MaxTurn
      BY BoundsAre, FileFacts, <1>0 DEF FileInv, TypeOK, SyncFails, Raise, Tell, Fault, MayHarm
    <2>7. faults' \in 0..MaxFaults /\ stops' \in 0..MaxStops
      BY BoundsAre, FileFacts, <1>0 DEF FileInv, TypeOK, SyncFails, Raise, Tell, Fault, MayHarm
    <2> QED
      BY <2>1, <2>2, <2>3, <2>4, <2>5, <2>6, <2>7 DEF TypeOK
  <1>2. Made(rec, nextId)'
    BY FileFacts, <1>0 DEF FileInv, SyncFails, Raise, Tell, Fault, MayHarm
  <1>3. Files'
    BY FileFacts, <1>0 DEF FileInv, Files, SyncFails, Raise, Tell, Fault, MayHarm
  <1>4. Places'
    BY <1>0, NoOpType DEF FileInv, Frames, Places, Writing, Removing, SyncFails
  <1>5. Idle'
    BY FileFacts, <1>0 DEF FileInv, Frames, Places, Idle, Mirrors, RemovalFrame, Writing, Removing, SyncFails, Raise, Tell, Fault, MayHarm
  <1>6. HeaderFrame'
    BY FileFacts, <1>0 DEF FileInv, Frames, Places, HeaderFrame, Writing, SyncFails, Raise, Tell, Fault, MayHarm
  <1>7. RecordFrame'
    BY FileFacts, <1>0 DEF FileInv, Frames, Places, RecordFrame, Writing, SyncFails, Raise, Tell, Fault, MayHarm
  <1>8. RecordPlace'
    BY FileFacts, <1>0 DEF FileInv, Frames, Places, RecordFrame, RecordPlace, Writing, SyncFails, Raise, Tell, Fault, MayHarm
  <1>9. RemovalFrame'
    BY <1>0, Kind DEF FileInv, Frames, Places, RecordFrame, RemovalFrame, Removing, Writing, SyncFails, Raise, Durable
  <1>10. Kept'
    <2>1. PICK k \in 0..Len(disk.ids) :
            /\ Common(k, cache.ids, disk.ids)
            /\ Holds(k, told, disk.ids)
            /\ (Writing \/ Removing) /\ op.kind # "session" => Common(k, op.offset.ids, disk.ids)
      BY DEF FileInv, Kept
    <2>2. k \in 0..Len(disk'.ids) /\ Common(k, cache'.ids, disk'.ids)
      BY <2>1, FileFacts, <1>0 DEF FileInv, Common, Frames, RecordPlace, RecordFrame, RemovalFrame, Removing, Writing, Places, SyncFails, Raise, Tell, Fault, MayHarm
    <2>3. Holds(k, told', disk'.ids)
      BY <2>1, <1>0 DEF Holds, SyncFails
    <2>4. (Writing' \/ Removing') /\ op'.kind # "session" => Common(k, op'.offset.ids, disk'.ids)
      BY <2>1, FileFacts, <1>0 DEF FileInv, Common, Writing, Removing, SyncFails, Raise, Tell, Fault, MayHarm
    <2> QED
      BY <2>2, <2>3, <2>4 DEF Kept
  <1> QED
    BY <1>1, <1>2, <1>3, <1>4, <1>5, <1>6, <1>7, <1>8, <1>9, <1>10 DEF FileInv, Frames

LEMMA CloseStreamFile ==
  ASSUME BoundsAssumption, FileInv, CloseStream
  PROVE  FileInv'
  <1> USE DEF file, memory, client, bounds
  <1>a. cache' = Flushed(cache, buffer) \/ (cache' \in File /\ cache'.ids = cache.ids)
    <2>1. \/ cache' = Flushed(cache, buffer)
          \/ cache' \in {cache, [cache EXCEPT !.torn = TRUE]}
      BY DEF CloseStream
    <2>2. ASSUME cache' \in {cache, [cache EXCEPT !.torn = TRUE]}
          PROVE  cache' \in File /\ cache'.ids = cache.ids
      BY <2>2, FileFacts, TornFile
    <2> QED
      BY <2>1, <2>2
  <1>0. /\ cache' \in File /\ cache'.ids \in {cache.ids, cache.ids \o buffer} /\ cache'.ids \o <<>> = cache'.ids
        /\ cache.ids # <<>> => cache'.ids # <<>>
        /\ \A k \in Nat : \A d : Common(k, cache.ids, d) => Common(k, cache'.ids, d)
    BY <1>a, FileFacts, FlushFacts
  <1>1. TypeOK'
    <2>1. rec' \in [Lines -> Record] /\ nextId' \in 1..(MaxId + 1)
          /\ told' \in [Ids -> {"nothing", "returned", "raised"}]
      BY FileFacts, <1>0 DEF FileInv, TypeOK, CloseStream, Closed, Fault, MayHarm
    <2>2. disk' \in File /\ cache' \in File /\ op' \in OpRecord
      BY NoOpType, FileFacts, <1>0 DEF FileInv, TypeOK, CloseStream, Closed, Fault, MayHarm
    <2>3. buffer' \in {<<>>} \cup {<<i>> : i \in Lines}
      BY FileFacts, <1>0 DEF FileInv, TypeOK, CloseStream, Closed, Fault, MayHarm
    <2>4. entries' \subseteq Ids /\ head' \in Ids /\ committed' \in Ids /\ failed' \in BOOLEAN
      BY NoOpType, FileFacts, <1>0 DEF FileInv, TypeOK, CloseStream, Closed, Fault, MayHarm
    <2>5. pc' \in {"closed", "trim", "trimsync", "idle", "flush", "fsync", "sync",
                   "seek", "truncate", "cleansync", "closing"}
      BY FileFacts, <1>0 DEF FileInv, TypeOK, CloseStream, Closed, Fault, MayHarm
    <2>6. turn' \in 0..MaxTurn /\ broken' \in BOOLEAN /\ begun' \in 0..MaxTurn
      BY BoundsAre, FileFacts, <1>0 DEF FileInv, TypeOK, CloseStream, Closed, Fault, MayHarm
    <2>7. faults' \in 0..MaxFaults /\ stops' \in 0..MaxStops
      BY BoundsAre, FileFacts, <1>0 DEF FileInv, TypeOK, CloseStream, Closed, Fault, MayHarm
    <2> QED
      BY <2>1, <2>2, <2>3, <2>4, <2>5, <2>6, <2>7 DEF TypeOK
  <1>2. Made(rec, nextId)'
    BY FileFacts, <1>0 DEF FileInv, CloseStream, Closed, Fault, MayHarm
  <1>3. Files'
    BY FileFacts, <1>0 DEF FileInv, Files, CloseStream, Closed, Fault, MayHarm
  <1>4. Places'
    BY NoOpType, FileFacts, <1>0 DEF FileInv, Frames, Places, Writing, Removing, CloseStream, Closed, Fault, MayHarm
  <1>5. Idle'
    BY FileFacts, <1>0 DEF FileInv, Frames, Places, Idle, Mirrors, RemovalFrame, Writing, Removing, CloseStream, Closed, Fault, MayHarm
  <1>6. HeaderFrame'
    BY FileFacts, <1>0 DEF FileInv, Frames, Places, HeaderFrame, Writing, CloseStream, Closed, Fault, MayHarm
  <1>7. RecordFrame'
    BY FileFacts, <1>0 DEF FileInv, Frames, Places, RecordFrame, Writing, CloseStream, Closed, Fault, MayHarm
  <1>8. RecordPlace'
    BY FileFacts, <1>0 DEF FileInv, Frames, Places, RecordFrame, RecordPlace, Writing, CloseStream, Closed, Fault, MayHarm
  <1>9. RemovalFrame'
    BY FileFacts, <1>0 DEF FileInv, Frames, Places, RemovalFrame, Removing, Mirrors, CloseStream, Closed, Fault, MayHarm
  <1>10. Kept'
    <2>1. PICK k \in 0..Len(disk.ids) :
            /\ Common(k, cache.ids, disk.ids)
            /\ Holds(k, told, disk.ids)
            /\ (Writing \/ Removing) /\ op.kind # "session" => Common(k, op.offset.ids, disk.ids)
      BY DEF FileInv, Kept
    <2>2. k \in 0..Len(disk'.ids) /\ Common(k, cache'.ids, disk'.ids)
      BY <2>1, FileFacts, <1>0 DEF FileInv, Common, Frames, RecordPlace, RecordFrame, RemovalFrame, Removing, Writing, Places, CloseStream, Closed, Fault, MayHarm
    <2>3. Holds(k, told', disk'.ids)
      BY <2>1, FileFacts, <1>0 DEF Holds, Common, Returned, CloseStream, Closed, Fault, MayHarm
    <2>4. (Writing' \/ Removing') /\ op'.kind # "session" => Common(k, op'.offset.ids, disk'.ids)
      BY <2>1, FileFacts, <1>0 DEF FileInv, Common, Writing, Removing, CloseStream, Closed, Fault, MayHarm
    <2> QED
      BY <2>2, <2>3, <2>4 DEF Kept
  <1> QED
    BY <1>1, <1>2, <1>3, <1>4, <1>5, <1>6, <1>7, <1>8, <1>9, <1>10 DEF FileInv, Frames

LEMMA BeginTurnFile ==
  ASSUME BoundsAssumption, FileInv, BeginTurn
  PROVE  FileInv'
  <1> USE DEF file, memory, client, bounds
  <1>1. TypeOK'
    <2>1. rec' \in [Lines -> Record] /\ nextId' \in 1..(MaxId + 1)
          /\ told' \in [Ids -> {"nothing", "returned", "raised"}]
      BY FileFacts DEF FileInv, TypeOK, BeginTurn
    <2>2. disk' \in File /\ cache' \in File /\ op' \in OpRecord
      BY NoOpType, FileFacts DEF FileInv, TypeOK, BeginTurn
    <2>3. buffer' \in {<<>>} \cup {<<i>> : i \in Lines}
      BY FileFacts DEF FileInv, TypeOK, BeginTurn
    <2>4. entries' \subseteq Ids /\ head' \in Ids /\ committed' \in Ids /\ failed' \in BOOLEAN
      BY NoOpType, FileFacts DEF FileInv, TypeOK, BeginTurn
    <2>5. pc' \in {"closed", "trim", "trimsync", "idle", "flush", "fsync", "sync",
                   "seek", "truncate", "cleansync", "closing"}
      BY FileFacts DEF FileInv, TypeOK, BeginTurn
    <2>6. turn' \in 0..MaxTurn /\ broken' \in BOOLEAN /\ begun' \in 0..MaxTurn
      <3>1. begun \in 0..MaxTurn /\ MaxTurn \in Nat
        BY BoundsAre DEF FileInv, TypeOK
      <3>2. begun + 1 \in 0..MaxTurn
        BY <3>1 DEF BeginTurn
      <3>3. broken' = FALSE
        BY DEF BeginTurn
      <3> QED
        BY <3>2, <3>3 DEF BeginTurn
    <2>7. faults' \in 0..MaxFaults /\ stops' \in 0..MaxStops
      BY BoundsAre, FileFacts DEF FileInv, TypeOK, BeginTurn
    <2> QED
      BY <2>1, <2>2, <2>3, <2>4, <2>5, <2>6, <2>7 DEF TypeOK
  <1>2. Made(rec, nextId)'
    BY FileFacts DEF FileInv, BeginTurn
  <1>3. Files'
    BY FileFacts DEF FileInv, Files, BeginTurn
  <1>4. Places'
    BY NoOpType, FileFacts DEF FileInv, Frames, Places, Writing, Removing, BeginTurn
  <1>5. Idle'
    BY FileFacts DEF FileInv, Frames, Places, Idle, Mirrors, RemovalFrame, Writing, Removing, BeginTurn
  <1>6. HeaderFrame'
    BY FileFacts DEF FileInv, Frames, Places, HeaderFrame, Writing, BeginTurn
  <1>7. RecordFrame'
    BY FileFacts DEF FileInv, Frames, Places, RecordFrame, Writing, BeginTurn
  <1>8. RecordPlace'
    BY FileFacts DEF FileInv, Frames, Places, RecordFrame, RecordPlace, Writing, BeginTurn
  <1>9. RemovalFrame'
    BY FileFacts DEF FileInv, Frames, Places, RemovalFrame, Removing, Mirrors, BeginTurn
  <1>10. Kept'
    <2>1. PICK k \in 0..Len(disk.ids) :
            /\ Common(k, cache.ids, disk.ids)
            /\ Holds(k, told, disk.ids)
            /\ (Writing \/ Removing) /\ op.kind # "session" => Common(k, op.offset.ids, disk.ids)
      BY DEF FileInv, Kept
    <2>2. k \in 0..Len(disk'.ids) /\ Common(k, cache'.ids, disk'.ids)
      BY <2>1, FileFacts DEF FileInv, Common, Frames, RecordPlace, RecordFrame, RemovalFrame, Removing, Writing, Places, BeginTurn
    <2>3. Holds(k, told', disk'.ids)
      BY <2>1, FileFacts DEF Holds, Common, Returned, BeginTurn
    <2>4. (Writing' \/ Removing') /\ op'.kind # "session" => Common(k, op'.offset.ids, disk'.ids)
      BY <2>1, FileFacts DEF FileInv, Common, Writing, Removing, BeginTurn
    <2> QED
      BY <2>2, <2>3, <2>4 DEF Kept
  <1> QED
    BY <1>1, <1>2, <1>3, <1>4, <1>5, <1>6, <1>7, <1>8, <1>9, <1>10 DEF FileInv, Frames

LEMMA AppendRefusedFile ==
  ASSUME BoundsAssumption, FileInv, AppendRefused
  PROVE  FileInv'
  <1> USE DEF file, memory, client, bounds
  <1>1. TypeOK'
    <2>1. rec' \in [Lines -> Record] /\ nextId' \in 1..(MaxId + 1)
          /\ told' \in [Ids -> {"nothing", "returned", "raised"}]
      BY FileFacts DEF FileInv, TypeOK, AppendRefused
    <2>2. disk' \in File /\ cache' \in File /\ op' \in OpRecord
      BY NoOpType, FileFacts DEF FileInv, TypeOK, AppendRefused
    <2>3. buffer' \in {<<>>} \cup {<<i>> : i \in Lines}
      BY FileFacts DEF FileInv, TypeOK, AppendRefused
    <2>4. entries' \subseteq Ids /\ head' \in Ids /\ committed' \in Ids /\ failed' \in BOOLEAN
      BY NoOpType, FileFacts DEF FileInv, TypeOK, AppendRefused
    <2>5. pc' \in {"closed", "trim", "trimsync", "idle", "flush", "fsync", "sync",
                   "seek", "truncate", "cleansync", "closing"}
      BY FileFacts DEF FileInv, TypeOK, AppendRefused
    <2>6. turn' \in 0..MaxTurn /\ broken' \in BOOLEAN /\ begun' \in 0..MaxTurn
      BY BoundsAre, FileFacts DEF FileInv, TypeOK, AppendRefused
    <2>7. faults' \in 0..MaxFaults /\ stops' \in 0..MaxStops
      BY BoundsAre, FileFacts DEF FileInv, TypeOK, AppendRefused
    <2> QED
      BY <2>1, <2>2, <2>3, <2>4, <2>5, <2>6, <2>7 DEF TypeOK
  <1>2. Made(rec, nextId)'
    BY FileFacts DEF FileInv, AppendRefused
  <1>3. Files'
    BY FileFacts DEF FileInv, Files, AppendRefused
  <1>4. Places'
    BY NoOpType, FileFacts DEF FileInv, Frames, Places, Writing, Removing, AppendRefused
  <1>5. Idle'
    BY FileFacts DEF FileInv, Frames, Places, Idle, Mirrors, RemovalFrame, Writing, Removing, AppendRefused
  <1>6. HeaderFrame'
    BY FileFacts DEF FileInv, Frames, Places, HeaderFrame, Writing, AppendRefused
  <1>7. RecordFrame'
    BY FileFacts DEF FileInv, Frames, Places, RecordFrame, Writing, AppendRefused
  <1>8. RecordPlace'
    BY FileFacts DEF FileInv, Frames, Places, RecordFrame, RecordPlace, Writing, AppendRefused
  <1>9. RemovalFrame'
    BY FileFacts DEF FileInv, Frames, Places, RemovalFrame, Removing, Mirrors, AppendRefused
  <1>10. Kept'
    <2>1. PICK k \in 0..Len(disk.ids) :
            /\ Common(k, cache.ids, disk.ids)
            /\ Holds(k, told, disk.ids)
            /\ (Writing \/ Removing) /\ op.kind # "session" => Common(k, op.offset.ids, disk.ids)
      BY DEF FileInv, Kept
    <2>2. k \in 0..Len(disk'.ids) /\ Common(k, cache'.ids, disk'.ids)
      BY <2>1, FileFacts DEF FileInv, Common, Frames, RecordPlace, RecordFrame, RemovalFrame, Removing, Writing, Places, AppendRefused
    <2>3. Holds(k, told', disk'.ids)
      BY <2>1, FileFacts DEF Holds, Common, Returned, AppendRefused
    <2>4. (Writing' \/ Removing') /\ op'.kind # "session" => Common(k, op'.offset.ids, disk'.ids)
      BY <2>1, FileFacts DEF FileInv, Common, Writing, Removing, AppendRefused
    <2> QED
      BY <2>2, <2>3, <2>4 DEF Kept
  <1> QED
    BY <1>1, <1>2, <1>3, <1>4, <1>5, <1>6, <1>7, <1>8, <1>9, <1>10 DEF FileInv, Frames

LEMMA AbortFile ==
  ASSUME BoundsAssumption, FileInv, Abort
  PROVE  FileInv'
  <1> USE DEF file, memory, client, bounds
  <1>0. pc = "idle" /\ ~failed => committed \in Elements(cache.ids)
    <2>1. pc = "idle" /\ ~failed => committed = Sel(rec, cache.ids) /\ cache.ids # <<>>
      BY DEF FileInv, Frames, Idle, Places, Mirrors
    <2>2. Chain(rec, nextId, cache.ids) /\ rec[Root] = Header /\ nextId \in Nat
      BY DEF FileInv, Files, Made, TypeOK
    <2> QED
      BY <2>1, <2>2, FileFacts, SelInChain
  <1>1. TypeOK'
    <2>1. rec' \in [Lines -> Record] /\ nextId' \in 1..(MaxId + 1)
          /\ told' \in [Ids -> {"nothing", "returned", "raised"}]
      BY FileFacts, <1>0 DEF FileInv, TypeOK, Abort
    <2>2. disk' \in File /\ cache' \in File /\ op' \in OpRecord
      BY NoOpType, FileFacts, <1>0 DEF FileInv, TypeOK, Abort
    <2>3. buffer' \in {<<>>} \cup {<<i>> : i \in Lines}
      BY FileFacts, <1>0 DEF FileInv, TypeOK, Abort
    <2>4. entries' \subseteq Ids /\ head' \in Ids /\ committed' \in Ids /\ failed' \in BOOLEAN
      BY NoOpType, FileFacts, <1>0 DEF FileInv, TypeOK, Abort
    <2>5. pc' \in {"closed", "trim", "trimsync", "idle", "flush", "fsync", "sync",
                   "seek", "truncate", "cleansync", "closing"}
      BY FileFacts, <1>0 DEF FileInv, TypeOK, Abort
    <2>6. turn' \in 0..MaxTurn /\ broken' \in BOOLEAN /\ begun' \in 0..MaxTurn
      BY BoundsAre, FileFacts, <1>0 DEF FileInv, TypeOK, Abort
    <2>7. faults' \in 0..MaxFaults /\ stops' \in 0..MaxStops
      BY BoundsAre, FileFacts, <1>0 DEF FileInv, TypeOK, Abort
    <2> QED
      BY <2>1, <2>2, <2>3, <2>4, <2>5, <2>6, <2>7 DEF TypeOK
  <1>2. Made(rec, nextId)'
    BY FileFacts, <1>0 DEF FileInv, Abort
  <1>3. Files'
    BY FileFacts, <1>0 DEF FileInv, Files, Abort
  <1>4. Places'
    BY NoOpType, FileFacts, <1>0 DEF FileInv, Frames, Places, Writing, Removing, Abort
  <1>5. Idle'
    BY FileFacts, <1>0 DEF FileInv, Frames, Places, Idle, Mirrors, RemovalFrame, Writing, Removing, Abort
  <1>6. HeaderFrame'
    BY FileFacts, <1>0 DEF FileInv, Frames, Places, HeaderFrame, Writing, Abort
  <1>7. RecordFrame'
    BY FileFacts, <1>0 DEF FileInv, Frames, Places, RecordFrame, Writing, Abort
  <1>8. RecordPlace'
    BY FileFacts, <1>0 DEF FileInv, Frames, Places, RecordFrame, RecordPlace, Writing, Abort
  <1>9. RemovalFrame'
    BY FileFacts, <1>0 DEF FileInv, Frames, Places, RemovalFrame, Removing, Mirrors, Abort
  <1>10. Kept'
    <2>1. PICK k \in 0..Len(disk.ids) :
            /\ Common(k, cache.ids, disk.ids)
            /\ Holds(k, told, disk.ids)
            /\ (Writing \/ Removing) /\ op.kind # "session" => Common(k, op.offset.ids, disk.ids)
      BY DEF FileInv, Kept
    <2>2. k \in 0..Len(disk'.ids) /\ Common(k, cache'.ids, disk'.ids)
      BY <2>1, FileFacts, <1>0 DEF FileInv, Common, Frames, RecordPlace, RecordFrame, RemovalFrame, Removing, Writing, Places, Abort
    <2>3. Holds(k, told', disk'.ids)
      BY <2>1, FileFacts, <1>0 DEF Holds, Common, Returned, Abort
    <2>4. (Writing' \/ Removing') /\ op'.kind # "session" => Common(k, op'.offset.ids, disk'.ids)
      BY <2>1, FileFacts, <1>0 DEF FileInv, Common, Writing, Removing, Abort
    <2> QED
      BY <2>2, <2>3, <2>4 DEF Kept
  <1> QED
    BY <1>1, <1>2, <1>3, <1>4, <1>5, <1>6, <1>7, <1>8, <1>9, <1>10 DEF FileInv, Frames

LEMMA CloseFile ==
  ASSUME BoundsAssumption, FileInv, Close
  PROVE  FileInv'
  <1> USE DEF file, memory, client, bounds
  <1>1. TypeOK'
    <2>1. rec' \in [Lines -> Record] /\ nextId' \in 1..(MaxId + 1)
          /\ told' \in [Ids -> {"nothing", "returned", "raised"}]
      BY FileFacts DEF FileInv, TypeOK, Close
    <2>2. disk' \in File /\ cache' \in File /\ op' \in OpRecord
      BY NoOpType, FileFacts DEF FileInv, TypeOK, Close
    <2>3. buffer' \in {<<>>} \cup {<<i>> : i \in Lines}
      BY FileFacts DEF FileInv, TypeOK, Close
    <2>4. entries' \subseteq Ids /\ head' \in Ids /\ committed' \in Ids /\ failed' \in BOOLEAN
      BY NoOpType, FileFacts DEF FileInv, TypeOK, Close
    <2>5. pc' \in {"closed", "trim", "trimsync", "idle", "flush", "fsync", "sync",
                   "seek", "truncate", "cleansync", "closing"}
      BY FileFacts DEF FileInv, TypeOK, Close
    <2>6. turn' \in 0..MaxTurn /\ broken' \in BOOLEAN /\ begun' \in 0..MaxTurn
      BY BoundsAre, FileFacts DEF FileInv, TypeOK, Close
    <2>7. faults' \in 0..MaxFaults /\ stops' \in 0..MaxStops
      BY BoundsAre, FileFacts DEF FileInv, TypeOK, Close
    <2> QED
      BY <2>1, <2>2, <2>3, <2>4, <2>5, <2>6, <2>7 DEF TypeOK
  <1>2. Made(rec, nextId)'
    BY FileFacts DEF FileInv, Close
  <1>3. Files'
    BY FileFacts DEF FileInv, Files, Close
  <1>4. Places'
    BY NoOpType, FileFacts DEF FileInv, Frames, Places, Writing, Removing, Close
  <1>5. Idle'
    BY FileFacts DEF FileInv, Frames, Places, Idle, Mirrors, RemovalFrame, Writing, Removing, Close
  <1>6. HeaderFrame'
    BY FileFacts DEF FileInv, Frames, Places, HeaderFrame, Writing, Close
  <1>7. RecordFrame'
    BY FileFacts DEF FileInv, Frames, Places, RecordFrame, Writing, Close
  <1>8. RecordPlace'
    BY FileFacts DEF FileInv, Frames, Places, RecordFrame, RecordPlace, Writing, Close
  <1>9. RemovalFrame'
    BY FileFacts DEF FileInv, Frames, Places, RemovalFrame, Removing, Mirrors, Close
  <1>10. Kept'
    <2>1. PICK k \in 0..Len(disk.ids) :
            /\ Common(k, cache.ids, disk.ids)
            /\ Holds(k, told, disk.ids)
            /\ (Writing \/ Removing) /\ op.kind # "session" => Common(k, op.offset.ids, disk.ids)
      BY DEF FileInv, Kept
    <2>2. k \in 0..Len(disk'.ids) /\ Common(k, cache'.ids, disk'.ids)
      BY <2>1, FileFacts DEF FileInv, Common, Frames, RecordPlace, RecordFrame, RemovalFrame, Removing, Writing, Places, Close
    <2>3. Holds(k, told', disk'.ids)
      BY <2>1, FileFacts DEF Holds, Common, Returned, Close
    <2>4. (Writing' \/ Removing') /\ op'.kind # "session" => Common(k, op'.offset.ids, disk'.ids)
      BY <2>1, FileFacts DEF FileInv, Common, Writing, Removing, Close
    <2> QED
      BY <2>2, <2>3, <2>4 DEF Kept
  <1> QED
    BY <1>1, <1>2, <1>3, <1>4, <1>5, <1>6, <1>7, <1>8, <1>9, <1>10 DEF FileInv, Frames

LEMMA KillFile ==
  ASSUME BoundsAssumption, FileInv, Kill
  PROVE  FileInv'
  <1> USE DEF file, memory, client, bounds
  <1>1. TypeOK'
    <2>1. rec' \in [Lines -> Record] /\ nextId' \in 1..(MaxId + 1)
          /\ told' \in [Ids -> {"nothing", "returned", "raised"}]
      BY FileFacts DEF FileInv, TypeOK, Kill, Stop, MayHarm, Closed
    <2>2. disk' \in File /\ cache' \in File /\ op' \in OpRecord
      BY NoOpType, FileFacts DEF FileInv, TypeOK, Kill, Stop, MayHarm, Closed
    <2>3. buffer' \in {<<>>} \cup {<<i>> : i \in Lines}
      BY FileFacts DEF FileInv, TypeOK, Kill, Stop, MayHarm, Closed
    <2>4. entries' \subseteq Ids /\ head' \in Ids /\ committed' \in Ids /\ failed' \in BOOLEAN
      BY NoOpType, FileFacts DEF FileInv, TypeOK, Kill, Stop, MayHarm, Closed
    <2>5. pc' \in {"closed", "trim", "trimsync", "idle", "flush", "fsync", "sync",
                   "seek", "truncate", "cleansync", "closing"}
      BY FileFacts DEF FileInv, TypeOK, Kill, Stop, MayHarm, Closed
    <2>6. turn' \in 0..MaxTurn /\ broken' \in BOOLEAN /\ begun' \in 0..MaxTurn
      BY BoundsAre, FileFacts DEF FileInv, TypeOK, Kill, Stop, MayHarm, Closed
    <2>7. faults' \in 0..MaxFaults /\ stops' \in 0..MaxStops
      BY BoundsAre, FileFacts DEF FileInv, TypeOK, Kill, Stop, MayHarm, Closed
    <2> QED
      BY <2>1, <2>2, <2>3, <2>4, <2>5, <2>6, <2>7 DEF TypeOK
  <1>2. Made(rec, nextId)'
    BY FileFacts DEF FileInv, Kill, Stop, MayHarm, Closed
  <1>3. Files'
    BY FileFacts DEF FileInv, Files, Kill, Stop, MayHarm, Closed
  <1>4. Places'
    BY NoOpType, FileFacts DEF FileInv, Frames, Places, Writing, Removing, Kill, Stop, MayHarm, Closed
  <1>5. Idle'
    BY FileFacts DEF FileInv, Frames, Places, Idle, Mirrors, RemovalFrame, Writing, Removing, Kill, Stop, MayHarm, Closed
  <1>6. HeaderFrame'
    BY FileFacts DEF FileInv, Frames, Places, HeaderFrame, Writing, Kill, Stop, MayHarm, Closed
  <1>7. RecordFrame'
    BY FileFacts DEF FileInv, Frames, Places, RecordFrame, Writing, Kill, Stop, MayHarm, Closed
  <1>8. RecordPlace'
    BY FileFacts DEF FileInv, Frames, Places, RecordFrame, RecordPlace, Writing, Kill, Stop, MayHarm, Closed
  <1>9. RemovalFrame'
    BY FileFacts DEF FileInv, Frames, Places, RemovalFrame, Removing, Mirrors, Kill, Stop, MayHarm, Closed
  <1>10. Kept'
    <2>1. PICK k \in 0..Len(disk.ids) :
            /\ Common(k, cache.ids, disk.ids)
            /\ Holds(k, told, disk.ids)
            /\ (Writing \/ Removing) /\ op.kind # "session" => Common(k, op.offset.ids, disk.ids)
      BY DEF FileInv, Kept
    <2>2. k \in 0..Len(disk'.ids) /\ Common(k, cache'.ids, disk'.ids)
      BY <2>1, FileFacts DEF FileInv, Common, Frames, RecordPlace, RecordFrame, RemovalFrame, Removing, Writing, Places, Kill, Stop, MayHarm, Closed
    <2>3. Holds(k, told', disk'.ids)
      BY <2>1, FileFacts DEF Holds, Common, Returned, Kill, Stop, MayHarm, Closed
    <2>4. (Writing' \/ Removing') /\ op'.kind # "session" => Common(k, op'.offset.ids, disk'.ids)
      BY <2>1, FileFacts DEF FileInv, Common, Writing, Removing, Kill, Stop, MayHarm, Closed
    <2> QED
      BY <2>2, <2>3, <2>4 DEF Kept
  <1> QED
    BY <1>1, <1>2, <1>3, <1>4, <1>5, <1>6, <1>7, <1>8, <1>9, <1>10 DEF FileInv, Frames

LEMMA PowerLossFile ==
  ASSUME BoundsAssumption, FileInv, PowerLoss
  PROVE  FileInv'
  <1> USE DEF file, memory, client, bounds
  <1>a. cache' \in Between(disk, cache)
    BY DEF PowerLoss
  <1>b. cache' \in File
    BY <1>a, FileFacts, BetweenIs
  <1>c. Chain(rec, nextId, cache'.ids)
    <2>1. Chain(rec, nextId, disk.ids) /\ Chain(rec, nextId, cache.ids) /\ nextId \in Nat
      BY DEF FileInv, Files, TypeOK
    <2> QED
      BY <1>a, <2>1, FileFacts, BetweenChains
  <1>0. /\ cache' \in File /\ Chain(rec, nextId, cache'.ids) /\ cache'.ids \o <<>> = cache'.ids
        /\ Len(cache'.ids) \in Nat
    BY <1>b, <1>c, FileType, ConcatEmptySeq
  <1>1. TypeOK'
    <2>1. rec' \in [Lines -> Record] /\ nextId' \in 1..(MaxId + 1)
          /\ told' \in [Ids -> {"nothing", "returned", "raised"}]
      BY FileFacts, <1>0 DEF FileInv, TypeOK, PowerLoss, Stop, MayHarm, Closed
    <2>2. disk' \in File /\ cache' \in File /\ op' \in OpRecord
      BY NoOpType, FileFacts, <1>0 DEF FileInv, TypeOK, PowerLoss, Stop, MayHarm, Closed
    <2>3. buffer' \in {<<>>} \cup {<<i>> : i \in Lines}
      BY FileFacts, <1>0 DEF FileInv, TypeOK, PowerLoss, Stop, MayHarm, Closed
    <2>4. entries' \subseteq Ids /\ head' \in Ids /\ committed' \in Ids /\ failed' \in BOOLEAN
      BY NoOpType, FileFacts, <1>0 DEF FileInv, TypeOK, PowerLoss, Stop, MayHarm, Closed
    <2>5. pc' \in {"closed", "trim", "trimsync", "idle", "flush", "fsync", "sync",
                   "seek", "truncate", "cleansync", "closing"}
      BY FileFacts, <1>0 DEF FileInv, TypeOK, PowerLoss, Stop, MayHarm, Closed
    <2>6. turn' \in 0..MaxTurn /\ broken' \in BOOLEAN /\ begun' \in 0..MaxTurn
      BY BoundsAre, FileFacts, <1>0 DEF FileInv, TypeOK, PowerLoss, Stop, MayHarm, Closed
    <2>7. faults' \in 0..MaxFaults /\ stops' \in 0..MaxStops
      BY BoundsAre, FileFacts, <1>0 DEF FileInv, TypeOK, PowerLoss, Stop, MayHarm, Closed
    <2> QED
      BY <2>1, <2>2, <2>3, <2>4, <2>5, <2>6, <2>7 DEF TypeOK
  <1>2. Made(rec, nextId)'
    BY FileFacts, <1>0 DEF FileInv, PowerLoss, Stop, MayHarm, Closed
  <1>3. Files'
    BY FileFacts, <1>0 DEF FileInv, Files, PowerLoss, Stop, MayHarm, Closed
  <1>4. Places'
    BY NoOpType, FileFacts, <1>0 DEF FileInv, Frames, Places, Writing, Removing, PowerLoss, Stop, MayHarm, Closed
  <1>5. Idle'
    BY FileFacts, <1>0 DEF FileInv, Frames, Places, Idle, Mirrors, RemovalFrame, Writing, Removing, PowerLoss, Stop, MayHarm, Closed
  <1>6. HeaderFrame'
    BY FileFacts, <1>0 DEF FileInv, Frames, Places, HeaderFrame, Writing, PowerLoss, Stop, MayHarm, Closed
  <1>7. RecordFrame'
    BY FileFacts, <1>0 DEF FileInv, Frames, Places, RecordFrame, Writing, PowerLoss, Stop, MayHarm, Closed
  <1>8. RecordPlace'
    BY FileFacts, <1>0 DEF FileInv, Frames, Places, RecordFrame, RecordPlace, Writing, PowerLoss, Stop, MayHarm, Closed
  <1>9. RemovalFrame'
    BY FileFacts, <1>0 DEF FileInv, Frames, Places, RemovalFrame, Removing, Mirrors, PowerLoss, Stop, MayHarm, Closed
  <1>10. Kept'
    <2>1. PICK k \in 0..Len(disk.ids) :
            /\ Common(k, cache.ids, disk.ids)
            /\ Holds(k, told, disk.ids)
            /\ (Writing \/ Removing) /\ op.kind # "session" => Common(k, op.offset.ids, disk.ids)
      BY DEF FileInv, Kept
    <2>2. k \in 0..Len(disk'.ids) /\ Common(k, cache'.ids, disk'.ids)
      BY <2>1, <1>a, <1>0, FileFacts, BetweenKeeps DEF Common, PowerLoss
    <2>3. Holds(k, told', disk'.ids)
      <3>1. \A i \in 1..k : cache'.ids[i] = disk.ids[i]
        BY <2>1, <1>a, FileFacts, BetweenKeeps DEF Common
      <3> QED
        BY <2>1, <3>1 DEF PowerLoss, Closed, Holds
    <2>4. (Writing' \/ Removing') /\ op'.kind # "session" => Common(k, op'.offset.ids, disk'.ids)
      BY <2>1, FileFacts, <1>0 DEF FileInv, Common, Writing, Removing, PowerLoss, Stop, MayHarm, Closed
    <2> QED
      BY <2>2, <2>3, <2>4 DEF Kept
  <1> QED
    BY <1>1, <1>2, <1>3, <1>4, <1>5, <1>6, <1>7, <1>8, <1>9, <1>10 DEF FileInv, Frames

LEMMA OpenNewFile ==
  ASSUME BoundsAssumption, FileInv, OpenNew
  PROVE  FileInv'
  <1> USE DEF file, memory, client, bounds
  <1>a. buffer' \in {<<i>> : i \in Lines} /\ [NoOp EXCEPT !.kind = "session"] \in OpRecord
    BY NoOpType DEF OpenNew, OpRecord, Kinds
  <1>0. /\ cache = Empty /\ cache.ids = <<>> /\ buffer' = <<Root>> /\ disk.ids = <<>>
        /\ cache.ids \o buffer' = <<Root>> /\ op'.kind = "session"
    BY NoOpType DEF OpenNew, FileInv, Files, Empty, NoOp
  <1>1. TypeOK'
    <2>1. rec' \in [Lines -> Record] /\ nextId' \in 1..(MaxId + 1)
          /\ told' \in [Ids -> {"nothing", "returned", "raised"}]
      BY FileFacts, <1>0 DEF FileInv, TypeOK, OpenNew
    <2>2. disk' \in File /\ cache' \in File /\ op' \in OpRecord
      BY <1>a, NoOpType, FileFacts, <1>0 DEF FileInv, TypeOK, OpenNew
    <2>3. buffer' \in {<<>>} \cup {<<i>> : i \in Lines}
      BY <1>a
    <2>4. entries' \subseteq Ids /\ head' \in Ids /\ committed' \in Ids /\ failed' \in BOOLEAN
      BY NoOpType, FileFacts, <1>0 DEF FileInv, TypeOK, OpenNew
    <2>5. pc' \in {"closed", "trim", "trimsync", "idle", "flush", "fsync", "sync",
                   "seek", "truncate", "cleansync", "closing"}
      BY FileFacts, <1>0 DEF FileInv, TypeOK, OpenNew
    <2>6. turn' \in 0..MaxTurn /\ broken' \in BOOLEAN /\ begun' \in 0..MaxTurn
      BY BoundsAre, FileFacts, <1>0 DEF FileInv, TypeOK, OpenNew
    <2>7. faults' \in 0..MaxFaults /\ stops' \in 0..MaxStops
      BY BoundsAre, FileFacts, <1>0 DEF FileInv, TypeOK, OpenNew
    <2> QED
      BY <2>1, <2>2, <2>3, <2>4, <2>5, <2>6, <2>7 DEF TypeOK
  <1>2. Made(rec, nextId)'
    BY FileFacts, <1>0 DEF FileInv, OpenNew
  <1>3. Files'
    <2>1. Chain(rec, nextId, <<Root>>)
      BY DEF FileInv, TypeOK, Chain, Root
    <2> QED
      BY <1>0, <2>1 DEF OpenNew, FileInv, Files
  <1>4. Places'
    BY NoOpType, FileFacts, <1>0 DEF FileInv, Frames, Places, Writing, Removing, OpenNew
  <1>5. Idle'
    BY FileFacts, <1>0 DEF FileInv, Frames, Places, Idle, Mirrors, RemovalFrame, Writing, Removing, OpenNew
  <1>6. HeaderFrame'
    BY <1>0, FileFacts, <1>0 DEF FileInv, Frames, Places, HeaderFrame, Writing, OpenNew
  <1>7. RecordFrame'
    BY FileFacts, <1>0 DEF FileInv, Frames, Places, RecordFrame, Writing, OpenNew
  <1>8. RecordPlace'
    BY FileFacts, <1>0 DEF FileInv, Frames, Places, RecordFrame, RecordPlace, Writing, OpenNew
  <1>9. RemovalFrame'
    BY FileFacts, <1>0 DEF FileInv, Frames, Places, RemovalFrame, Removing, Mirrors, OpenNew
  <1>10. Kept'
    <2>1. PICK k \in 0..Len(disk.ids) :
            /\ Common(k, cache.ids, disk.ids)
            /\ Holds(k, told, disk.ids)
            /\ (Writing \/ Removing) /\ op.kind # "session" => Common(k, op.offset.ids, disk.ids)
      BY DEF FileInv, Kept
    <2>2. k \in 0..Len(disk'.ids) /\ Common(k, cache'.ids, disk'.ids)
      BY <2>1, FileFacts, <1>0 DEF FileInv, Common, Frames, RecordPlace, RecordFrame, RemovalFrame, Removing, Writing, Places, OpenNew
    <2>3. Holds(k, told', disk'.ids)
      BY <2>1, FileFacts, <1>0 DEF Holds, Common, Returned, OpenNew
    <2>4. (Writing' \/ Removing') /\ op'.kind # "session" => Common(k, op'.offset.ids, disk'.ids)
      BY <2>1, FileFacts, <1>0 DEF FileInv, Common, Writing, Removing, OpenNew
    <2> QED
      BY <2>2, <2>3, <2>4 DEF Kept
  <1> QED
    BY <1>1, <1>2, <1>3, <1>4, <1>5, <1>6, <1>7, <1>8, <1>9, <1>10 DEF FileInv, Frames

LEMMA OpenSavedFile ==
  ASSUME BoundsAssumption, FileInv, OpenSaved
  PROVE  FileInv'
  <1> USE DEF file, memory, client, bounds
  <1>a. cache.ids # <<>>
    <2>1. cache.ids = <<>> /\ ~cache.torn => cache = Empty
      BY FileFacts DEF File, Empty
    <2> QED
      BY <2>1, FileFacts DEF OpenSaved, Loads
  <1>0. /\ cache.ids # <<>> /\ Selection(cache) = Sel(rec, cache.ids)
        /\ Sel(rec, cache.ids) \in Elements(cache.ids) /\ Elements(cache.ids) \subseteq Ids
        /\ buffer = <<>> /\ op = NoOp /\ pc = "closed"
        /\ entries = {} /\ head = Root /\ committed = Root /\ ~failed /\ turn = 0
    BY <1>a, Opening DEF FileInv, Frames, Places, OpenSaved
  <1>1. TypeOK'
    <2>1. rec' \in [Lines -> Record] /\ nextId' \in 1..(MaxId + 1)
          /\ told' \in [Ids -> {"nothing", "returned", "raised"}]
      BY FileFacts, <1>0 DEF FileInv, TypeOK, OpenSaved, Opened, Return
    <2>2. disk' \in File /\ cache' \in File /\ op' \in OpRecord
      BY NoOpType, FileFacts, <1>0 DEF FileInv, TypeOK, OpenSaved, Opened, Return
    <2>3. buffer' \in {<<>>} \cup {<<i>> : i \in Lines}
      BY FileFacts, <1>0 DEF FileInv, TypeOK, OpenSaved, Opened, Return
    <2>4. entries' \subseteq Ids /\ head' \in Ids /\ committed' \in Ids /\ failed' \in BOOLEAN
      BY NoOpType, FileFacts, <1>0 DEF FileInv, TypeOK, OpenSaved, Opened, Return
    <2>5. pc' \in {"closed", "trim", "trimsync", "idle", "flush", "fsync", "sync",
                   "seek", "truncate", "cleansync", "closing"}
      BY FileFacts, <1>0 DEF FileInv, TypeOK, OpenSaved, Opened, Return
    <2>6. turn' \in 0..MaxTurn /\ broken' \in BOOLEAN /\ begun' \in 0..MaxTurn
      BY BoundsAre, FileFacts, <1>0 DEF FileInv, TypeOK, OpenSaved, Opened, Return
    <2>7. faults' \in 0..MaxFaults /\ stops' \in 0..MaxStops
      BY BoundsAre, FileFacts, <1>0 DEF FileInv, TypeOK, OpenSaved, Opened, Return
    <2> QED
      BY <2>1, <2>2, <2>3, <2>4, <2>5, <2>6, <2>7 DEF TypeOK
  <1>2. Made(rec, nextId)'
    BY FileFacts, <1>0 DEF FileInv, OpenSaved, Opened, Return
  <1>3. Files'
    BY FileFacts, <1>0 DEF FileInv, Files, OpenSaved, Opened, Return
  <1>4. Places'
    BY NoOpType, FileFacts, <1>0 DEF FileInv, Frames, Places, Writing, Removing, OpenSaved, Opened, Return
  <1>5. Idle'
    BY FileFacts, <1>0 DEF FileInv, Frames, Places, Idle, Mirrors, RemovalFrame, Writing, Removing, OpenSaved, Opened, Return
  <1>6. HeaderFrame'
    BY FileFacts, <1>0 DEF FileInv, Frames, Places, HeaderFrame, Writing, OpenSaved, Opened, Return
  <1>7. RecordFrame'
    BY FileFacts, <1>0 DEF FileInv, Frames, Places, RecordFrame, Writing, OpenSaved, Opened, Return
  <1>8. RecordPlace'
    BY FileFacts, <1>0 DEF FileInv, Frames, Places, RecordFrame, RecordPlace, Writing, OpenSaved, Opened, Return
  <1>9. RemovalFrame'
    BY FileFacts, <1>0 DEF FileInv, Frames, Places, RemovalFrame, Removing, Mirrors, OpenSaved, Opened, Return
  <1>10. Kept'
    <2>1. PICK k \in 0..Len(disk.ids) :
            /\ Common(k, cache.ids, disk.ids)
            /\ Holds(k, told, disk.ids)
            /\ (Writing \/ Removing) /\ op.kind # "session" => Common(k, op.offset.ids, disk.ids)
      BY DEF FileInv, Kept
    <2>2. k \in 0..Len(disk'.ids) /\ Common(k, cache'.ids, disk'.ids)
      BY <2>1, FileFacts, <1>0 DEF FileInv, Common, Frames, RecordPlace, RecordFrame, RemovalFrame, Removing, Writing, Places, OpenSaved, Opened, Return
    <2>3. Holds(k, told', disk'.ids)
      BY <2>1, FileFacts, <1>0 DEF Holds, Common, Returned, OpenSaved, Opened, Return
    <2>4. (Writing' \/ Removing') /\ op'.kind # "session" => Common(k, op'.offset.ids, disk'.ids)
      BY <2>1, FileFacts, <1>0 DEF FileInv, Common, Writing, Removing, OpenSaved, Opened, Return
    <2> QED
      BY <2>2, <2>3, <2>4 DEF Kept
  <1> QED
    BY <1>1, <1>2, <1>3, <1>4, <1>5, <1>6, <1>7, <1>8, <1>9, <1>10 DEF FileInv, Frames

LEMMA TrimSyncFile ==
  ASSUME BoundsAssumption, FileInv, TrimSync
  PROVE  FileInv'
  <1> USE DEF file, memory, client, bounds
  <1>a. cache.ids # <<>>
    BY DEF FileInv, Frames, Places, TrimSync
  <1>0. /\ cache.ids # <<>> /\ Selection(cache) = Sel(rec, cache.ids)
        /\ Sel(rec, cache.ids) \in Elements(cache.ids) /\ Elements(cache.ids) \subseteq Ids
        /\ buffer = <<>> /\ op = NoOp /\ ~cache.torn
    BY <1>a, Opening DEF FileInv, Frames, Places, TrimSync
  <1>1. TypeOK'
    <2>1. rec' \in [Lines -> Record] /\ nextId' \in 1..(MaxId + 1)
          /\ told' \in [Ids -> {"nothing", "returned", "raised"}]
      BY FileFacts, <1>0 DEF FileInv, TypeOK, TrimSync, Opened, Return
    <2>2. disk' \in File /\ cache' \in File /\ op' \in OpRecord
      BY NoOpType, FileFacts, <1>0 DEF FileInv, TypeOK, TrimSync, Opened, Return
    <2>3. buffer' \in {<<>>} \cup {<<i>> : i \in Lines}
      BY FileFacts, <1>0 DEF FileInv, TypeOK, TrimSync, Opened, Return
    <2>4. entries' \subseteq Ids /\ head' \in Ids /\ committed' \in Ids /\ failed' \in BOOLEAN
      BY NoOpType, FileFacts, <1>0 DEF FileInv, TypeOK, TrimSync, Opened, Return
    <2>5. pc' \in {"closed", "trim", "trimsync", "idle", "flush", "fsync", "sync",
                   "seek", "truncate", "cleansync", "closing"}
      BY FileFacts, <1>0 DEF FileInv, TypeOK, TrimSync, Opened, Return
    <2>6. turn' \in 0..MaxTurn /\ broken' \in BOOLEAN /\ begun' \in 0..MaxTurn
      BY BoundsAre, FileFacts, <1>0 DEF FileInv, TypeOK, TrimSync, Opened, Return
    <2>7. faults' \in 0..MaxFaults /\ stops' \in 0..MaxStops
      BY BoundsAre, FileFacts, <1>0 DEF FileInv, TypeOK, TrimSync, Opened, Return
    <2> QED
      BY <2>1, <2>2, <2>3, <2>4, <2>5, <2>6, <2>7 DEF TypeOK
  <1>2. Made(rec, nextId)'
    BY FileFacts, <1>0 DEF FileInv, TrimSync, Opened, Return
  <1>3. Files'
    BY FileFacts, <1>0 DEF FileInv, Files, TrimSync, Opened, Return
  <1>4. Places'
    BY NoOpType, FileFacts, <1>0 DEF FileInv, Frames, Places, Writing, Removing, TrimSync, Opened, Return
  <1>5. Idle'
    BY FileFacts, <1>0 DEF FileInv, Frames, Places, Idle, Mirrors, RemovalFrame, Writing, Removing, TrimSync, Opened, Return
  <1>6. HeaderFrame'
    BY FileFacts, <1>0 DEF FileInv, Frames, Places, HeaderFrame, Writing, TrimSync, Opened, Return
  <1>7. RecordFrame'
    BY FileFacts, <1>0 DEF FileInv, Frames, Places, RecordFrame, Writing, TrimSync, Opened, Return
  <1>8. RecordPlace'
    BY FileFacts, <1>0 DEF FileInv, Frames, Places, RecordFrame, RecordPlace, Writing, TrimSync, Opened, Return
  <1>9. RemovalFrame'
    BY FileFacts, <1>0 DEF FileInv, Frames, Places, RemovalFrame, Removing, Mirrors, TrimSync, Opened, Return
  <1>10. Kept'
    <2>1. PICK k \in 0..Len(disk.ids) :
            /\ Common(k, cache.ids, disk.ids)
            /\ Holds(k, told, disk.ids)
            /\ (Writing \/ Removing) /\ op.kind # "session" => Common(k, op.offset.ids, disk.ids)
      BY DEF FileInv, Kept
    <2>2. k \in 0..Len(disk'.ids) /\ Common(k, cache'.ids, disk'.ids)
      BY <2>1, FileFacts, <1>0 DEF FileInv, Common, Frames, RecordPlace, RecordFrame, RemovalFrame, Removing, Writing, Places, TrimSync, Opened, Return
    <2>3. Holds(k, told', disk'.ids)
      BY <2>1, FileFacts, <1>0 DEF Holds, Common, Returned, TrimSync, Opened, Return
    <2>4. (Writing' \/ Removing') /\ op'.kind # "session" => Common(k, op'.offset.ids, disk'.ids)
      BY <2>1, FileFacts, <1>0 DEF FileInv, Common, Writing, Removing, TrimSync, Opened, Return
    <2> QED
      BY <2>2, <2>3, <2>4 DEF Kept
  <1> QED
    BY <1>1, <1>2, <1>3, <1>4, <1>5, <1>6, <1>7, <1>8, <1>9, <1>10 DEF FileInv, Frames

LEMMA SyncedFile ==
  ASSUME BoundsAssumption, FileInv, Synced
  PROVE  FileInv'
  <1> USE DEF file, memory, client, bounds
  <1>0. /\ pc = "fsync" /\ Writing /\ op.kind \in Durable \cup {"message", "session"}
        /\ "message" \notin Durable /\ "session" \notin Durable /\ ~failed
    BY Kind DEF Synced, Writing, FileInv, Frames, HeaderFrame, RecordFrame
  <1>a. op.kind # "session" =>
          /\ cache.ids # <<>> /\ ~cache.torn /\ buffer = <<>>
          /\ cache = [ids |-> op.offset.ids \o <<op.id>>, torn |-> FALSE]
          /\ entries' = Elements(cache.ids) \ {Root} /\ head' = op.id
          /\ op.id \in Elements(cache.ids)
    BY <1>0, Appended DEF FileInv, Frames, RecordPlace, Synced
  <1>b. op.kind = "message" => committed = Sel(rec, cache.ids)
    BY <1>0, Appended
  <1>c. op.kind # "session" => Elements(cache.ids) \subseteq Ids
    BY <1>a, Opening
  <1>1. TypeOK'
    <2>1. rec' \in [Lines -> Record] /\ nextId' \in 1..(MaxId + 1)
          /\ told' \in [Ids -> {"nothing", "returned", "raised"}]
      BY FileFacts, <1>0 DEF FileInv, TypeOK, Synced, Return, Tell
    <2>2. disk' \in File /\ cache' \in File /\ op' \in OpRecord
      BY NoOpType, FileFacts, <1>0 DEF FileInv, TypeOK, Synced, Return
    <2>3. buffer' \in {<<>>} \cup {<<i>> : i \in Lines}
      BY FileFacts, <1>0 DEF FileInv, TypeOK, Synced, Return
    <2>4. entries' \subseteq Ids /\ head' \in Ids /\ committed' \in Ids /\ failed' \in BOOLEAN
      BY <1>a, <1>c, NoOpType, FileFacts, <1>0 DEF FileInv, TypeOK, Synced, Return
    <2>5. pc' \in {"closed", "trim", "trimsync", "idle", "flush", "fsync", "sync",
                   "seek", "truncate", "cleansync", "closing"}
      BY FileFacts, <1>0 DEF FileInv, TypeOK, Synced, Return
    <2>6. turn' \in 0..MaxTurn /\ broken' \in BOOLEAN /\ begun' \in 0..MaxTurn
      BY BoundsAre, FileFacts, <1>0 DEF FileInv, TypeOK, Synced, Return
    <2>7. faults' \in 0..MaxFaults /\ stops' \in 0..MaxStops
      BY BoundsAre, FileFacts, <1>0 DEF FileInv, TypeOK, Synced, Return
    <2> QED
      BY <2>1, <2>2, <2>3, <2>4, <2>5, <2>6, <2>7 DEF TypeOK
  <1>2. Made(rec, nextId)'
    BY FileFacts, <1>0 DEF FileInv, Synced, Return
  <1>3. Files'
    BY FileFacts, <1>0 DEF FileInv, Files, Synced, Return
  <1>4. Places'
    BY <1>a, NoOpType, FileFacts, <1>0 DEF FileInv, Frames, Places, Writing, Removing, Synced, Return
  <1>5. Idle'
    BY <1>a, <1>b, FileFacts, <1>0 DEF FileInv, Frames, Places, Idle, Mirrors, RemovalFrame, Writing, Removing, Synced, Return
  <1>6. HeaderFrame'
    BY FileFacts, <1>0 DEF FileInv, Frames, Places, HeaderFrame, Writing, Synced, Return
  <1>7. RecordFrame'
    BY FileFacts, <1>0 DEF FileInv, Frames, Places, RecordFrame, Writing, Synced, Return
  <1>8. RecordPlace'
    BY <1>a, FileFacts, <1>0 DEF FileInv, Frames, Places, RecordFrame, RecordPlace, Writing, Synced, Return
  <1>9. RemovalFrame'
    BY FileFacts, <1>0 DEF FileInv, Frames, Places, RemovalFrame, Removing, Mirrors, Synced, Return
  <1>10. Kept'
    <2>1. CASE op.kind = "message"
      <3>1. Returned(told') \subseteq Returned(told) \cup {op.id}
        BY <2>1, <1>0, Told DEF Synced, Tell
      <3>2. ~(Writing' \/ Removing')
        BY <2>1 DEF Synced, Return, Writing, Removing
      <3>3. op.id \in Elements(cache.ids) /\ disk' = cache /\ cache' = cache
        BY <2>1, <1>a DEF Synced
      <3> QED
        BY <3>1, <3>2, <3>3, AllKept
    <2>2. CASE op.kind # "message"
      <3>1. PICK k \in 0..Len(disk.ids) :
              /\ Common(k, cache.ids, disk.ids)
              /\ Holds(k, told, disk.ids)
              /\ op.kind # "session" => Common(k, op.offset.ids, disk.ids)
        BY <1>0 DEF FileInv, Kept
      <3>2. disk' = cache /\ cache' = cache /\ op' = op /\ told' = told
        BY <2>2 DEF Synced
      <3>3. k \in 0..Len(disk'.ids) /\ Common(k, cache'.ids, disk'.ids)
        BY <3>1, <3>2, FileFacts DEF Common
      <3>4. Holds(k, told', disk'.ids)
        BY <3>1, <3>2 DEF Holds, Common
      <3>5. op'.kind # "session" => Common(k, op'.offset.ids, disk'.ids)
        BY <3>1, <3>2 DEF Common
      <3> QED
        BY <3>3, <3>4, <3>5 DEF Kept
    <2> QED
      BY <2>1, <2>2
  <1> QED
    BY <1>1, <1>2, <1>3, <1>4, <1>5, <1>6, <1>7, <1>8, <1>9, <1>10 DEF FileInv, Frames

LEMMA SyncedAgainFile ==
  ASSUME BoundsAssumption, FileInv, SyncedAgain
  PROVE  FileInv'
  <1> USE DEF file, memory, client, bounds
  <1>0. /\ pc = "sync" /\ Writing /\ op.kind \in Durable \cup {"session"}
        /\ "message" \notin Durable /\ "session" \notin Durable /\ ~failed
    BY Kind DEF SyncedAgain, Writing, FileInv, Frames, HeaderFrame, RecordFrame, RecordPlace
  <1>a. op.kind = "session" => cache.ids = <<Root>> /\ ~cache.torn /\ buffer = <<>> /\ op.id = Root
    BY <1>0 DEF FileInv, Frames, HeaderFrame, NoOp
  <1>b. op.kind # "session" =>
          /\ ~cache.torn /\ buffer = <<>> /\ cache.ids # <<>>
          /\ entries = Elements(cache.ids) \ {Root} /\ Sel(rec, cache.ids) = Pick(rec, op.id)
          /\ op.id \in Elements(cache.ids) /\ op.previous \in Elements(cache.ids)
          /\ op.kind = rec[op.id].kind
    BY <1>0, Appended DEF FileInv, Frames, RecordPlace
  <1>c. cache.ids # <<>>
    <2>1. <<Root>> # <<>>
      OBVIOUS
    <2> QED
      BY <1>a, <1>b, <2>1, Zenon
  <1>d. /\ Selection(cache) = Sel(rec, cache.ids)
        /\ Sel(rec, cache.ids) \in Elements(cache.ids) /\ Elements(cache.ids) \subseteq Ids
    BY <1>c, Opening
  <1>e. op.id \in Elements(cache.ids)
    BY <1>a, <1>b DEF Elements
  <1>f. /\ ~cache'.torn /\ buffer' = <<>> /\ cache' = cache /\ rec' = rec /\ failed' = FALSE
        /\ pc' = "idle" /\ op' = NoOp /\ turn' \in {0, turn}
    BY <1>0, <1>a, <1>b DEF SyncedAgain, Opened, Return
  <1>g. /\ entries' = Elements(cache.ids) \ {Root} /\ committed' = Sel(rec, cache.ids)
        /\ head' \in Elements(cache.ids)
    <2>1. CASE op.kind = "session"
      BY <2>1, <1>0, <1>d DEF SyncedAgain, Opened
    <2>2. CASE op.kind = "turn_commit"
      BY <2>2, <1>0, <1>b, <1>d DEF SyncedAgain, Selected, Pick
    <2>3. CASE op.kind = "state"
      BY <2>3, <1>0, <1>b, <1>d DEF SyncedAgain, Selected, Pick
    <2>4. CASE op.kind = "select"
      BY <2>4, <1>0, <1>b, <1>d DEF SyncedAgain, Selected, Pick
    <2> QED
      BY <2>1, <2>2, <2>3, <2>4, <1>0 DEF Durable
  <1>1. TypeOK'
    <2>1. rec' \in [Lines -> Record] /\ nextId' \in 1..(MaxId + 1)
          /\ told' \in [Ids -> {"nothing", "returned", "raised"}]
      BY FileFacts DEF FileInv, TypeOK, SyncedAgain, Tell
    <2>2. disk' \in File /\ cache' \in File /\ op' \in OpRecord
      BY <1>f, FileFacts, NoOpType DEF SyncedAgain
    <2>3. buffer' \in {<<>>} \cup {<<i>> : i \in Lines}
      BY <1>f
    <2>4. entries' \subseteq Ids /\ head' \in Ids /\ committed' \in Ids /\ failed' \in BOOLEAN
      BY <1>d, <1>f, <1>g DEF FileInv, TypeOK
    <2>5. pc' \in {"closed", "trim", "trimsync", "idle", "flush", "fsync", "sync",
                   "seek", "truncate", "cleansync", "closing"}
      BY <1>f
    <2>6. turn' \in 0..MaxTurn /\ broken' \in BOOLEAN /\ begun' \in 0..MaxTurn
      BY <1>f, BoundsAre DEF FileInv, TypeOK, SyncedAgain
    <2>7. faults' \in 0..MaxFaults /\ stops' \in 0..MaxStops
      BY BoundsAre, FileFacts, <1>0 DEF FileInv, TypeOK, SyncedAgain, Selected, Opened, Return
    <2> QED
      BY <2>1, <2>2, <2>3, <2>4, <2>5, <2>6, <2>7 DEF TypeOK
  <1>2. Made(rec, nextId)'
    BY FileFacts, <1>0 DEF FileInv, SyncedAgain, Selected, Opened, Return
  <1>3. Files'
    BY <1>f, FileFacts DEF FileInv, Files, SyncedAgain
  <1>4. Places'
    BY <1>c, <1>f, NoOpType DEF Places, Writing, Removing
  <1>5. Idle'
    BY <1>f, <1>g DEF Idle, Mirrors
  <1>6. HeaderFrame'
    BY <1>f DEF HeaderFrame, Writing
  <1>7. RecordFrame'
    BY <1>f DEF RecordFrame, Writing
  <1>8. RecordPlace'
    BY <1>f DEF RecordPlace, Writing
  <1>9. RemovalFrame'
    BY <1>f DEF RemovalFrame, Removing
  <1>10. Kept'
    <2>1. Returned(told') \subseteq Returned(told) \cup {op.id}
      BY Told DEF SyncedAgain, Tell
    <2>2. ~(Writing' \/ Removing')
      BY <1>f DEF Writing, Removing
    <2>3. disk' = cache /\ cache' = cache
      BY DEF SyncedAgain
    <2> QED
      BY <2>1, <2>2, <2>3, <1>e, AllKept
  <1> QED
    BY <1>1, <1>2, <1>3, <1>4, <1>5, <1>6, <1>7, <1>8, <1>9, <1>10 DEF FileInv, Frames

LEMMA WriteFile ==
  ASSUME NEW kind \in Durable \cup {"message"}, NEW owner \in 0..MaxTurn,
         NEW parent \in Elements(cache.ids), NEW target \in Elements(cache.ids),
         kind = "select" => Selectable(rec, target),
         kind = "message" => head' = head /\ parent = head, head' \in {head, parent},
         pc = "idle", ~failed, UNCHANGED <<disk, cache, entries, committed, failed, client>>,
         BoundsAssumption, FileInv, Write(kind, parent, target, owner)
  PROVE  FileInv'
  <1> USE DEF file, memory, client, bounds
  <1>a. /\ cache.ids # <<>> /\ buffer = <<>> /\ ~cache.torn /\ entries = Elements(cache.ids) \ {Root}
        /\ committed = Sel(rec, cache.ids) /\ head \in Elements(cache.ids)
    BY DEF FileInv, Frames, Idle, Places, Mirrors
  <1>b. Elements(cache.ids) \subseteq Ids /\ Elements(cache.ids) \subseteq 0..(nextId - 1)
    BY <1>a, Opening
  <1>c. nextId \in 1..MaxId /\ nextId \in Ids /\ nextId \in Lines /\ nextId # Root
    BY BoundsAre DEF FileInv, TypeOK, Write, Ids, Lines, Root
  <1>d. /\ rec \in [Lines -> Record]
        /\ [kind |-> kind, parent |-> parent, target |-> target, turn |-> owner] \in Record
    BY <1>b, BoundsAre DEF FileInv, TypeOK, Record, Kinds
  <1>e. /\ rec' \in [Lines -> Record]
        /\ rec'[nextId].kind = kind /\ rec'[nextId].parent = parent /\ rec'[nextId].target = target
        /\ \A i \in Lines : i # nextId => rec'[i] = rec[i]
        /\ nextId' = nextId + 1 /\ buffer' = <<nextId>>
    BY <1>a, <1>c, <1>d DEF Write
  <1>f. \A i \in 0..(nextId - 1) : i \in Lines /\ i # nextId
    BY <1>c, BoundsAre DEF Lines, Ids
  <1>g. \A i \in 0..(nextId - 1) : rec'[i] = rec[i]
    BY <1>e, <1>f
  <1>h. /\ Chain(rec, nextId, cache.ids) /\ Chain(rec, nextId, disk.ids) /\ nextId \in Nat
        /\ cache.ids \in Seq(Lines) /\ disk.ids \in Seq(Lines) /\ cache' = cache /\ disk' = disk
    BY <1>c, FileFacts DEF FileInv, Files
  <1>i. Chain(rec', nextId', cache.ids) /\ Chain(rec', nextId', disk.ids)
    BY <1>e, <1>g, <1>h, ChainGrown
  <1>j. Chain(rec', nextId', cache.ids \o <<nextId>>)
    BY <1>a, <1>c, <1>e, <1>g, <1>h, ChainAppend
  <1>k. Sel(rec', cache.ids) = committed
    <2>1. \A i \in 1..Len(cache.ids) : cache.ids[i] \in 0..(nextId - 1)
      BY <1>h DEF Chain
    <2> QED
      BY <1>a, <1>g, <1>h, <2>1, SelSame
  <1>l. /\ op' = [kind |-> kind, id |-> nextId, previous |-> head, offset |-> cache]
        /\ pc' = "flush" /\ told' = told /\ cache \in File /\ kind \in Kinds
        /\ head \in Ids /\ parent \in Ids /\ "message" \notin Durable /\ "session" \notin Durable
    BY <1>b, FileFacts DEF Write, FileInv, TypeOK, Kinds, Durable
  <1>0. /\ op' \in OpRecord /\ op'.kind = kind /\ op'.id = nextId /\ op'.previous = head
        /\ op'.offset = cache /\ kind # "session"
    BY <1>c, <1>l DEF OpRecord
  <1>1. TypeOK'
    <2>1. rec' \in [Lines -> Record] /\ nextId' \in 1..(MaxId + 1)
          /\ told' \in [Ids -> {"nothing", "returned", "raised"}]
      <3>1. nextId + 1 \in 1..(MaxId + 1)
        BY <1>c, BoundsAre
      <3>2. told' \in [Ids -> {"nothing", "returned", "raised"}]
        BY <1>l DEF FileInv, TypeOK
      <3> QED
        BY <1>e, <3>1, <3>2
    <2>2. disk' \in File /\ cache' \in File /\ op' \in OpRecord
      BY <1>0, <1>h, FileFacts
    <2>3. buffer' \in {<<>>} \cup {<<i>> : i \in Lines}
      BY <1>c, <1>e
    <2>4. entries' \subseteq Ids /\ head' \in Ids /\ committed' \in Ids /\ failed' \in BOOLEAN
      BY <1>l DEF FileInv, TypeOK
    <2>5. pc' \in {"closed", "trim", "trimsync", "idle", "flush", "fsync", "sync",
                   "seek", "truncate", "cleansync", "closing"}
      BY <1>l
    <2>6. turn' \in 0..MaxTurn /\ broken' \in BOOLEAN /\ begun' \in 0..MaxTurn
      BY DEF FileInv, TypeOK
    <2>7. faults' \in 0..MaxFaults /\ stops' \in 0..MaxStops
      BY DEF Write, FileInv, TypeOK
    <2> QED
      BY <2>1, <2>2, <2>3, <2>4, <2>5, <2>6, <2>7 DEF TypeOK
  <1>2. Made(rec, nextId)'
    <2>1. rec'[Root] = Header
      BY <1>c, <1>e, NoOpType DEF FileInv, Made
    <2>2. \A i \in Lines : i >= nextId' => rec'[i] = Header
      BY <1>c, <1>e DEF FileInv, Made, Lines, Ids
    <2>3. ASSUME NEW i \in 1..(nextId' - 1)
          PROVE  /\ rec'[i].kind \in Durable \cup {"message"}
                 /\ rec'[i].parent < i /\ rec'[i].target < i
      <3>1. CASE i = nextId
        <4>1. parent \in 0..(nextId - 1) /\ target \in 0..(nextId - 1)
          BY <1>b
        <4> QED
          BY <1>c, <1>e, <3>1, <4>1
      <3>2. CASE i # nextId
        <4>1. i \in 1..(nextId - 1) /\ rec'[i] = rec[i]
          BY <1>c, <1>e, <1>g, <3>2
        <4> QED
          BY <4>1 DEF FileInv, Made
      <3> QED
        BY <3>1, <3>2
    <2> QED
      BY <2>1, <2>2, <2>3 DEF Made
  <1>3. Files'
    BY <1>a, <1>e, <1>h, <1>i, <1>j DEF FileInv, Files
  <1>4. Places'
    BY <1>l DEF Places, Removing
  <1>5. Idle'
    BY <1>l DEF Idle
  <1>6. HeaderFrame'
    BY <1>0 DEF HeaderFrame
  <1>7. RecordFrame'
    <2>1. op'.id \in 1..(nextId' - 1) /\ op'.kind = rec'[op'.id].kind
      BY <1>0, <1>c, <1>e
    <2>2. op'.kind = "message" => head' = op'.previous /\ rec'[op'.id].parent = head'
      BY <1>0, <1>e
    <2>3. ~failed' /\ committed' = committed
      OBVIOUS
    <2> QED
      BY <1>0, <1>a, <1>i, <1>j, <1>k, <2>1, <2>2, <2>3 DEF RecordFrame
  <1>8. RecordPlace'
    BY <1>0, <1>a, <1>e, <1>l DEF RecordPlace
  <1>9. RemovalFrame'
    BY <1>l DEF RemovalFrame, Removing
  <1>10. Kept'
    <2>1. PICK k \in 0..Len(disk.ids) : Common(k, cache.ids, disk.ids) /\ Holds(k, told, disk.ids)
      BY DEF FileInv, Kept
    <2> QED
      BY <2>1, <1>0, <1>h, <1>l DEF Kept
  <1> QED
    BY <1>1, <1>2, <1>3, <1>4, <1>5, <1>6, <1>7, <1>8, <1>9, <1>10 DEF FileInv, Frames

LEMMA UnserialisedFile ==
  ASSUME NEW kind \in Durable, pc = "idle", ~failed,
         BoundsAssumption, FileInv, pc' = "seek", broken' \in BOOLEAN,
         op' = [kind |-> kind, id |-> Root, previous |-> head, offset |-> cache],
         UNCHANGED <<rec, nextId, file, memory, turn, begun, told, bounds>>
  PROVE  FileInv'
  <1> USE DEF file, memory, client, bounds
  <1>a. /\ cache.ids # <<>> /\ buffer = <<>> /\ ~cache.torn /\ entries = Elements(cache.ids) \ {Root}
        /\ committed = Sel(rec, cache.ids) /\ head \in Elements(cache.ids)
    BY DEF FileInv, Frames, Idle, Places, Mirrors
  <1>0. /\ op' \in OpRecord /\ op'.kind = kind /\ op'.id = Root /\ op'.previous = head
        /\ op'.offset = cache /\ kind \notin {"session", "none"} /\ Chain(rec, nextId, cache.ids)
    BY FileFacts, NoOpType DEF FileInv, Files, TypeOK, OpRecord, Kinds, Durable
  <1>1. TypeOK'
    <2>1. rec' \in [Lines -> Record] /\ nextId' \in 1..(MaxId + 1)
          /\ told' \in [Ids -> {"nothing", "returned", "raised"}]
      BY FileFacts, <1>0 DEF FileInv, TypeOK, Return
    <2>2. disk' \in File /\ cache' \in File /\ op' \in OpRecord
      BY NoOpType, FileFacts, <1>0 DEF FileInv, TypeOK, Return
    <2>3. buffer' \in {<<>>} \cup {<<i>> : i \in Lines}
      BY FileFacts, <1>0 DEF FileInv, TypeOK, Return
    <2>4. entries' \subseteq Ids /\ head' \in Ids /\ committed' \in Ids /\ failed' \in BOOLEAN
      BY NoOpType, FileFacts, <1>0 DEF FileInv, TypeOK, Return
    <2>5. pc' \in {"closed", "trim", "trimsync", "idle", "flush", "fsync", "sync",
                   "seek", "truncate", "cleansync", "closing"}
      BY FileFacts, <1>0 DEF FileInv, TypeOK, Return
    <2>6. turn' \in 0..MaxTurn /\ broken' \in BOOLEAN /\ begun' \in 0..MaxTurn
      BY BoundsAre, FileFacts, <1>0 DEF FileInv, TypeOK, Return
    <2>7. faults' \in 0..MaxFaults /\ stops' \in 0..MaxStops
      BY BoundsAre, FileFacts, <1>0 DEF FileInv, TypeOK, Return
    <2> QED
      BY <2>1, <2>2, <2>3, <2>4, <2>5, <2>6, <2>7 DEF TypeOK
  <1>2. Made(rec, nextId)'
    BY FileFacts, <1>0 DEF FileInv, Return
  <1>3. Files'
    BY FileFacts, <1>0 DEF FileInv, Files, Return
  <1>4. Places'
    BY <1>a, NoOpType, FileFacts, <1>0 DEF FileInv, Frames, Places, Writing, Removing, Return
  <1>5. Idle'
    BY FileFacts, <1>0 DEF FileInv, Frames, Places, Idle, Mirrors, RemovalFrame, Writing, Removing, Return
  <1>6. HeaderFrame'
    BY FileFacts, <1>0 DEF FileInv, Frames, Places, HeaderFrame, Writing, Return
  <1>7. RecordFrame'
    BY FileFacts, <1>0 DEF FileInv, Frames, Places, RecordFrame, Writing, Return
  <1>8. RecordPlace'
    BY FileFacts, <1>0 DEF FileInv, Frames, Places, RecordFrame, RecordPlace, Writing, Return
  <1>9. RemovalFrame'
    BY <1>a, FileFacts, <1>0 DEF FileInv, Frames, Places, RemovalFrame, Removing, Mirrors, Return
  <1>10. Kept'
    <2>1. PICK k \in 0..Len(disk.ids) :
            /\ Common(k, cache.ids, disk.ids)
            /\ Holds(k, told, disk.ids)
            /\ (Writing \/ Removing) /\ op.kind # "session" => Common(k, op.offset.ids, disk.ids)
      BY DEF FileInv, Kept
    <2>2. k \in 0..Len(disk'.ids) /\ Common(k, cache'.ids, disk'.ids)
      BY <2>1, FileFacts, <1>0 DEF FileInv, Common, Frames, RecordPlace, RecordFrame, RemovalFrame, Removing, Writing, Places, Return
    <2>3. Holds(k, told', disk'.ids)
      BY <2>1, FileFacts, <1>0 DEF Holds, Common, Returned, Return
    <2>4. (Writing' \/ Removing') /\ op'.kind # "session" => Common(k, op'.offset.ids, disk'.ids)
      BY <2>1, FileFacts, <1>0 DEF FileInv, Common, Writing, Removing, Return
    <2> QED
      BY <2>2, <2>3, <2>4 DEF Kept
  <1> QED
    BY <1>1, <1>2, <1>3, <1>4, <1>5, <1>6, <1>7, <1>8, <1>9, <1>10 DEF FileInv, Frames

LEMMA DurableRefusedFile ==
  ASSUME NEW kind \in Durable, pc = "idle",
         BoundsAssumption, FileInv, DurableRefused(kind)
  PROVE  FileInv'
  <1> USE DEF file, memory, client, bounds
  <1>a. (cache' = Flushed(cache, buffer)) \/ (cache' \in File /\ cache'.ids = cache.ids)
    <2>1. \/ cache' = Flushed(cache, buffer)
          \/ cache' \in {cache, [cache EXCEPT !.torn = TRUE]}
      BY DEF DurableRefused
    <2>2. ASSUME cache' \in {cache, [cache EXCEPT !.torn = TRUE]}
          PROVE  cache' \in File /\ cache'.ids = cache.ids
      BY <2>2, FileFacts, TornFile
    <2> QED
      BY <2>1, <2>2
  <1>b. /\ cache' \in File /\ cache'.ids \in {cache.ids, cache.ids \o buffer}
        /\ buffer' = <<>> => cache'.ids \o buffer' = cache'.ids
        /\ cache'.ids # <<>>
        /\ \A k \in Nat : \A d : Common(k, cache.ids, d) => Common(k, cache'.ids, d)
    <2>1. cache.ids # <<>>
      BY DEF FileInv, Frames, Places
    <2>2. cache' \in File /\ cache'.ids \in {cache.ids, cache.ids \o buffer} /\ cache'.ids # <<>>
          /\ \A k \in Nat : \A d : Common(k, cache.ids, d) => Common(k, cache'.ids, d)
      BY <1>a, <2>1, FileFacts, FlushFacts
    <2>3. cache'.ids \o <<>> = cache'.ids
      BY <2>2, FileType, ConcatEmptySeq
    <2> QED
      BY <2>2, <2>3
  <1>c. kind \in Kinds /\ kind \notin {"session", "none", "message"} /\ op = NoOp /\ failed'
    BY DEF Kinds, Durable, FileInv, Frames, Places, DurableRefused
  <1>d. Chain(rec, nextId, cache'.ids)
    BY <1>b DEF FileInv, Files
  <1>e. \/ /\ op' = op /\ pc' = "idle" /\ cache'.ids = cache.ids /\ buffer' = buffer
        \/ /\ op' = [kind |-> kind, id |-> Root, previous |-> head, offset |-> cache']
           /\ pc' = "seek" /\ buffer' = <<>> /\ op' \in OpRecord /\ op'.kind = kind /\ op'.id = Root
           /\ op'.previous = head /\ op'.offset = cache'
    <2>1. \/ /\ op' = [kind |-> kind, id |-> Root, previous |-> head, offset |-> cache']
             /\ pc' = "seek" /\ buffer' = <<>>
          \/ /\ op' = op /\ pc' = "idle" /\ buffer' = buffer
             /\ cache' \in {cache, [cache EXCEPT !.torn = TRUE]}
      BY DEF DurableRefused
    <2>2. head \in Ids
      BY DEF FileInv, TypeOK
    <2>3. cache' \in {cache, [cache EXCEPT !.torn = TRUE]} => cache'.ids = cache.ids
      BY FileFacts, TornFile
    <2>4. ASSUME op' = [kind |-> kind, id |-> Root, previous |-> head, offset |-> cache']
          PROVE  /\ op' \in OpRecord /\ op'.kind = kind /\ op'.id = Root
                 /\ op'.previous = head /\ op'.offset = cache'
      BY <1>b, <1>c, <2>2, <2>4, NoOpType DEF OpRecord
    <2> QED
      BY <2>1, <2>3, <2>4
  <1>f. UNCHANGED <<rec, nextId, disk, entries, head, committed, failed, turn, begun, told>>
    BY DEF DurableRefused
  <1>1. TypeOK'
    <2>1. rec' \in [Lines -> Record] /\ nextId' \in 1..(MaxId + 1)
          /\ told' \in [Ids -> {"nothing", "returned", "raised"}]
      BY <1>f DEF FileInv, TypeOK
    <2>2. disk' \in File /\ cache' \in File /\ op' \in OpRecord
      BY <1>b, <1>e, <1>f, FileFacts
    <2>3. buffer' \in {<<>>} \cup {<<i>> : i \in Lines}
      BY <1>e DEF FileInv, TypeOK
    <2>4. entries' \subseteq Ids /\ head' \in Ids /\ committed' \in Ids /\ failed' \in BOOLEAN
      BY <1>f DEF FileInv, TypeOK
    <2>5. pc' \in {"closed", "trim", "trimsync", "idle", "flush", "fsync", "sync",
                   "seek", "truncate", "cleansync", "closing"}
      BY <1>e
    <2>6. turn' \in 0..MaxTurn /\ broken' \in BOOLEAN /\ begun' \in 0..MaxTurn
      BY <1>f DEF FileInv, TypeOK, DurableRefused
    <2>7. faults' \in 0..MaxFaults /\ stops' \in 0..MaxStops
      BY BoundsAre DEF FileInv, TypeOK, DurableRefused, Fault, MayHarm
    <2> QED
      BY <2>1, <2>2, <2>3, <2>4, <2>5, <2>6, <2>7 DEF TypeOK
  <1>2. Made(rec, nextId)'
    BY <1>f DEF FileInv
  <1>3. Files'
    BY <1>b, <1>d, <1>e, <1>f DEF FileInv, Files
  <1>4. Places'
    BY <1>b, <1>c, <1>e DEF Places, Writing, Removing
  <1>5. Idle'
    BY <1>c DEF Idle
  <1>6. HeaderFrame'
    BY <1>e DEF HeaderFrame, Writing
  <1>7. RecordFrame'
    BY <1>e DEF RecordFrame, Writing
  <1>8. RecordPlace'
    BY <1>e DEF RecordPlace, Writing
  <1>9. RemovalFrame'
    BY <1>b, <1>c, <1>d, <1>e, <1>f DEF RemovalFrame, Removing
  <1>10. Kept'
    <2>1. PICK k \in 0..Len(disk.ids) : Common(k, cache.ids, disk.ids) /\ Holds(k, told, disk.ids)
      BY DEF FileInv, Kept
    <2>2. Common(k, cache'.ids, disk.ids)
      BY <1>b, <2>1, FileFacts
    <2>3. (Writing' \/ Removing') => op'.offset = cache'
      BY <1>e DEF Writing, Removing
    <2> QED
      BY <1>f, <2>1, <2>2, <2>3 DEF Kept
  <1> QED
    BY <1>1, <1>2, <1>3, <1>4, <1>5, <1>6, <1>7, <1>8, <1>9, <1>10 DEF FileInv, Frames

------------------------------------------------------------------------------
(* The calls                                                                *)
LEMMA IdleFacts ==
  ASSUME BoundsAssumption, FileInv, pc = "idle", ~failed
  PROVE  /\ cache.ids # <<>> /\ Root \in Elements(cache.ids) /\ head \in Elements(cache.ids)
         /\ committed \in Elements(cache.ids) /\ entries = Elements(cache.ids) \ {Root}
         /\ turn \in 0..MaxTurn /\ broken \in BOOLEAN
  <1>1. /\ cache.ids # <<>> /\ head \in Elements(cache.ids) /\ entries = Elements(cache.ids) \ {Root}
        /\ committed = Sel(rec, cache.ids)
    BY DEF FileInv, Frames, Idle, Places, Mirrors
  <1>2. Chain(rec, nextId, cache.ids) /\ cache.ids \in Seq(Lines)
    BY FileFacts DEF FileInv, Files
  <1>3. Root \in Elements(cache.ids)
    BY <1>1, <1>2 DEF Chain, Elements
  <1> QED
    BY <1>1, <1>3, Opening DEF FileInv, TypeOK

LEMMA DurableAppendFile ==
  ASSUME BoundsAssumption, FileInv, pc = "idle", NEW kind \in Durable,
         NEW parent, NEW target,
         ~failed => parent \in Elements(cache.ids) /\ target \in Elements(cache.ids),
         kind = "select" => Selectable(rec, target),
         DurableAppend(kind, parent, target)
  PROVE  FileInv'
  <1>1. ~failed
    BY DEF DurableAppend
  <1>2. CASE Write(kind, parent, target, turn) /\ head' = parent
             /\ UNCHANGED <<disk, cache, entries, committed, failed, client>>
    <2>1. kind \in Durable \cup {"message"} /\ kind # "message" /\ turn \in 0..MaxTurn
      BY <1>1, IdleFacts DEF Durable
    <2> QED
      BY <1>1, <1>2, <2>1, WriteFile
  <1>3. CASE /\ pc' = "seek"
             /\ op' = [kind |-> kind, id |-> Root, previous |-> head, offset |-> cache]
             /\ broken' = (broken \/ kind = "turn_commit")
             /\ UNCHANGED <<rec, nextId, file, memory, turn, begun, told, bounds>>
    <2>1. broken' \in BOOLEAN
      BY <1>3
    <2> QED
      BY <1>1, <1>3, <2>1, UnserialisedFile
  <1> QED
    BY <1>2, <1>3 DEF DurableAppend

LEMMA CallFile ==
  ASSUME BoundsAssumption, FileInv, Call
  PROVE  FileInv'
  <1>1. CASE AppendMessage
    <2>1. pc = "idle" /\ ~failed /\ Write("message", head, Root, turn) /\ head' = head
          /\ UNCHANGED <<disk, cache, entries, committed, failed, client>>
      BY <1>1 DEF AppendMessage, memory
    <2>2. head \in Elements(cache.ids) /\ Root \in Elements(cache.ids) /\ turn \in 0..MaxTurn
      BY <2>1, IdleFacts
    <2> QED
      BY <2>1, <2>2, WriteFile
  <1>2. CASE Commit
    <2>1. pc = "idle" /\ "turn_commit" \in Durable
      BY <1>2 DEF Commit, Durable
    <2>2. ~failed => head \in Elements(cache.ids) /\ Root \in Elements(cache.ids)
      BY <2>1, IdleFacts
    <2>3. CASE DurableAppend("turn_commit", head, Root)
      BY <2>1, <2>2, <2>3, DurableAppendFile
    <2>4. CASE DurableRefused("turn_commit")
      BY <2>1, <2>4, DurableRefusedFile
    <2> QED
      BY <1>2, <2>3, <2>4 DEF Commit
  <1>3. CASE Checkpoint
    <2>1. pc = "idle" /\ "state" \in Durable
      BY <1>3 DEF Checkpoint, Durable
    <2>2. ~failed => committed \in Elements(cache.ids) /\ Root \in Elements(cache.ids)
      BY <2>1, IdleFacts
    <2>3. CASE DurableAppend("state", committed, Root)
      BY <2>1, <2>2, <2>3, DurableAppendFile
    <2>4. CASE DurableRefused("state")
      BY <2>1, <2>4, DurableRefusedFile
    <2> QED
      BY <1>3, <2>3, <2>4 DEF Checkpoint
  <1>4. CASE Fork
    <2>1. pc = "idle" /\ "select" \in Durable
      BY <1>4 DEF Fork, Durable
    <2>2. PICK entry \in entries :
            /\ rec[entry].kind = "turn_commit"
            /\ DurableAppend("select", entry, entry) \/ DurableRefused("select")
      BY <1>4 DEF Fork
    <2>3. Selectable(rec, entry)
      BY <2>2 DEF Selectable
    <2>4. ~failed => entry \in Elements(cache.ids)
      BY <2>1, IdleFacts
    <2>5. CASE DurableAppend("select", entry, entry)
      BY <2>1, <2>3, <2>4, <2>5, DurableAppendFile
    <2>6. CASE DurableRefused("select")
      BY <2>1, <2>6, DurableRefusedFile
    <2> QED
      BY <2>2, <2>5, <2>6
  <1> QED
    BY <1>1, <1>2, <1>3, <1>4, BeginTurnFile, AppendRefusedFile, AbortFile, CloseFile DEF Call

LEMMA NextFile ==
  ASSUME BoundsAssumption, FileInv, [Next]_vars
  PROVE  FileInv'
  <1>1. CASE Load
    BY <1>1, OpenNewFile, OpenSavedFile, OpenRefusedFile, TrimFile, TrimSyncFile, TrimFailsFile DEF Load
  <1>2. CASE Step
    BY <1>2, PartlyFlushedFile, FlushedAllFile, SyncedFile, SyncedAgainFile, FlushFailsFile,
       SyncFailsFile, SeekFile, TruncateFile, CleanedFile, CleanupFailsFile, CloseStreamFile DEF Step
  <1>3. CASE UNCHANGED vars
    BY <1>3, UnchangedFile
  <1> QED
    BY <1>1, <1>2, <1>3, CallFile, KillFile, PowerLossFile DEF Next

LEMMA FileHolds == Spec => []FileInv
  <1>1. Init => FileInv
    BY BoundsAssumption, InitFileInv
  <1>2. FileInv /\ [Next]_vars => FileInv'
    BY BoundsAssumption, NextFile
  <1> QED
    BY <1>1, <1>2, PTL DEF Spec

(* What a reopening may find.                                               *)
LEMMA Found ==
  ASSUME BoundsAssumption, FileInv, NEW f \in MayFind
  PROVE  /\ f \in File /\ Chain(rec, nextId, f.ids)
         /\ disk.ids # <<>> => f.ids # <<>>
         /\ disk.ids # <<>> => Loads(f)
  <1>1. /\ Chain(rec, nextId, disk.ids) /\ Chain(rec, nextId, cache.ids)
        /\ Chain(rec, nextId, cache.ids \o buffer) /\ (disk.ids # <<>> => cache.ids # <<>>)
        /\ nextId \in 1..(MaxId + 1)
    BY DEF FileInv, Files, TypeOK
  <1>2. nextId \in Nat /\ MaxId \in Nat
    BY <1>1, BoundsAre
  <1>3. f \in File /\ Chain(rec, nextId, f.ids) /\ (disk.ids # <<>> => f.ids # <<>>)
    <2>1. ASSUME NEW g \in File, Chain(rec, nextId, g.ids), cache.ids # <<>> => g.ids # <<>>,
                 f \in Between(disk, g)
          PROVE  f \in File /\ Chain(rec, nextId, f.ids) /\ (disk.ids # <<>> => f.ids # <<>>)
      <3>1. disk \in File
        BY FileFacts
      <3>2. f \in File
        BY <2>1, <3>1, BetweenIs
      <3>3. /\ Chain(rec, nextId, f.ids)
            /\ disk.ids # <<>> /\ g.ids # <<>> => f.ids # <<>>
        BY <1>1, <1>2, <2>1, <3>1, BetweenChains
      <3> QED
        BY <1>1, <2>1, <3>2, <3>3
    <2>2. CASE f \in Between(disk, cache)
      BY <1>1, <2>1, <2>2, FileFacts
    <2>3. CASE f \in Between(disk, Flushed(cache, buffer))
      BY <1>1, <2>1, <2>3, FlushFacts
    <2> QED
      BY <2>2, <2>3 DEF MayFind
  <1> QED
    BY <1>1, <1>2, <1>3, ChainLoads

(* The file can be read back at every step, whatever stops the process,     *)
(* and a store that has not failed is true to its file.                     *)
THEOREM FilesAreSound == Spec => []FileIsSound
  <1>1. FileInv => FileIsSound
    <2> SUFFICES ASSUME FileInv
                 PROVE  FileIsSound
      OBVIOUS
    <2>1. AlwaysLoads
      BY BoundsAssumption, Found DEF AlwaysLoads
    <2>2. MemoryMirrorsFile
      BY SelectionIsSel DEF FileInv, Frames, Idle, Mirrors, MemoryMirrorsFile
    <2> QED
      BY <2>1, <2>2 DEF FileInv, FileIsSound
  <1> QED
    BY <1>1, FileHolds, PTL

(* What was told of a record is in the part that all files have in common.  *)
LEMMA KeptIsFound ==
  ASSUME BoundsAssumption, FileInv
  PROVE  ReturnedIsKept
  <1> SUFFICES ASSUME NEW f \in MayFind, NEW x \in Returned(told)
               PROVE  x \in Elements(f.ids)
    BY DEF ReturnedIsKept, Returned
  <1>1. PICK k \in 0..Len(disk.ids) : Common(k, cache.ids, disk.ids) /\ Holds(k, told, disk.ids)
    BY DEF FileInv, Kept
  <1>2. PICK i \in 1..k : disk.ids[i] = x
    BY <1>1 DEF Holds
  <1>3. Common(k, cache.ids \o buffer, disk.ids) /\ k \in Nat
    <2>1. k \in Nat
      BY <1>1, FileFacts
    <2> QED
      BY <1>1, <2>1, FlushFacts, Zenon
  <1>4. k <= Len(f.ids) /\ \A j \in 1..k : f.ids[j] = disk.ids[j]
    <2>1. CASE f \in Between(disk, cache)
      BY <1>1, <1>3, <2>1, FileFacts, BetweenKeeps DEF Common
    <2>2. CASE f \in Between(disk, Flushed(cache, buffer))
      BY <1>1, <1>3, <2>2, FileFacts, FlushFacts, BetweenKeeps DEF Common
    <2> QED
      BY <2>1, <2>2 DEF MayFind
  <1>5. f.ids \in Seq(Lines) /\ Len(f.ids) \in Nat
    BY Found, FileType
  <1> QED
    BY <1>2, <1>4, <1>5 DEF Elements

(* A removal that succeeds leaves what the store reports and nothing else.  *)
LEMMA RemovalCompletes ==
  ASSUME BoundsAssumption, FileInv, [Next]_vars,
         pc = "cleansync", pc' = "idle", faults' = faults, op.id # Root
  PROVE  Candidates' = {committed'}
  <1>1. Cleaned
    <2>1. faults \in Nat
      BY BoundsAre DEF FileInv, TypeOK
    <2> QED
      BY <2>1 DEF Next, Load, Step, Call, vars, OpenNew, OpenSaved, OpenRefused, Trim, TrimSync,
         TrimFails, PartlyFlushed, FlushedAll, Synced, SyncedAgain, FlushFails, SyncFails, Seek,
         Truncate, CleanupFails, Fault, CloseStream, BeginTurn, AppendMessage, AppendRefused,
         Commit, Abort, Checkpoint, Fork, Close, Kill, PowerLoss, Closed
  <1>2. buffer = <<>> /\ cache = op.offset /\ committed = Sel(rec, op.offset.ids)
    BY <1>1 DEF Cleaned, FileInv, Frames, RemovalFrame, Removing
  <1>3. disk' = cache /\ cache' = cache /\ buffer' = <<>> /\ rec' = rec /\ committed' = committed
    BY <1>1, <1>2 DEF Cleaned, memory
  <1>4. MayFind' = {cache}
    BY <1>3, FileFacts, BetweenSame DEF MayFind, Flushed
  <1>5. Selection(cache)' = Sel(rec, cache.ids)
    BY <1>3 DEF Selection, Sel, Marks, Pick
  <1> QED
    BY <1>2, <1>3, <1>4, <1>5 DEF Candidates

(* A record somebody was given is in every file a reopening may find, and a *)
(* selection that was taken back in none.                                   *)
THEOREM OutcomesHold == Spec => OutcomeHolds
  <1>1. FileInv => ReturnedIsKept
    BY BoundsAssumption, KeptIsFound
  <1>2. FileInv /\ [Next]_vars =>
          [pc = "cleansync" /\ pc' = "idle" /\ faults' = faults /\ op.id # Root
             => Candidates' = {committed'}]_vars
    BY BoundsAssumption, RemovalCompletes
  <1>3. Spec => []ReturnedIsKept
    BY <1>1, FileHolds, PTL
  <1>4. Spec => RemovalIsComplete
    BY <1>2, FileHolds, PTL DEF Spec, RemovalIsComplete
  <1> QED
    BY <1>3, <1>4 DEF OutcomeHolds

------------------------------------------------------------------------------
(* Branches: UpOf(r) is the function Branch walks.                          *)
UpOf(r) ==
  LET up[i \in Ids] ==
        IF i = Root THEN {Root} ELSE {i} \cup up[r[i].parent]
  IN up
Walk(r, i) == UpOf(r)[i]

LEMMA BranchIsWalk ==
  ASSUME NEW i
  PROVE  Branch(i) = Walk(rec, i)
  BY DEF Branch, Walk, UpOf

Rooted(r) == \A i \in Ids : r[i].parent \in Ids /\ (i # Root => r[i].parent < i)

(* The function exists: the smallest sets closed under "parent of".         *)
Upward(r, S) == \A k \in S : k # Root => r[k].parent \in S
Ancestors(r, i) == {j \in Ids : \A S \in SUBSET Ids : i \in S /\ Upward(r, S) => j \in S}

LEMMA AncestorsUp ==
  ASSUME NEW r, Rooted(r), NEW i \in Ids, Root \in Ids
  PROVE  Ancestors(r, i) = IF i = Root THEN {Root} ELSE {i} \cup Ancestors(r, r[i].parent)
  <1> DEFINE p == r[i].parent
             A == Ancestors(r, i)
             B == Ancestors(r, p)
  <1>1. p \in Ids
    BY DEF Rooted
  <1>2. i \in A
    BY DEF Ancestors
  <1>3. CASE i = Root
    <2>1. {Root} \in SUBSET Ids /\ i \in {Root} /\ Upward(r, {Root})
      BY <1>3 DEF Upward
    <2>2. A \subseteq {Root}
      BY <2>1 DEF Ancestors
    <2> QED
      BY <1>2, <1>3, <2>2
  <1>4. CASE i # Root
    <2>1. B \subseteq A
      <3> SUFFICES ASSUME NEW j \in B, NEW S \in SUBSET Ids, i \in S, Upward(r, S)
                   PROVE  j \in S
        BY DEF Ancestors
      <3>1. p \in S
        BY <1>4 DEF Upward
      <3> QED
        BY <3>1 DEF Ancestors
    <2>2. {i} \cup B \in SUBSET Ids /\ i \in {i} \cup B
      BY DEF Ancestors
    <2>3. p \in B
      BY <1>1 DEF Ancestors
    <2>4. ASSUME NEW k \in B, k # Root
          PROVE  r[k].parent \in B
      <3>1. r[k].parent \in Ids
        BY DEF Ancestors, Rooted
      <3> SUFFICES ASSUME NEW S \in SUBSET Ids, p \in S, Upward(r, S)
                   PROVE  r[k].parent \in S
        BY <3>1 DEF Ancestors
      <3>2. k \in S
        BY DEF Ancestors
      <3> QED
        BY <2>4, <3>2 DEF Upward
    <2>5. Upward(r, {i} \cup B)
      BY <2>3, <2>4 DEF Upward
    <2>6. A \subseteq {i} \cup B
      <3> SUFFICES ASSUME NEW j \in A
                   PROVE  j \in {i} \cup B
        OBVIOUS
      <3>1. \A S \in SUBSET Ids : i \in S /\ Upward(r, S) => j \in S
        BY DEF Ancestors
      <3> HIDE DEF B
      <3> QED
        BY <2>2, <2>5, <3>1
    <2> QED
      BY <1>2, <1>4, <2>1, <2>6
  <1> QED
    BY <1>3, <1>4

LEMMA UpIs ==
  ASSUME NEW r, Rooted(r), Root \in Ids
  PROVE  UpOf(r) = [i \in Ids |-> IF i = Root THEN {Root} ELSE {i} \cup UpOf(r)[r[i].parent]]
  <1> DEFINE P(u) == u = [i \in Ids |-> IF i = Root THEN {Root} ELSE {i} \cup u[r[i].parent]]
             f == [i \in Ids |-> Ancestors(r, i)]
  <1>1. P(f)
    <2>1. \A i \in Ids : f[i] = IF i = Root THEN {Root} ELSE {i} \cup f[r[i].parent]
      <3> TAKE i \in Ids
      <3>1. r[i].parent \in Ids
        BY DEF Rooted
      <3> QED
        BY <3>1, AncestorsUp
    <2> QED
      BY <2>1
  <1>2. \E u : P(u)
    <2> HIDE DEF P
    <2> QED
      BY <1>1
  <1>3. UpOf(r) = CHOOSE u : P(u)
    BY DEF UpOf
  <1>4. P(CHOOSE u : P(u))
    <2> HIDE DEF P
    <2> QED
      BY <1>2, Zenon
  <1> QED
    BY <1>3, <1>4

LEMMA WalkStep ==
  ASSUME NEW r, Rooted(r), NEW i \in Ids, Root \in Ids
  PROVE  Walk(r, i) = IF i = Root THEN {Root} ELSE {i} \cup Walk(r, r[i].parent)
  <1>1. UpOf(r) = [j \in Ids |-> IF j = Root THEN {Root} ELSE {j} \cup UpOf(r)[r[j].parent]]
    BY UpIs
  <1> DEFINE u == UpOf(r)
  <1>2. u[i] = IF i = Root THEN {Root} ELSE {i} \cup u[r[i].parent]
    <2> HIDE DEF u
    <2>1. u = [j \in Ids |-> IF j = Root THEN {Root} ELSE {j} \cup u[r[j].parent]]
      BY <1>1 DEF u
    <2> QED
      BY <2>1
  <1> QED
    BY <1>2 DEF Walk

(* A branch holds nothing made after its end.                               *)
LEMMA WalkBelow ==
  ASSUME BoundsAssumption, NEW r, Rooted(r), NEW i \in Ids
  PROVE  Walk(r, i) \subseteq 0..i /\ i \in Walk(r, i)
  <1> USE BoundsAre, NoOpType DEF Ids, Root
  <1> DEFINE Bad == {k \in Ids : ~(Walk(r, k) \subseteq 0..k)}
  <1>1. Bad = {}
    <2> SUFFICES ASSUME Bad # {}
                 PROVE  FALSE
      OBVIOUS
    <2>1. Bad \in SUBSET Nat
      OBVIOUS
    <2>2. PICK k \in Bad : \A y \in Bad : k <= y
      BY <2>1, Least
    <2>3. k \in Ids /\ ~(Walk(r, k) \subseteq 0..k)
      OBVIOUS
    <2>4. k # Root
      BY <2>3, WalkStep
    <2>5. r[k].parent \in Ids /\ r[k].parent < k
      BY <2>3, <2>4 DEF Rooted
    <2>6. r[k].parent \notin Bad
      BY <2>2, <2>5
    <2>7. Walk(r, r[k].parent) \subseteq 0..(r[k].parent)
      BY <2>5, <2>6
    <2>8. Walk(r, k) = {k} \cup Walk(r, r[k].parent)
      BY <2>3, <2>4, WalkStep
    <2> QED
      BY <2>3, <2>5, <2>7, <2>8
  <1>2. i \in Walk(r, i)
    BY WalkStep
  <1> QED
    BY <1>1, <1>2

(* Records made later change no branch.                                     *)
LEMMA WalkSame ==
  ASSUME BoundsAssumption, NEW r, Rooted(r), NEW q, Rooted(q), NEW n \in Nat,
         \A i \in Ids : i < n => q[i] = r[i], NEW x \in Ids, x < n
  PROVE  Walk(q, x) = Walk(r, x)
  <1> USE BoundsAre, NoOpType DEF Ids, Root
  <1> DEFINE Bad == {k \in Ids : k < n /\ Walk(q, k) # Walk(r, k)}
  <1>1. Bad = {}
    <2> SUFFICES ASSUME Bad # {}
                 PROVE  FALSE
      OBVIOUS
    <2>1. Bad \in SUBSET Nat
      OBVIOUS
    <2>2. PICK k \in Bad : \A y \in Bad : k <= y
      BY <2>1, Least
    <2>3. k \in Ids /\ k < n /\ Walk(q, k) # Walk(r, k)
      OBVIOUS
    <2>4. k # Root
      BY <2>3, WalkStep
    <2>5. r[k].parent \in Ids /\ r[k].parent < k /\ q[k].parent = r[k].parent
      BY <2>3, <2>4 DEF Rooted
    <2>6. r[k].parent \notin Bad
      BY <2>2, <2>5
    <2>7. Walk(q, r[k].parent) = Walk(r, r[k].parent)
      BY <2>3, <2>5, <2>6
    <2>8. /\ Walk(r, k) = {k} \cup Walk(r, r[k].parent)
          /\ Walk(q, k) = {k} \cup Walk(q, q[k].parent)
      BY <2>3, <2>4, WalkStep
    <2> QED
      BY <2>3, <2>5, <2>7, <2>8
  <1> QED
    BY <1>1

------------------------------------------------------------------------------
(* Turns                                                                    *)
Messages(r, t) == {j \in Ids : r[j].kind = "message" /\ r[j].turn = t}

(* The turn of record i is on b with its commit and all of its messages.    *)
Whole(r, b, i) ==
  /\ \E c \in b : r[c].kind = "turn_commit" /\ r[c].turn = r[i].turn
  /\ Messages(r, r[i].turn) \subseteq b
WholeBranch(r, d) == \A i \in Walk(r, d) : r[i].kind = "message" => Whole(r, Walk(r, d), i)

(* Whatever can be selected is whole.                                       *)
AllWhole(r, n) == \A d \in 0..(n - 1) : Selectable(r, d) => WholeBranch(r, d)

Counted ==
  /\ turn # 0 => turn = begun
  /\ \A i \in Ids : rec[i].turn <= begun
  /\ \A i \in Ids : rec[i].kind = "message" => rec[i].turn # 0

(* What the working branch ends with once the operation under way is over.  *)
Tip == IF op.kind \in Durable THEN op.previous ELSE head

(* The working branch: whole turns and the open one.                        *)
TipWhole ==
  \A i \in Walk(rec, Tip) :
    rec[i].kind = "message" => rec[i].turn = turn \/ Whole(rec, Walk(rec, Tip), i)

(* An open turn has all its messages on it, unless an operation of it       *)
(* failed, and no commit.                                                   *)
TurnOpen ==
  turn # 0 /\ ~broken =>
    /\ \A j \in Messages(rec, turn) : j \in Walk(rec, Tip) \/ (op.kind = "message" /\ j = op.id)
    /\ op.kind # "turn_commit" =>
         \A c \in Ids : rec[c].kind = "turn_commit" => rec[c].turn # turn

(* Beyond the selected branch it is the open turn's messages, all saved.    *)
TipSaved ==
  /\ \A i \in Walk(rec, Tip) \ Walk(rec, committed) :
       i \in entries /\ rec[i].kind = "message" /\ rec[i].turn = turn
  /\ Selectable(rec, committed) /\ committed < nextId /\ Tip < nextId

(* The operation under way belongs where it is written.                     *)
Making ==
  /\ op.kind = "message" => turn # 0 /\ ~broken /\ rec[op.id].turn = turn
  /\ op.kind = "turn_commit" /\ Writing =>
       turn # 0 /\ ~broken /\ rec[op.id].turn = turn /\ rec[op.id].parent = op.previous
  /\ op.kind = "turn_commit" /\ Removing => broken
  /\ op.kind = "state" /\ Writing => rec[op.id].parent = committed /\ op.id # op.previous
  /\ op.kind = "select" /\ (Writing \/ Removing) => turn = 0
  /\ op.kind = "select" /\ Writing => Selectable(rec, rec[op.id].target)

TurnInv == Counted /\ AllWhole(rec, nextId) /\ TipWhole /\ TurnOpen /\ TipSaved /\ Making

LEMMA MadeRooted ==
  ASSUME BoundsAssumption, NEW r \in [Lines -> Record], NEW n \in 1..(MaxId + 1), Made(r, n)
  PROVE  Rooted(r)
  <1>1. MaxId \in Nat /\ Root \in Ids
    BY BoundsAre, NoOpType
  <1>2. ASSUME NEW i \in Ids
        PROVE  r[i].parent \in Ids /\ (i # Root => r[i].parent < i)
    <2>1. r[i] \in Record /\ i \in Nat
      BY <1>1 DEF Lines, Ids
    <2>2. CASE i >= n
      <3>1. r[i].parent = Root
        BY <1>1, <2>2 DEF Made, Lines, Header
      <3> QED
        BY <1>1, <2>1, <2>2, <3>1 DEF Root
    <2>3. CASE i # Root /\ i < n
      <3>1. i \in 1..(n - 1)
        BY <1>1, <2>1, <2>3 DEF Root
      <3> QED
        BY <1>1, <2>1, <3>1 DEF Made, Record
    <2>4. CASE i = Root
      BY <1>1, <2>4 DEF Made, Header
    <2> QED
      BY <1>1, <2>1, <2>2, <2>3, <2>4
  <1> QED
    BY <1>2 DEF Rooted

LEMMA RootedRec ==
  ASSUME BoundsAssumption, FileInv
  PROVE  Rooted(rec) /\ rec \in [Lines -> Record] /\ nextId \in 1..(MaxId + 1) /\ MaxId \in Nat
         /\ rec[Root] = Header /\ Root \in Ids
         /\ \A i \in 0..(nextId - 1) : i \in Ids
  <1>1. /\ rec \in [Lines -> Record] /\ nextId \in 1..(MaxId + 1) /\ Made(rec, nextId)
        /\ MaxId \in Nat /\ Root \in Ids
    BY BoundsAre, NoOpType DEF FileInv, TypeOK
  <1>2. Rooted(rec)
    BY <1>1, MadeRooted
  <1> QED
    BY <1>1, <1>2 DEF Made, Ids

LEMMA InitTurnInv ==
  ASSUME BoundsAssumption, Init
  PROVE  TurnInv
  <1>1. /\ \A i \in Lines : rec[i] = Header
        /\ turn = 0 /\ begun = 0 /\ head = Root /\ committed = Root /\ nextId = 1
        /\ op = NoOp /\ pc = "closed"
    BY DEF Init
  <1>2. \A i \in Ids : rec[i].kind = "session" /\ rec[i].turn = 0 /\ rec[i].parent = Root
    BY <1>1 DEF Header, Lines
  <1>3. Rooted(rec) /\ Root \in Ids
    BY <1>2, BoundsAre, NoOpType DEF Rooted, Ids, Root
  <1>4. Walk(rec, Root) = {Root}
    BY <1>3, WalkStep
  <1>5. op.kind = "none" /\ Tip = Root
    BY <1>1, NoOpType DEF Tip, Durable
  <1>6. Counted
    BY <1>1, <1>2 DEF Counted
  <1>7. AllWhole(rec, nextId)
    <2>1. \A d \in 0..(nextId - 1) : d = Root
      BY <1>1 DEF Root
    <2> QED
      BY <1>2, <1>3, <1>4, <2>1 DEF AllWhole, WholeBranch
  <1>8. TipWhole /\ TurnOpen
    BY <1>1, <1>2, <1>3, <1>4, <1>5 DEF TipWhole, TurnOpen
  <1>9. TipSaved
    BY <1>1, <1>2, <1>3, <1>4, <1>5 DEF TipSaved, Selectable, Root
  <1>10. Making
    BY <1>5 DEF Making
  <1> QED
    BY <1>6, <1>7, <1>8, <1>9, <1>10 DEF TurnInv

(* Steps that leave the turns and the working branch alone.                 *)
LEMMA TurnKept ==
  ASSUME BoundsAssumption, FileInv, TurnInv,
         rec' = rec, nextId' = nextId, turn' = turn, begun' = begun, Tip' = Tip,
         committed' = committed, broken => broken',
         \A i \in entries : rec[i].kind = "message" => i \in entries',
         \/ op' = op
         \/ turn # 0 /\ ~broken' => /\ op.kind # "message"
                                    /\ op'.kind # "turn_commit" => op.kind # "turn_commit",
         Making'
  PROVE  TurnInv'
  <1>1. Counted'
    BY DEF TurnInv, Counted
  <1>2. AllWhole(rec, nextId)'
    BY DEF TurnInv
  <1>3. TipWhole'
    BY DEF TurnInv, TipWhole
  <1>4. TurnOpen'
    BY DEF TurnInv, TurnOpen
  <1>5. TipSaved'
    BY DEF TurnInv, TipSaved
  <1> QED
    BY <1>1, <1>2, <1>3, <1>4, <1>5 DEF TurnInv

(* Steps after which the working branch is a selected one and no turn open. *)
LEMMA TurnSelected ==
  ASSUME BoundsAssumption, FileInv, TurnInv,
         rec' = rec, nextId' = nextId, turn' = 0, begun' = begun, op' = NoOp,
         head' = committed', committed' \in 0..(nextId - 1), Selectable(rec, committed')
  PROVE  TurnInv'
  <1>1. Counted'
    BY DEF TurnInv, Counted
  <1>2. AllWhole(rec, nextId)'
    BY DEF TurnInv
  <1>3. op'.kind = "none" /\ Tip' = committed'
    BY NoOpType DEF Tip, Durable
  <1>4. TipWhole'
    <2>1. WholeBranch(rec, committed')
      BY DEF TurnInv, AllWhole
    <2> QED
      BY <1>3, <2>1 DEF TipWhole, WholeBranch
  <1>5. TurnOpen'
    BY DEF TurnOpen
  <1>6. TipSaved'
    <2>1. committed' < nextId
      BY RootedRec
    <2> QED
      BY <1>3, <2>1 DEF TipSaved
  <1>7. Making'
    BY <1>3 DEF Making
  <1> QED
    BY <1>1, <1>2, <1>4, <1>5, <1>6, <1>7 DEF TurnInv

LEMMA ClosedTurn ==
  ASSUME BoundsAssumption, FileInv, TurnInv, Closed
  PROVE  TurnInv'
  <1>1. Root \in 0..(nextId - 1) /\ Selectable(rec, Root)
    BY RootedRec DEF Selectable, Header, Root
  <1> QED
    BY <1>1, TurnSelected DEF Closed

(* A loaded selection.                                                      *)
LEMMA OpenedTurn ==
  ASSUME BoundsAssumption, FileInv, TurnInv, cache.ids # <<>>, Opened(cache),
         rec' = rec, nextId' = nextId, turn' = 0, begun' = begun
  PROVE  TurnInv'
  <1>1. committed' = Sel(rec, cache.ids) /\ head' = committed' /\ op' = NoOp
    BY Opening DEF Opened, Return
  <1>2. committed' \in 0..(nextId - 1) /\ Selectable(rec, committed')
    BY <1>1, Opening
  <1> QED
    BY <1>1, <1>2, TurnSelected

LEMMA UnchangedTurn ==
  ASSUME BoundsAssumption, FileInv, TurnInv, UNCHANGED vars
  PROVE  TurnInv'
  <1> USE DEF file, memory, client, bounds
  <1>1. Tip' = Tip
    BY NoOpType DEF Tip, Durable, FileInv, Frames, Places, RemovalFrame, Removing, vars
  <1>2. Making'
    BY NoOpType DEF TurnInv, Making, Writing, Removing, Durable, vars
  <1>3. \/ op' = op
        \/ turn # 0 /\ ~broken' => /\ op.kind # "message"
                                   /\ op'.kind # "turn_commit" => op.kind # "turn_commit"
    BY NoOpType DEF TurnInv, Making, Removing, Durable, FileInv, Frames, Places, vars
  <1>4. \A i \in entries : rec[i].kind = "message" => i \in entries'
    BY NoOpType DEF Durable, FileInv, Frames, Places, vars
  <1>5. rec' = rec /\ nextId' = nextId /\ turn' = turn /\ begun' = begun
        /\ committed' = committed /\ (broken => broken')
    BY NoOpType DEF vars
  <1> QED
    BY <1>1, <1>2, <1>3, <1>4, <1>5, TurnKept

LEMMA TrimTurn ==
  ASSUME BoundsAssumption, FileInv, TurnInv, Trim
  PROVE  TurnInv'
  <1> USE DEF file, memory, client, bounds
  <1>1. Tip' = Tip
    BY NoOpType DEF Tip, Durable, FileInv, Frames, Places, RemovalFrame, Removing, Trim
  <1>2. Making'
    BY NoOpType DEF TurnInv, Making, Writing, Removing, Durable, Trim
  <1>3. \/ op' = op
        \/ turn # 0 /\ ~broken' => /\ op.kind # "message"
                                   /\ op'.kind # "turn_commit" => op.kind # "turn_commit"
    BY NoOpType DEF TurnInv, Making, Removing, Durable, FileInv, Frames, Places, Trim
  <1>4. \A i \in entries : rec[i].kind = "message" => i \in entries'
    BY NoOpType DEF Durable, FileInv, Frames, Places, Trim
  <1>5. rec' = rec /\ nextId' = nextId /\ turn' = turn /\ begun' = begun
        /\ committed' = committed /\ (broken => broken')
    BY NoOpType DEF Trim
  <1> QED
    BY <1>1, <1>2, <1>3, <1>4, <1>5, TurnKept

LEMMA PartlyFlushedTurn ==
  ASSUME BoundsAssumption, FileInv, TurnInv, PartlyFlushed
  PROVE  TurnInv'
  <1> USE DEF file, memory, client, bounds
  <1>1. Tip' = Tip
    BY NoOpType DEF Tip, Durable, FileInv, Frames, Places, RemovalFrame, Removing, PartlyFlushed
  <1>2. Making'
    BY NoOpType DEF TurnInv, Making, Writing, Removing, Durable, PartlyFlushed
  <1>3. \/ op' = op
        \/ turn # 0 /\ ~broken' => /\ op.kind # "message"
                                   /\ op'.kind # "turn_commit" => op.kind # "turn_commit"
    BY NoOpType DEF TurnInv, Making, Removing, Durable, FileInv, Frames, Places, PartlyFlushed
  <1>4. \A i \in entries : rec[i].kind = "message" => i \in entries'
    BY NoOpType DEF Durable, FileInv, Frames, Places, PartlyFlushed
  <1>5. rec' = rec /\ nextId' = nextId /\ turn' = turn /\ begun' = begun
        /\ committed' = committed /\ (broken => broken')
    BY NoOpType DEF PartlyFlushed
  <1> QED
    BY <1>1, <1>2, <1>3, <1>4, <1>5, TurnKept

LEMMA FlushedAllTurn ==
  ASSUME BoundsAssumption, FileInv, TurnInv, FlushedAll
  PROVE  TurnInv'
  <1> USE DEF file, memory, client, bounds
  <1>1. Tip' = Tip
    BY NoOpType DEF Tip, Durable, FileInv, Frames, Places, RemovalFrame, Removing, FlushedAll
  <1>2. Making'
    BY NoOpType DEF TurnInv, Making, Writing, Removing, Durable, FlushedAll
  <1>3. \/ op' = op
        \/ turn # 0 /\ ~broken' => /\ op.kind # "message"
                                   /\ op'.kind # "turn_commit" => op.kind # "turn_commit"
    BY NoOpType DEF TurnInv, Making, Removing, Durable, FileInv, Frames, Places, FlushedAll
  <1>4. \A i \in entries : rec[i].kind = "message" => i \in entries'
    BY NoOpType DEF Durable, FileInv, Frames, Places, FlushedAll
  <1>5. rec' = rec /\ nextId' = nextId /\ turn' = turn /\ begun' = begun
        /\ committed' = committed /\ (broken => broken')
    BY NoOpType DEF FlushedAll
  <1> QED
    BY <1>1, <1>2, <1>3, <1>4, <1>5, TurnKept

LEMMA SeekTurn ==
  ASSUME BoundsAssumption, FileInv, TurnInv, Seek
  PROVE  TurnInv'
  <1> USE DEF file, memory, client, bounds
  <1>1. Tip' = Tip
    BY NoOpType DEF Tip, Durable, FileInv, Frames, Places, RemovalFrame, Removing, Seek
  <1>2. Making'
    BY NoOpType DEF TurnInv, Making, Writing, Removing, Durable, Seek
  <1>3. \/ op' = op
        \/ turn # 0 /\ ~broken' => /\ op.kind # "message"
                                   /\ op'.kind # "turn_commit" => op.kind # "turn_commit"
    BY NoOpType DEF TurnInv, Making, Removing, Durable, FileInv, Frames, Places, Seek
  <1>4. \A i \in entries : rec[i].kind = "message" => i \in entries'
    BY NoOpType DEF Durable, FileInv, Frames, Places, Seek
  <1>5. rec' = rec /\ nextId' = nextId /\ turn' = turn /\ begun' = begun
        /\ committed' = committed /\ (broken => broken')
    BY NoOpType DEF Seek
  <1> QED
    BY <1>1, <1>2, <1>3, <1>4, <1>5, TurnKept

LEMMA TruncateTurn ==
  ASSUME BoundsAssumption, FileInv, TurnInv, Truncate
  PROVE  TurnInv'
  <1> USE DEF file, memory, client, bounds
  <1>1. Tip' = Tip
    BY NoOpType DEF Tip, Durable, FileInv, Frames, Places, RemovalFrame, Removing, Truncate
  <1>2. Making'
    BY NoOpType DEF TurnInv, Making, Writing, Removing, Durable, Truncate
  <1>3. \/ op' = op
        \/ turn # 0 /\ ~broken' => /\ op.kind # "message"
                                   /\ op'.kind # "turn_commit" => op.kind # "turn_commit"
    BY NoOpType DEF TurnInv, Making, Removing, Durable, FileInv, Frames, Places, Truncate
  <1>4. \A i \in entries : rec[i].kind = "message" => i \in entries'
    BY NoOpType DEF Durable, FileInv, Frames, Places, Truncate
  <1>5. rec' = rec /\ nextId' = nextId /\ turn' = turn /\ begun' = begun
        /\ committed' = committed /\ (broken => broken')
    BY NoOpType DEF Truncate
  <1> QED
    BY <1>1, <1>2, <1>3, <1>4, <1>5, TurnKept

LEMMA CloseTurn ==
  ASSUME BoundsAssumption, FileInv, TurnInv, Close
  PROVE  TurnInv'
  <1> USE DEF file, memory, client, bounds
  <1>1. Tip' = Tip
    BY NoOpType DEF Tip, Durable, FileInv, Frames, Places, RemovalFrame, Removing, Close
  <1>2. Making'
    BY NoOpType DEF TurnInv, Making, Writing, Removing, Durable, Close
  <1>3. \/ op' = op
        \/ turn # 0 /\ ~broken' => /\ op.kind # "message"
                                   /\ op'.kind # "turn_commit" => op.kind # "turn_commit"
    BY NoOpType DEF TurnInv, Making, Removing, Durable, FileInv, Frames, Places, Close
  <1>4. \A i \in entries : rec[i].kind = "message" => i \in entries'
    BY NoOpType DEF Durable, FileInv, Frames, Places, Close
  <1>5. rec' = rec /\ nextId' = nextId /\ turn' = turn /\ begun' = begun
        /\ committed' = committed /\ (broken => broken')
    BY NoOpType DEF Close
  <1> QED
    BY <1>1, <1>2, <1>3, <1>4, <1>5, TurnKept

LEMMA OpenNewTurn ==
  ASSUME BoundsAssumption, FileInv, TurnInv, OpenNew
  PROVE  TurnInv'
  <1> USE DEF file, memory, client, bounds
  <1>1. Tip' = Tip
    BY NoOpType DEF Tip, Durable, FileInv, Frames, Places, RemovalFrame, Removing, OpenNew
  <1>2. Making'
    BY NoOpType DEF TurnInv, Making, Writing, Removing, Durable, OpenNew
  <1>3. \/ op' = op
        \/ turn # 0 /\ ~broken' => /\ op.kind # "message"
                                   /\ op'.kind # "turn_commit" => op.kind # "turn_commit"
    BY NoOpType DEF TurnInv, Making, Removing, Durable, FileInv, Frames, Places, OpenNew
  <1>4. \A i \in entries : rec[i].kind = "message" => i \in entries'
    BY NoOpType DEF Durable, FileInv, Frames, Places, OpenNew
  <1>5. rec' = rec /\ nextId' = nextId /\ turn' = turn /\ begun' = begun
        /\ committed' = committed /\ (broken => broken')
    BY NoOpType DEF OpenNew
  <1> QED
    BY <1>1, <1>2, <1>3, <1>4, <1>5, TurnKept

LEMMA AppendRefusedTurn ==
  ASSUME BoundsAssumption, FileInv, TurnInv, AppendRefused
  PROVE  TurnInv'
  <1> USE DEF file, memory, client, bounds
  <1>0. op = NoOp
    BY DEF FileInv, Frames, Places, AppendRefused
  <1>1. Tip' = Tip
    BY <1>0, NoOpType DEF Tip, Durable, FileInv, Frames, Places, RemovalFrame, Removing, AppendRefused
  <1>2. Making'
    BY <1>0, NoOpType DEF TurnInv, Making, Writing, Removing, Durable, AppendRefused
  <1>3. \/ op' = op
        \/ turn # 0 /\ ~broken' => /\ op.kind # "message"
                                   /\ op'.kind # "turn_commit" => op.kind # "turn_commit"
    BY <1>0, NoOpType DEF TurnInv, Making, Removing, Durable, FileInv, Frames, Places, AppendRefused
  <1>4. \A i \in entries : rec[i].kind = "message" => i \in entries'
    BY <1>0, NoOpType DEF Durable, FileInv, Frames, Places, AppendRefused
  <1>5. rec' = rec /\ nextId' = nextId /\ turn' = turn /\ begun' = begun
        /\ committed' = committed /\ (broken => broken')
    BY <1>0, NoOpType DEF AppendRefused
  <1> QED
    BY <1>1, <1>2, <1>3, <1>4, <1>5, TurnKept

LEMMA CleanedTurn ==
  ASSUME BoundsAssumption, FileInv, TurnInv, Cleaned
  PROVE  TurnInv'
  <1> USE DEF file, memory, client, bounds
  <1>0. /\ Removing /\ op.kind \in Durable /\ op.previous = head
        /\ op.kind = "turn_commit" => broken
        /\ op' = NoOp /\ pc' = "idle"
    BY Kind DEF Removing, Return, TurnInv, Making, FileInv, Frames, RemovalFrame, Cleaned
  <1>1. Tip' = Tip
    BY <1>0, NoOpType DEF Tip, Durable, FileInv, Frames, Places, RemovalFrame, Removing, Cleaned, Return
  <1>2. Making'
    BY <1>0, NoOpType DEF TurnInv, Making, Writing, Removing, Durable, Cleaned, Return
  <1>3. \/ op' = op
        \/ turn # 0 /\ ~broken' => /\ op.kind # "message"
                                   /\ op'.kind # "turn_commit" => op.kind # "turn_commit"
    BY <1>0, NoOpType DEF TurnInv, Making, Removing, Durable, FileInv, Frames, Places, Cleaned, Return
  <1>4. \A i \in entries : rec[i].kind = "message" => i \in entries'
    BY <1>0, NoOpType DEF Durable, FileInv, Frames, Places, Cleaned, Return
  <1>5. rec' = rec /\ nextId' = nextId /\ turn' = turn /\ begun' = begun
        /\ committed' = committed /\ (broken => broken')
    BY <1>0, NoOpType DEF Cleaned, Return
  <1> QED
    BY <1>1, <1>2, <1>3, <1>4, <1>5, TurnKept

LEMMA CleanupFailsTurn ==
  ASSUME BoundsAssumption, FileInv, TurnInv, CleanupFails
  PROVE  TurnInv'
  <1> USE DEF file, memory, client, bounds
  <1>0. /\ Removing /\ op.kind \in Durable /\ op.previous = head
        /\ op.kind = "turn_commit" => broken
        /\ op' = NoOp /\ pc' = "idle"
    BY Kind DEF Removing, Return, TurnInv, Making, FileInv, Frames, RemovalFrame, CleanupFails
  <1>1. Tip' = Tip
    BY <1>0, NoOpType DEF Tip, Durable, FileInv, Frames, Places, RemovalFrame, Removing, CleanupFails, Return
  <1>2. Making'
    BY <1>0, NoOpType DEF TurnInv, Making, Writing, Removing, Durable, CleanupFails, Return
  <1>3. \/ op' = op
        \/ turn # 0 /\ ~broken' => /\ op.kind # "message"
                                   /\ op'.kind # "turn_commit" => op.kind # "turn_commit"
    BY <1>0, NoOpType DEF TurnInv, Making, Removing, Durable, FileInv, Frames, Places, CleanupFails, Return
  <1>4. \A i \in entries : rec[i].kind = "message" => i \in entries'
    BY <1>0, NoOpType DEF Durable, FileInv, Frames, Places, CleanupFails, Return
  <1>5. rec' = rec /\ nextId' = nextId /\ turn' = turn /\ begun' = begun
        /\ committed' = committed /\ (broken => broken')
    BY <1>0, NoOpType DEF CleanupFails, Return
  <1> QED
    BY <1>1, <1>2, <1>3, <1>4, <1>5, TurnKept

LEMMA FlushFailsTurn ==
  ASSUME BoundsAssumption, FileInv, TurnInv, FlushFails
  PROVE  TurnInv'
  <1> USE DEF file, memory, client, bounds
  <1>0. /\ Writing /\ op.kind \in Durable \cup {"message", "session"}
        /\ op.kind # "session" => op.kind = rec[op.id].kind
        /\ op.kind = "session" => pc' = "closing" /\ op' = op /\ head' = head
        /\ op.kind = "message" => pc' = "idle" /\ op' = NoOp /\ head' = head /\ broken'
        /\ op.kind \in Durable =>
             pc' = "seek" /\ op' = op /\ head' = op.previous
        /\ op.kind = "turn_commit" => broken'
        /\ entries' = IF op.kind \in Durable THEN entries \ {op.id} ELSE entries
    <2>1. Writing
      BY DEF FlushFails, Writing
    <2>2. op.kind \in Durable \cup {"message", "session"}
      BY <2>1, Kind
    <2>3. op.kind # "session" => op.kind = rec[op.id].kind
      BY <2>1 DEF FileInv, Frames, RecordFrame
    <2> QED
      BY <2>1, <2>2, <2>3 DEF FlushFails, Raise, Durable
  <1>1. Tip' = Tip
    BY <1>0, NoOpType DEF Tip, Durable, FileInv, Frames, Places, RemovalFrame, Removing, FlushFails, Raise
  <1>2. Making'
    BY <1>0, NoOpType DEF TurnInv, Making, Writing, Removing, Durable, FlushFails, Raise
  <1>3. \/ op' = op
        \/ turn # 0 /\ ~broken' => /\ op.kind # "message"
                                   /\ op'.kind # "turn_commit" => op.kind # "turn_commit"
    BY <1>0, NoOpType DEF TurnInv, Making, Removing, Durable, FileInv, Frames, Places, FlushFails, Raise
  <1>4. \A i \in entries : rec[i].kind = "message" => i \in entries'
    BY <1>0, NoOpType DEF Durable, FileInv, Frames, Places, FlushFails, Raise
  <1>5. rec' = rec /\ nextId' = nextId /\ turn' = turn /\ begun' = begun
        /\ committed' = committed /\ (broken => broken')
    BY <1>0, NoOpType DEF FlushFails, Raise
  <1> QED
    BY <1>1, <1>2, <1>3, <1>4, <1>5, TurnKept

LEMMA SyncFailsTurn ==
  ASSUME BoundsAssumption, FileInv, TurnInv, SyncFails
  PROVE  TurnInv'
  <1> USE DEF file, memory, client, bounds
  <1>0. /\ Writing /\ op.kind \in Durable \cup {"message", "session"}
        /\ op.kind # "session" => op.kind = rec[op.id].kind
        /\ op.kind = "session" => pc' = "closing" /\ op' = op /\ head' = head
        /\ op.kind = "message" => pc' = "idle" /\ op' = NoOp /\ head' = head /\ broken'
        /\ op.kind \in Durable =>
             pc' = "seek" /\ op' = op /\ head' = op.previous
        /\ op.kind = "turn_commit" => broken'
        /\ entries' = IF op.kind \in Durable THEN entries \ {op.id} ELSE entries
    <2>1. Writing
      BY DEF SyncFails, Writing
    <2>2. op.kind \in Durable \cup {"message", "session"}
      BY <2>1, Kind
    <2>3. op.kind # "session" => op.kind = rec[op.id].kind
      BY <2>1 DEF FileInv, Frames, RecordFrame
    <2> QED
      BY <2>1, <2>2, <2>3 DEF SyncFails, Raise, Durable
  <1>1. Tip' = Tip
    BY <1>0, NoOpType DEF Tip, Durable, FileInv, Frames, Places, RemovalFrame, Removing, SyncFails, Raise
  <1>2. Making'
    BY <1>0, NoOpType DEF TurnInv, Making, Writing, Removing, Durable, SyncFails, Raise
  <1>3. \/ op' = op
        \/ turn # 0 /\ ~broken' => /\ op.kind # "message"
                                   /\ op'.kind # "turn_commit" => op.kind # "turn_commit"
    BY <1>0, NoOpType DEF TurnInv, Making, Removing, Durable, FileInv, Frames, Places, SyncFails, Raise
  <1>4. \A i \in entries : rec[i].kind = "message" => i \in entries'
    BY <1>0, NoOpType DEF Durable, FileInv, Frames, Places, SyncFails, Raise
  <1>5. rec' = rec /\ nextId' = nextId /\ turn' = turn /\ begun' = begun
        /\ committed' = committed /\ (broken => broken')
    BY <1>0, NoOpType DEF SyncFails, Raise
  <1> QED
    BY <1>1, <1>2, <1>3, <1>4, <1>5, TurnKept

LEMMA UnserialisedTurn ==
  ASSUME BoundsAssumption, FileInv, TurnInv, NEW kind \in Durable, kind # "select",
         pc = "idle", ~failed, pc' = "seek", broken' = (broken \/ kind = "turn_commit"),
         op' = [kind |-> kind, id |-> Root, previous |-> head, offset |-> cache],
         UNCHANGED <<rec, nextId, file, memory, turn, begun, told, bounds>>
  PROVE  TurnInv'
  <1> USE DEF file, memory, client, bounds
  <1>1. Tip' = Tip
    BY NoOpType DEF Tip, Durable, FileInv, Frames, Places, RemovalFrame, Removing, Return
  <1>2. Making'
    BY NoOpType DEF TurnInv, Making, Writing, Removing, Durable, Return
  <1>3. \/ op' = op
        \/ turn # 0 /\ ~broken' => /\ op.kind # "message"
                                   /\ op'.kind # "turn_commit" => op.kind # "turn_commit"
    BY NoOpType DEF TurnInv, Making, Removing, Durable, FileInv, Frames, Places, Return
  <1>4. \A i \in entries : rec[i].kind = "message" => i \in entries'
    BY NoOpType DEF Durable, FileInv, Frames, Places, Return
  <1>5. rec' = rec /\ nextId' = nextId /\ turn' = turn /\ begun' = begun
        /\ committed' = committed /\ (broken => broken')
    BY NoOpType DEF Return
  <1> QED
    BY <1>1, <1>2, <1>3, <1>4, <1>5, TurnKept

LEMMA DurableRefusedTurn ==
  ASSUME BoundsAssumption, FileInv, TurnInv, NEW kind \in Durable, pc = "idle", kind = "select" => turn = 0,
         DurableRefused(kind)
  PROVE  TurnInv'
  <1> USE DEF file, memory, client, bounds
  <1>0. /\ op = NoOp /\ broken' = (broken \/ kind = "turn_commit")
        /\ \/ op' = op /\ pc' = "idle"
           \/ op'.kind = kind /\ op'.previous = head /\ pc' = "seek"
        /\ UNCHANGED <<turn, head>>
    BY DEF FileInv, Frames, Places, DurableRefused
  <1>1. Tip' = Tip
    BY <1>0, NoOpType DEF Tip, Durable, FileInv, Frames, Places, RemovalFrame, Removing, DurableRefused
  <1>2. Making'
    BY <1>0, NoOpType DEF TurnInv, Making, Writing, Removing, Durable, DurableRefused
  <1>3. \/ op' = op
        \/ turn # 0 /\ ~broken' => /\ op.kind # "message"
                                   /\ op'.kind # "turn_commit" => op.kind # "turn_commit"
    BY <1>0, NoOpType DEF TurnInv, Making, Removing, Durable, FileInv, Frames, Places, DurableRefused
  <1>4. \A i \in entries : rec[i].kind = "message" => i \in entries'
    BY <1>0, NoOpType DEF Durable, FileInv, Frames, Places, DurableRefused
  <1>5. rec' = rec /\ nextId' = nextId /\ turn' = turn /\ begun' = begun
        /\ committed' = committed /\ (broken => broken')
    BY <1>0, NoOpType DEF DurableRefused
  <1> QED
    BY <1>1, <1>2, <1>3, <1>4, <1>5, TurnKept

LEMMA WholeGrows ==
  ASSUME NEW r, NEW b, NEW c, b \subseteq c, NEW i, Whole(r, b, i)
  PROVE  Whole(r, c, i)
  BY DEF Whole

(* A saved message lengthens the working branch.                            *)
LEMMA SyncedTurn ==
  ASSUME BoundsAssumption, FileInv, TurnInv, Synced
  PROVE  TurnInv'
  <1> USE DEF file, memory, client, bounds
  <1>1. /\ pc = "fsync" /\ Writing /\ op.kind \in Durable \cup {"message", "session"}
        /\ "message" \notin Durable /\ "session" \notin Durable
    BY Kind DEF Synced, Writing
  <1>2. /\ rec' = rec /\ nextId' = nextId /\ turn' = turn /\ begun' = begun /\ broken' = broken
        /\ committed' = committed
    BY DEF Synced
  <1>3. CASE op.kind # "message"
    <2>1. op' = op /\ pc' = "sync" /\ entries \subseteq entries'
      BY <1>1, <1>3 DEF Synced
    <2>2. Tip' = Tip
      BY <1>1, <1>3, <2>1 DEF Tip, Synced
    <2>3. Making'
      BY <1>1, <1>2, <2>1 DEF TurnInv, Making, Writing, Removing
    <2> QED
      BY <1>2, <2>1, <2>2, <2>3, TurnKept
  <1>4. CASE op.kind = "message"
    <2>1. /\ op' = NoOp /\ pc' = "idle" /\ head' = op.id /\ entries' = entries \cup {op.id}
          /\ Tip = head /\ Tip' = op.id
      BY <1>1, <1>4, NoOpType DEF Synced, Return, Tip, Durable
    <2>2. /\ op.id \in 1..(nextId - 1) /\ rec[op.id].kind = "message" /\ rec[op.id].parent = Tip
          /\ turn # 0 /\ ~broken /\ rec[op.id].turn = turn
      BY <1>1, <1>4, <2>1 DEF FileInv, Frames, RecordFrame, TurnInv, Making
    <2>3. Walk(rec, op.id) = {op.id} \cup Walk(rec, Tip)
      <3>1. op.id \in Ids /\ op.id # Root
        BY <2>2, RootedRec DEF Root
      <3> QED
        BY <2>2, <3>1, RootedRec, WalkStep
    <2>4. Counted'
      BY <1>2 DEF TurnInv, Counted
    <2>5. AllWhole(rec, nextId)'
      BY <1>2 DEF TurnInv
    <2>6. TipWhole'
      <3> SUFFICES ASSUME NEW i \in Walk(rec, op.id), rec[i].kind = "message"
                   PROVE  rec[i].turn = turn \/ Whole(rec, Walk(rec, op.id), i)
        BY <1>2, <2>1 DEF TipWhole
      <3>1. CASE i = op.id
        BY <2>2, <3>1
      <3>2. CASE i \in Walk(rec, Tip)
        BY <2>3, <3>2, WholeGrows DEF TurnInv, TipWhole
      <3> QED
        BY <2>3, <3>1, <3>2
    <2>7. TurnOpen'
      BY <1>2, <1>4, <2>1, <2>3, NoOpType DEF TurnInv, TurnOpen
    <2>8. TipSaved'
      <3>1. op.id < nextId
        BY <2>2, RootedRec
      <3> QED
        BY <1>2, <2>1, <2>2, <2>3, <3>1 DEF TurnInv, TipSaved
    <2>9. Making'
      BY <2>1, NoOpType DEF Making
    <2> QED
      BY <2>4, <2>5, <2>6, <2>7, <2>8, <2>9 DEF TurnInv
  <1> QED
    BY <1>3, <1>4

(* An accepted checkpoint goes below the messages of the open turn.         *)
LEMMA StateTurn ==
  ASSUME BoundsAssumption, FileInv, TurnInv, SyncedAgain, op.kind = "state"
  PROVE  TurnInv'
  <1> USE DEF file, memory, client, bounds
  <1>1. pc = "sync" /\ Writing /\ "state" \in Durable /\ op.kind # "session"
    BY DEF SyncedAgain, Writing, Durable
  <1>2. /\ rec' = rec /\ nextId' = nextId /\ turn' = turn /\ begun' = begun /\ broken' = broken
        /\ committed' = op.id /\ entries' = entries /\ op' = NoOp /\ pc' = "idle"
        /\ head' = IF op.previous # committed THEN op.previous ELSE op.id
    BY <1>1 DEF SyncedAgain, Selected, Return
  <1>3. /\ Tip = op.previous /\ Tip' = head'
    BY <1>1, <1>2, NoOpType DEF Tip, Durable
  <1>4. /\ op.id \in 1..(nextId - 1) /\ rec[op.id].kind = "state"
        /\ rec[op.id].parent = committed /\ op.id # op.previous
    BY <1>1 DEF FileInv, Frames, RecordFrame, TurnInv, Making
  <1>5. Walk(rec, op.id) = {op.id} \cup Walk(rec, committed)
    <2>1. op.id \in Ids /\ op.id # Root
      BY <1>4, RootedRec DEF Root
    <2> QED
      BY <1>4, <2>1, RootedRec, WalkStep
  <1>6. Walk(rec, Tip) \subseteq Walk(rec, Tip') /\ (Tip' = Tip \/ Tip' = op.id)
    BY <1>2, <1>3, <1>5
  <1>7. Counted'
    BY <1>2 DEF TurnInv, Counted
  <1>8. AllWhole(rec, nextId)'
    BY <1>2 DEF TurnInv
  <1>9. TipWhole'
    <2> SUFFICES ASSUME NEW i \in Walk(rec, Tip'), rec[i].kind = "message"
                 PROVE  rec[i].turn = turn \/ Whole(rec, Walk(rec, Tip'), i)
      BY <1>2 DEF TipWhole
    <2>1. i \in Walk(rec, Tip)
      BY <1>2, <1>3, <1>4, <1>5
    <2> QED
      BY <1>6, <2>1, WholeGrows DEF TurnInv, TipWhole
  <1>10. TurnOpen'
    <2> SUFFICES ASSUME turn # 0, ~broken
                 PROVE  /\ \A j \in Messages(rec, turn) : j \in Walk(rec, Tip')
                        /\ \A c \in Ids : rec[c].kind = "turn_commit" => rec[c].turn # turn
      BY <1>2 DEF TurnOpen
    <2> QED
      BY <1>6 DEF TurnInv, TurnOpen
  <1>11. TipSaved'
    <2>1. Selectable(rec, op.id) /\ op.id < nextId
      BY <1>4, RootedRec DEF Selectable
    <2> QED
      BY <1>2, <1>3, <1>5, <1>6, <2>1 DEF TurnInv, TipSaved
  <1>12. Making'
    BY <1>2, NoOpType DEF Making
  <1> QED
    BY <1>7, <1>8, <1>9, <1>10, <1>11, <1>12 DEF TurnInv

LEMMA SyncedAgainTurn ==
  ASSUME BoundsAssumption, FileInv, TurnInv, SyncedAgain
  PROVE  TurnInv'
  <1> USE DEF file, memory, client, bounds
  <1>1. /\ pc = "sync" /\ Writing /\ op.kind \in Durable \cup {"message", "session"}
        /\ "message" \notin Durable /\ "session" \notin Durable
    BY Kind DEF SyncedAgain, Writing
  <1>2. op.kind # "message"
    BY <1>1 DEF FileInv, Frames, RecordPlace
  <1>3. rec' = rec /\ nextId' = nextId /\ begun' = begun
    BY DEF SyncedAgain
  <1>4. CASE op.kind = "session"
    <2>1. cache.ids = <<Root>> /\ turn = 0
      BY <1>1, <1>4 DEF FileInv, Frames, HeaderFrame
    <2>2. cache.ids # <<>>
      <3>1. <<Root>> # <<>>
        OBVIOUS
      <3> QED
        BY <2>1, <3>1, Zenon
    <2>3. Opened(cache) /\ turn' = 0
      BY <1>4, <2>1 DEF SyncedAgain
    <2> QED
      BY <1>3, <2>2, <2>3, OpenedTurn
  <1>5. CASE op.kind \in {"turn_commit", "select"}
    <2>1. op.id \in 1..(nextId - 1) /\ rec[op.id].kind = op.kind
      BY <1>1, <1>5 DEF FileInv, Frames, RecordFrame, Durable
    <2>2. op' = NoOp /\ turn' = 0
      BY <1>1, <1>5 DEF SyncedAgain, Return, TurnInv, Making
    <2>3. CASE op.kind = "turn_commit"
      <3>1. committed' = op.id /\ head' = op.id
        BY <2>3 DEF SyncedAgain, Selected
      <3>2. Selectable(rec, op.id) /\ op.id \in 0..(nextId - 1)
        BY <2>1, <2>3, RootedRec DEF Selectable
      <3> QED
        BY <1>3, <2>2, <3>1, <3>2, TurnSelected
    <2>4. CASE op.kind = "select"
      <3>1. committed' = rec[op.id].target /\ head' = rec[op.id].target
        BY <2>4 DEF SyncedAgain, Selected
      <3>2. Selectable(rec, rec[op.id].target)
        BY <1>1, <2>4 DEF TurnInv, Making
      <3>3. rec[op.id].target \in 0..(nextId - 1)
        <4>1. rec[op.id].target < op.id
          BY <2>1 DEF FileInv, Made
        <4>2. rec[op.id] \in Record /\ nextId \in 1..(MaxId + 1) /\ MaxId \in Nat
          BY <2>1, RootedRec DEF Lines
        <4> QED
          BY <2>1, <4>1, <4>2 DEF Record, Ids
      <3> QED
        BY <1>3, <2>2, <3>1, <3>2, <3>3, TurnSelected
    <2> QED
      BY <1>5, <2>3, <2>4
  <1> QED
    BY <1>1, <1>2, <1>4, <1>5, StateTurn DEF Durable

(* A new turn has no messages yet.                                          *)
LEMMA BeginTurnTurn ==
  ASSUME BoundsAssumption, FileInv, TurnInv, BeginTurn
  PROVE  TurnInv'
  <1> USE DEF file, memory, client, bounds
  <1>1. /\ turn = 0 /\ turn' = begun + 1 /\ begun' = begun + 1 /\ broken' = FALSE /\ op' = op
        /\ rec' = rec /\ nextId' = nextId /\ committed' = committed /\ entries' = entries
        /\ head' = head /\ pc = "idle" /\ pc' = pc /\ op = NoOp /\ begun \in Nat
    BY BoundsAre DEF BeginTurn, FileInv, Frames, Places, TypeOK
  <1>2. Tip' = Tip /\ Tip = head
    BY <1>1, NoOpType DEF Tip, Durable
  <1>3. \A i \in Ids : rec[i].turn \in Nat /\ rec[i].turn <= begun
    BY RootedRec, BoundsAre DEF TurnInv, Counted, Lines, Record
  <1>4. \A i \in Ids : rec[i].turn # turn'
    BY <1>1, <1>3
  <1>5. Counted'
    <2>1. \A i \in Ids : rec[i].turn <= begun'
      BY <1>1, <1>3
    <2> QED
      BY <1>1, <2>1 DEF TurnInv, Counted
  <1>6. AllWhole(rec, nextId)'
    BY <1>1 DEF TurnInv
  <1>7. /\ Tip \in Ids /\ committed \in Ids /\ Walk(rec, Tip) \subseteq Ids
    <2>1. Tip \in Ids /\ committed \in Ids
      BY <1>2 DEF FileInv, TypeOK
    <2>2. Walk(rec, Tip) \subseteq 0..Tip
      BY <2>1, RootedRec, WalkBelow
    <2> QED
      BY <2>1, <2>2, BoundsAre DEF Ids
  <1>8. TipWhole'
    BY <1>1, <1>2, <1>7 DEF TurnInv, TipWhole, Counted
  <1>9. TurnOpen'
    BY <1>1, <1>4 DEF TurnOpen, Messages
  <1>10. TipSaved'
    <2>1. Walk(rec, Tip) \ Walk(rec, committed) = {}
      BY <1>1, <1>7 DEF TurnInv, TipSaved, Counted
    <2> QED
      BY <1>1, <1>2, <2>1 DEF TurnInv, TipSaved
  <1>11. Making'
    BY <1>1, NoOpType DEF Making
  <1> QED
    BY <1>5, <1>6, <1>8, <1>9, <1>10, <1>11 DEF TurnInv

(* An aborted turn leaves the branch of the last selection.                 *)
LEMMA AbortTurn ==
  ASSUME BoundsAssumption, FileInv, TurnInv, Abort
  PROVE  TurnInv'
  <1>1. /\ rec' = rec /\ nextId' = nextId /\ turn' = 0 /\ begun' = begun /\ op' = NoOp
        /\ head' = committed' /\ committed' = committed
    BY DEF Abort, FileInv, Frames, Places
  <1>2. committed \in 0..(nextId - 1) /\ Selectable(rec, committed)
    BY RootedRec DEF TurnInv, TipSaved, FileInv, TypeOK, Ids
  <1> QED
    BY <1>1, <1>2, TurnSelected

LEMMA OpenSavedTurn ==
  ASSUME BoundsAssumption, FileInv, TurnInv, OpenSaved
  PROVE  TurnInv'
  <1> USE DEF file, memory, client, bounds
  <1>1. cache.ids # <<>>
    <2>1. cache.ids = <<>> /\ ~cache.torn => cache = Empty
      BY FileFacts DEF File, Empty
    <2> QED
      BY <2>1, FileFacts DEF OpenSaved, Loads
  <1>2. turn = 0 /\ rec' = rec /\ nextId' = nextId /\ turn' = turn /\ begun' = begun /\ pc = "closed"
    BY DEF OpenSaved, FileInv, Frames, Places
  <1>3. CASE cache.torn
    <2>1. /\ op' = op /\ pc' = "trim" /\ Tip' = Tip /\ committed' = committed /\ entries' = entries
          /\ broken' = broken
      BY <1>3 DEF OpenSaved, Tip
    <2>2. Making'
      BY <1>2, <2>1, NoOpType DEF Making, FileInv, Frames, Places
    <2> QED
      BY <1>2, <2>1, <2>2, TurnKept
  <1>4. CASE ~cache.torn
    BY <1>1, <1>2, <1>4, OpenedTurn DEF OpenSaved
  <1> QED
    BY <1>3, <1>4

LEMMA TrimSyncTurn ==
  ASSUME BoundsAssumption, FileInv, TurnInv, TrimSync
  PROVE  TurnInv'
  <1>1. /\ cache.ids # <<>> /\ Opened(cache) /\ rec' = rec /\ nextId' = nextId /\ turn' = 0
        /\ begun' = begun
    BY DEF TrimSync, FileInv, Frames, Places, client
  <1> QED
    BY <1>1, OpenedTurn

(* A new record is on no branch yet but its own.                            *)
LEMMA WriteTurn ==
  ASSUME BoundsAssumption, FileInv, FileInv', TurnInv, pc = "idle",
         NEW kind \in Durable \cup {"message"}, NEW parent, NEW target \in 0..(nextId - 1),
         Write(kind, parent, target, turn),
         UNCHANGED <<disk, cache, entries, committed, failed, client>>,
         kind = "message" => turn # 0 /\ ~broken /\ head' = head,
         kind = "turn_commit" => turn # 0 /\ ~broken /\ parent = head,
         kind = "state" => parent = committed,
         kind = "select" => turn = 0 /\ Selectable(rec, target)
  PROVE  TurnInv'
  <1> USE DEF client
  <1> DEFINE n == nextId
  <1>1. /\ n \in Nat /\ n \in Ids /\ n # Root /\ n \in Lines /\ MaxId \in Nat
        /\ \A i \in 0..(n - 1) : i \in Ids /\ i \in Lines /\ i # n
        /\ begun \in Nat
    <2>1. n \in 1..(MaxId + 1) /\ n <= MaxId /\ begun \in 0..MaxTurn /\ MaxId \in Nat
          /\ MaxTurn \in Nat
      BY BoundsAre DEF Write, FileInv, TypeOK
    <2>2. n \in Nat /\ n \in Ids /\ n # Root /\ begun \in Nat
      BY <2>1 DEF Ids, Root
    <2>3. \A i \in 0..(n - 1) : i \in Ids /\ i # n
      BY <2>1 DEF Ids
    <2> QED
      BY <2>1, <2>2, <2>3 DEF Lines
  <1>2. /\ rec'[n] = [kind |-> kind, parent |-> parent, target |-> target, turn |-> turn]
        /\ \A i \in Lines : i # n => rec'[i] = rec[i]
    BY <1>1, RootedRec DEF Write
  <1>3. /\ op'.kind = kind /\ op'.id = n /\ op'.previous = head /\ pc' = "flush"
        /\ nextId' = n + 1 /\ "message" \notin Durable
        /\ turn' = turn /\ broken' = broken /\ begun' = begun
        /\ committed' = committed /\ entries' = entries
    BY DEF Write, Durable
  <1>4. op.kind = "none" /\ Tip = head /\ Tip' = head
    BY <1>3, NoOpType DEF FileInv, Frames, Places, Tip, Durable
  <1>5. Rooted(rec) /\ Rooted(rec')
    <2>1. Rooted(rec)
      BY RootedRec
    <2>2. rec' \in [Lines -> Record] /\ nextId' \in 1..(MaxId + 1) /\ Made(rec', nextId')
      BY DEF FileInv, TypeOK
    <2>3. Rooted(rec')
      BY <2>2, MadeRooted
    <2> QED
      BY <2>1, <2>3
  <1>6. /\ head \in 0..(n - 1) /\ committed \in 0..(n - 1) /\ Selectable(rec, committed)
        /\ turn \in Nat
    <2>1. head \in Ids /\ committed \in Ids /\ turn \in 0..MaxTurn
      BY DEF FileInv, TypeOK
    <2> QED
      BY <1>1, <1>4, <2>1, BoundsAre DEF TurnInv, TipSaved, Ids
  <1>7. ASSUME NEW x \in 0..(n - 1)
        PROVE  Walk(rec', x) = Walk(rec, x) /\ Walk(rec, x) \subseteq 0..(n - 1)
    <2>1. x \in Ids /\ x \in Nat /\ x < n
      BY <1>1
    <2>2. \A i \in Ids : i < n => rec'[i] = rec[i]
      BY <1>1, <1>2 DEF Ids, Lines
    <2>3. Walk(rec', x) = Walk(rec, x)
      <3> HIDE DEF n
      <3>1. n \in Nat
        BY <1>1
      <3> QED
        BY <1>5, <2>1, <2>2, <3>1, WalkSame, Zenon
    <2>4. Walk(rec, x) \subseteq 0..x
      BY <1>5, <2>1, WalkBelow
    <2> QED
      BY <1>1, <2>1, <2>3, <2>4
  <1>8. Walk(rec', n) = {n} \cup Walk(rec', parent)
    <2>1. Root \in Ids
      BY NoOpType
    <2> QED
      BY <1>1, <1>2, <1>5, <2>1, WalkStep
  <1>9. ASSUME NEW t
        PROVE  Messages(rec', t) \subseteq
                 Messages(rec, t) \cup (IF kind = "message" /\ t = turn THEN {n} ELSE {})
    BY <1>2 DEF Messages, Lines
  <1>10. turn # 0 /\ ~broken =>
           /\ Messages(rec, turn) \subseteq Walk(rec, head)
           /\ \A c \in Ids : rec[c].kind = "turn_commit" => rec[c].turn # turn
    BY <1>4 DEF TurnInv, TurnOpen
  <1>11. ASSUME NEW b, b \subseteq 0..(n - 1), NEW i \in b, Whole(rec, b, i)
         PROVE  Whole(rec', b, i)
    <2>1. PICK c \in b : rec[c].kind = "turn_commit" /\ rec[c].turn = rec[i].turn
      BY <1>11 DEF Whole
    <2>2. rec'[c] = rec[c] /\ rec'[i] = rec[i] /\ c \in Ids
      BY <1>1, <1>2, <1>11
    <2>3. ~(kind = "message" /\ rec[i].turn = turn)
      BY <1>10, <2>1, <2>2
    <2>4. Messages(rec', rec[i].turn) \subseteq b
      BY <1>9, <1>11, <2>3 DEF Whole
    <2> QED
      BY <2>1, <2>2, <2>4 DEF Whole
  <1>12. ASSUME NEW d \in 0..(n - 1), Selectable(rec, d)
         PROVE  WholeBranch(rec', d)
    <2>1. WholeBranch(rec, d)
      BY <1>12 DEF TurnInv, AllWhole
    <2> SUFFICES ASSUME NEW i \in Walk(rec', d), rec'[i].kind = "message"
                 PROVE  Whole(rec', Walk(rec', d), i)
      BY DEF WholeBranch
    <2>2. i \in Walk(rec, d) /\ Walk(rec', d) = Walk(rec, d) /\ Walk(rec, d) \subseteq 0..(n - 1)
      BY <1>7
    <2>3. rec'[i] = rec[i]
      BY <1>1, <1>2, <2>2
    <2>4. Whole(rec, Walk(rec, d), i)
      BY <2>1, <2>2, <2>3 DEF WholeBranch
    <2> QED
      BY <1>11, <2>2, <2>4
  <1>13. Counted'
    <2>1. turn <= begun
      BY <1>1, <1>6 DEF TurnInv, Counted
    <2>2. \A i \in Ids : rec'[i].turn <= begun /\ (rec'[i].kind = "message" => rec'[i].turn # 0)
      BY <1>2, <2>1 DEF TurnInv, Counted, Lines
    <2>3. turn # 0 => turn = begun
      BY DEF TurnInv, Counted
    <2> QED
      BY <1>3, <2>2, <2>3 DEF Counted
  <1>14. AllWhole(rec, nextId)'
    <2> SUFFICES ASSUME NEW d \in 0..n, Selectable(rec', d)
                 PROVE  WholeBranch(rec', d)
      BY <1>1, <1>3 DEF AllWhole
    <2>1. CASE d \in 0..(n - 1)
      <3>1. Selectable(rec, d)
        BY <1>1, <1>2, <2>1 DEF Selectable
      <3> QED
        BY <1>12, <2>1, <3>1
    <2>2. CASE d = n /\ kind = "turn_commit"
      <3>1. /\ Walk(rec', n) = {n} \cup Walk(rec, head) /\ Walk(rec, head) \subseteq 0..(n - 1)
            /\ turn # 0 /\ ~broken
        BY <1>6, <1>7, <1>8, <2>2
      <3> SUFFICES ASSUME NEW i \in Walk(rec', n), rec'[i].kind = "message"
                   PROVE  Whole(rec', Walk(rec', n), i)
        BY <2>2 DEF WholeBranch
      <3>2. i \in Walk(rec, head) /\ rec'[i] = rec[i]
        BY <1>1, <1>2, <2>2, <3>1
      <3>3. CASE rec[i].turn = turn
        <4>1. Messages(rec', turn) \subseteq Walk(rec, head)
          BY <1>9, <1>10, <2>2, <3>1
        <4>2. n \in Walk(rec', n) /\ rec'[n].kind = "turn_commit" /\ rec'[n].turn = rec'[i].turn
          BY <1>2, <2>2, <3>1, <3>2, <3>3
        <4> QED
          BY <3>1, <3>2, <3>3, <4>1, <4>2 DEF Whole
      <3>4. CASE Whole(rec, Walk(rec, head), i)
        <4>1. Whole(rec', Walk(rec, head), i)
          BY <1>11, <3>1, <3>2, <3>4
        <4> QED
          BY <3>1, <4>1, WholeGrows
      <3> QED
        BY <1>4, <3>2, <3>3, <3>4 DEF TurnInv, TipWhole
    <2>3. CASE d = n /\ kind = "state"
      <3>1. Walk(rec', n) = {n} \cup Walk(rec', committed) /\ WholeBranch(rec', committed)
        BY <1>6, <1>8, <1>12, <2>3
      <3> SUFFICES ASSUME NEW i \in Walk(rec', n), rec'[i].kind = "message"
                   PROVE  Whole(rec', Walk(rec', n), i)
        BY <2>3 DEF WholeBranch
      <3>2. i \in Walk(rec', committed)
        BY <1>2, <2>3, <3>1
      <3> QED
        BY <3>1, <3>2, WholeGrows DEF WholeBranch
    <2>4. kind \in {"turn_commit", "state"} \/ d # n
      BY <1>2 DEF Selectable, Durable
    <2> QED
      BY <1>1, <2>1, <2>2, <2>3, <2>4
  <1>15. /\ Walk(rec', head) = Walk(rec, head) /\ Walk(rec, head) \subseteq 0..(n - 1)
         /\ Walk(rec', committed) = Walk(rec, committed)
         /\ \A i \in Walk(rec, head) : rec'[i] = rec[i]
    BY <1>1, <1>2, <1>6, <1>7
  <1>16. TipWhole'
    <2> SUFFICES ASSUME NEW i \in Walk(rec, head), rec[i].kind = "message"
                 PROVE  rec[i].turn = turn \/ Whole(rec', Walk(rec, head), i)
      BY <1>3, <1>4, <1>15 DEF TipWhole
    <2>1. rec[i].turn = turn \/ Whole(rec, Walk(rec, head), i)
      BY <1>4 DEF TurnInv, TipWhole
    <2> QED
      BY <1>11, <1>15, <2>1
  <1>17. TurnOpen'
    <2> SUFFICES ASSUME turn # 0, ~broken
                 PROVE  /\ \A j \in Messages(rec', turn) :
                             j \in Walk(rec, head) \/ (kind = "message" /\ j = n)
                        /\ kind # "turn_commit" =>
                             \A c \in Ids : rec'[c].kind = "turn_commit" => rec'[c].turn # turn
      BY <1>3, <1>4, <1>15 DEF TurnOpen
    <2>1. \A j \in Messages(rec', turn) : j \in Walk(rec, head) \/ (kind = "message" /\ j = n)
      BY <1>9, <1>10
    <2>2. ASSUME kind # "turn_commit", NEW c \in Ids, rec'[c].kind = "turn_commit"
          PROVE  rec'[c].turn # turn
      <3>1. c # n /\ rec'[c] = rec[c]
        BY <1>2, <2>2 DEF Lines
      <3> QED
        BY <1>10, <2>2, <3>1
    <2> QED
      BY <2>1, <2>2
  <1>18. TipSaved'
    <2>1. \A i \in Walk(rec, head) \ Walk(rec, committed) :
            i \in entries /\ rec[i].kind = "message" /\ rec[i].turn = turn
      BY <1>4 DEF TurnInv, TipSaved
    <2>2. Selectable(rec', committed) /\ committed < n + 1 /\ head < n + 1
      BY <1>1, <1>2, <1>6 DEF Selectable
    <2> QED
      BY <1>3, <1>4, <1>15, <2>1, <2>2 DEF TipSaved
  <1>19. Making'
    <2>1. head # n /\ rec'[target] = rec[target]
      BY <1>1, <1>2, <1>6
    <2>2. ~Removing'
      BY <1>3 DEF Removing
    <2> QED
      BY <1>2, <1>3, <2>1, <2>2 DEF Making, Selectable
  <1> QED
    BY <1>13, <1>14, <1>16, <1>17, <1>18, <1>19 DEF TurnInv

LEMMA DurableAppendTurn ==
  ASSUME BoundsAssumption, FileInv, FileInv', TurnInv, pc = "idle", NEW kind \in Durable,
         NEW parent, NEW target \in 0..(nextId - 1),
         kind = "turn_commit" => turn # 0 /\ ~broken /\ parent = head,
         kind = "state" => parent = committed,
         kind = "select" => turn = 0 /\ Selectable(rec, target),
         DurableAppend(kind, parent, target)
  PROVE  TurnInv'
  <1>1. ~failed /\ kind # "message" /\ kind \in Durable \cup {"message"}
    BY DEF DurableAppend, Durable
  <1>2. CASE Write(kind, parent, target, turn) /\ head' = parent
             /\ UNCHANGED <<disk, cache, entries, committed, failed, client>>
    BY <1>1, <1>2, WriteTurn
  <1>3. CASE /\ kind # "select"
             /\ pc' = "seek"
             /\ op' = [kind |-> kind, id |-> Root, previous |-> head, offset |-> cache]
             /\ broken' = (broken \/ kind = "turn_commit")
             /\ UNCHANGED <<rec, nextId, file, memory, turn, begun, told, bounds>>
    BY <1>1, <1>3, UnserialisedTurn
  <1> QED
    BY <1>2, <1>3 DEF DurableAppend

LEMMA CallTurn ==
  ASSUME BoundsAssumption, FileInv, FileInv', TurnInv, Call
  PROVE  TurnInv'
  <1>0. Root \in 0..(nextId - 1)
    BY RootedRec DEF Root
  <1>1. CASE AppendMessage
    <2>1. pc = "idle" /\ Write("message", head, Root, turn) /\ head' = head /\ turn # 0 /\ ~broken
          /\ UNCHANGED <<disk, cache, entries, committed, failed, client>>
      BY <1>1 DEF AppendMessage, memory
    <2> QED
      BY <1>0, <2>1, WriteTurn
  <1>2. CASE Commit
    <2>1. pc = "idle" /\ "turn_commit" \in Durable /\ turn # 0 /\ ~broken
      BY <1>2 DEF Commit, Durable
    <2>2. CASE DurableAppend("turn_commit", head, Root)
      BY <1>0, <2>1, <2>2, DurableAppendTurn
    <2>3. CASE DurableRefused("turn_commit")
      BY <2>1, <2>3, DurableRefusedTurn
    <2> QED
      BY <1>2, <2>2, <2>3 DEF Commit
  <1>3. CASE Checkpoint
    <2>1. pc = "idle" /\ "state" \in Durable
      BY <1>3 DEF Checkpoint, Durable
    <2>2. CASE DurableAppend("state", committed, Root)
      BY <1>0, <2>1, <2>2, DurableAppendTurn
    <2>3. CASE DurableRefused("state")
      BY <2>1, <2>3, DurableRefusedTurn
    <2> QED
      BY <1>3, <2>2, <2>3 DEF Checkpoint
  <1>4. CASE Fork
    <2>1. pc = "idle" /\ "select" \in Durable /\ turn = 0
      BY <1>4 DEF Fork, Durable
    <2>2. PICK entry \in entries :
            /\ rec[entry].kind = "turn_commit"
            /\ DurableAppend("select", entry, entry) \/ DurableRefused("select")
      BY <1>4 DEF Fork
    <2>3. Selectable(rec, entry)
      BY <2>2 DEF Selectable
    <2>4. CASE DurableAppend("select", entry, entry)
      <3>1. ~failed
        BY <2>4 DEF DurableAppend
      <3>2. entry \in 0..(nextId - 1)
        BY <2>1, <3>1, IdleFacts, Opening
      <3> QED
        BY <2>1, <2>3, <2>4, <3>2, DurableAppendTurn
    <2>5. CASE DurableRefused("select")
      BY <2>1, <2>5, DurableRefusedTurn
    <2> QED
      BY <2>2, <2>4, <2>5
  <1> QED
    BY <1>1, <1>2, <1>3, <1>4, BeginTurnTurn, AppendRefusedTurn, AbortTurn, CloseTurn DEF Call

LEMMA NextTurn ==
  ASSUME BoundsAssumption, FileInv, FileInv', TurnInv, [Next]_vars
  PROVE  TurnInv'
  <1>1. ASSUME TrimFails \/ CloseStream \/ Kill \/ PowerLoss
        PROVE  TurnInv'
    <2>1. Closed
      BY <1>1 DEF TrimFails, CloseStream, Kill, PowerLoss
    <2> QED
      BY <2>1, ClosedTurn
  <1>2. CASE UNCHANGED vars
    BY <1>2, UnchangedTurn
  <1>3. CASE Load
    BY <1>1, <1>2, <1>3, OpenNewTurn, OpenSavedTurn, TrimTurn, TrimSyncTurn DEF Load, OpenRefused
  <1>4. CASE Step
    BY <1>1, <1>4, PartlyFlushedTurn, FlushedAllTurn, SyncedTurn, SyncedAgainTurn, FlushFailsTurn,
       SyncFailsTurn, SeekTurn, TruncateTurn, CleanedTurn, CleanupFailsTurn DEF Step
  <1> QED
    BY <1>1, <1>2, <1>3, <1>4, CallTurn DEF Next

LEMMA TurnsHold == Spec => [](FileInv /\ TurnInv)
  <1>1. Init => FileInv /\ TurnInv
    BY BoundsAssumption, InitFileInv, InitTurnInv
  <1>2. FileInv /\ TurnInv /\ [Next]_vars => FileInv' /\ TurnInv'
    BY BoundsAssumption, NextFile, NextTurn
  <1> QED
    BY <1>1, <1>2, PTL DEF Spec

(* No selection a reopening may find, and none the store reports, holds a   *)
(* part of a turn: a turn is on it with its commit and every message it     *)
(* recorded, or with nothing.                                               *)
THEOREM TurnsWhole == Spec => []TurnsAreWhole
  <1>1. FileInv /\ TurnInv => TurnsAreWhole
    <2> SUFFICES ASSUME FileInv, TurnInv
                 PROVE  WholeTurns /\ WorkingBranch
      BY DEF TurnsAreWhole
    <2>1. ASSUME NEW f \in MayFind
          PROVE  Selection(f) \in 0..(nextId - 1) /\ Selectable(rec, Selection(f))
      <3>1. f \in File /\ Chain(rec, nextId, f.ids)
        BY BoundsAssumption, Found
      <3>2. Selection(f) = Sel(rec, f.ids) /\ f.ids \in Seq(Lines) /\ nextId \in Nat
        BY <3>1, BoundsAssumption, RootedRec, SelectionIsSel, FileType
      <3>3. CASE f.ids = <<>>
        <4>1. Sel(rec, f.ids) = Root
          <5>1. Len(f.ids) = 0
            BY <3>3
          <5>2. \A j \in 1..Len(f.ids) : rec[f.ids[j]].kind \notin Durable
            BY <5>1
          <5> QED
            BY <3>2, <5>2, SelNone
        <4> QED
          BY <3>2, <4>1, BoundsAssumption, RootedRec DEF Root, Selectable, Header
      <3>4. CASE f.ids # <<>>
        <4>1. Sel(rec, f.ids) \in Elements(f.ids) /\ Selectable(rec, Sel(rec, f.ids))
          BY <3>1, <3>2, <3>4, BoundsAssumption, RootedRec, SelInChain
        <4>2. Elements(f.ids) \subseteq 0..(nextId - 1)
          BY <3>1, <3>2, ChainElements
        <4> QED
          BY <3>2, <4>1, <4>2
      <3> QED
        BY <3>3, <3>4
    <2>2. WholeTurns
      <3> SUFFICES ASSUME NEW f \in MayFind, NEW i \in Branch(Selection(f)), rec[i].kind = "message"
                   PROVE  LET branch == Branch(Selection(f))
                          IN /\ \E c \in branch : rec[c].kind = "turn_commit" /\ rec[c].turn = rec[i].turn
                             /\ \A j \in Ids : rec[j].kind = "message" /\ rec[j].turn = rec[i].turn
                                                 => j \in branch
        BY DEF WholeTurns
      <3>1. Branch(Selection(f)) = Walk(rec, Selection(f))
        BY BranchIsWalk
      <3>2. Whole(rec, Walk(rec, Selection(f)), i)
        BY <2>1, <3>1 DEF TurnInv, AllWhole, WholeBranch
      <3> QED
        BY <3>1, <3>2 DEF Whole, Messages
    <2>3. WorkingBranch
      <3> SUFFICES ASSUME pc = "idle", NEW i \in Branch(head) \ Branch(committed)
                   PROVE  i \in entries /\ rec[i].kind = "message" /\ rec[i].turn = turn
        BY DEF WorkingBranch
      <3>1. Tip = head
        BY NoOpType, BoundsAssumption DEF FileInv, Frames, Places, Tip, Durable
      <3>2. i \in Walk(rec, Tip) \ Walk(rec, committed)
        BY <3>1, BranchIsWalk
      <3> QED
        BY <3>2 DEF TurnInv, TipSaved
    <2> QED
      BY <2>2, <2>3
  <1> QED
    BY <1>1, TurnsHold, PTL

------------------------------------------------------------------------------
(* The selections a reopening may find, and DurableSelection.               *)

(* The lines a power loss may leave of a and b, and the lines any reopening *)
(* may find: d is durable, c in the cache, b behind it in the buffer.       *)
Spread(a, b) ==
  {a, b} \cup {SubSeq(b, 1, n) : n \in Len(a)..(Len(b) - 1)}
         \cup {SubSeq(a, 1, n) : n \in Len(b)..(Len(a) - 1)}
Finds(d, c, b) == Spread(d, c) \cup Spread(d, c \o b)

LEMMA SpreadIs ==
  ASSUME NEW f \in File, NEW g \in File
  PROVE  /\ \A h \in Between(f, g) : h.ids \in Spread(f.ids, g.ids)
         /\ \A s \in Spread(f.ids, g.ids) : \E h \in Between(f, g) : h.ids = s
  <1>1. Len(f.ids) \in Nat /\ Len(g.ids) \in Nat
    BY FileType
  <1>2. CASE Len(f.ids) > Len(g.ids)
    <2>1. Between(f, g) = {f, g} \cup
            {[ids |-> SubSeq(f.ids, 1, n), torn |-> t] :
               n \in Len(g.ids)..(Len(f.ids) - 1), t \in BOOLEAN}
      BY <1>2 DEF Between
    <2>2. Spread(f.ids, g.ids) = {f.ids, g.ids} \cup
            {SubSeq(f.ids, 1, n) : n \in Len(g.ids)..(Len(f.ids) - 1)}
      BY <1>1, <1>2 DEF Spread
    <2>3. ASSUME NEW h \in Between(f, g)
          PROVE  h.ids \in Spread(f.ids, g.ids)
      <3>1. CASE h \in {f, g}
        BY <2>2, <3>1
      <3>2. CASE h \notin {f, g}
        <4>1. PICK n \in Len(g.ids)..(Len(f.ids) - 1), t \in BOOLEAN :
                h = [ids |-> SubSeq(f.ids, 1, n), torn |-> t]
          BY <2>1, <3>2
        <4>2. h.ids = SubSeq(f.ids, 1, n)
          BY <4>1
        <4> QED
          BY <2>2, <4>2
      <3> QED
        BY <3>1, <3>2
    <2>4. ASSUME NEW s \in Spread(f.ids, g.ids)
          PROVE  \E h \in Between(f, g) : h.ids = s
      <3>1. CASE s \in {f.ids, g.ids}
        BY <2>1, <3>1
      <3>2. CASE s \notin {f.ids, g.ids}
        <4>1. PICK n \in Len(g.ids)..(Len(f.ids) - 1) : s = SubSeq(f.ids, 1, n)
          BY <2>2, <3>2
        <4>t. PICK t \in BOOLEAN : TRUE
          OBVIOUS
        <4> DEFINE h == [ids |-> SubSeq(f.ids, 1, n), torn |-> t]
        <4>2. h \in Between(f, g)
          BY <2>1
        <4>3. h.ids = s
          BY <4>1
        <4> QED
          BY <4>2, <4>3
      <3> QED
        BY <3>1, <3>2
    <2> QED
      BY <2>3, <2>4
  <1>3. CASE ~(Len(f.ids) > Len(g.ids))
    <2>1. Between(f, g) = {f, g} \cup
            {[ids |-> SubSeq(g.ids, 1, n), torn |-> t] :
               n \in Len(f.ids)..(Len(g.ids) - 1), t \in BOOLEAN}
      BY <1>3 DEF Between
    <2>2. Spread(f.ids, g.ids) = {f.ids, g.ids} \cup
            {SubSeq(g.ids, 1, n) : n \in Len(f.ids)..(Len(g.ids) - 1)}
      BY <1>1, <1>3 DEF Spread
    <2>3. ASSUME NEW h \in Between(f, g)
          PROVE  h.ids \in Spread(f.ids, g.ids)
      <3>1. CASE h \in {f, g}
        BY <2>2, <3>1
      <3>2. CASE h \notin {f, g}
        <4>1. PICK n \in Len(f.ids)..(Len(g.ids) - 1), t \in BOOLEAN :
                h = [ids |-> SubSeq(g.ids, 1, n), torn |-> t]
          BY <2>1, <3>2
        <4>2. h.ids = SubSeq(g.ids, 1, n)
          BY <4>1
        <4> QED
          BY <2>2, <4>2
      <3> QED
        BY <3>1, <3>2
    <2>4. ASSUME NEW s \in Spread(f.ids, g.ids)
          PROVE  \E h \in Between(f, g) : h.ids = s
      <3>1. CASE s \in {f.ids, g.ids}
        BY <2>1, <3>1
      <3>2. CASE s \notin {f.ids, g.ids}
        <4>1. PICK n \in Len(f.ids)..(Len(g.ids) - 1) : s = SubSeq(g.ids, 1, n)
          BY <2>2, <3>2
        <4>t. PICK t \in BOOLEAN : TRUE
          OBVIOUS
        <4> DEFINE h == [ids |-> SubSeq(g.ids, 1, n), torn |-> t]
        <4>2. h \in Between(f, g)
          BY <2>1
        <4>3. h.ids = s
          BY <4>1
        <4> QED
          BY <4>2, <4>3
      <3> QED
        BY <3>1, <3>2
    <2> QED
      BY <2>3, <2>4
  <1> QED
    BY <1>2, <1>3

CandidatesOf(r, d, c, b) == {Sel(r, s) : s \in Finds(d.ids, c.ids, b)}

LEMMA CandidatesAre ==
  ASSUME NEW r, NEW d \in File, NEW c \in File, NEW b \in {<<>>} \cup {<<i>> : i \in Lines}
  PROVE  {Sel(r, x.ids) : x \in Between(d, c) \cup Between(d, Flushed(c, b))}
           = CandidatesOf(r, d, c, b)
  <1>1. Flushed(c, b) \in File /\ Flushed(c, b).ids = c.ids \o b
    BY FlushedIs
  <1>2. Finds(d.ids, c.ids, b) = Spread(d.ids, c.ids) \cup Spread(d.ids, Flushed(c, b).ids)
    BY <1>1 DEF Finds
  <1>5. /\ \A h \in Between(d, c) : h.ids \in Spread(d.ids, c.ids)
        /\ \A s \in Spread(d.ids, c.ids) : \E h \in Between(d, c) : h.ids = s
    BY SpreadIs
  <1>6. LET g == Flushed(c, b)
        IN /\ \A h \in Between(d, g) : h.ids \in Spread(d.ids, g.ids)
           /\ \A s \in Spread(d.ids, g.ids) : \E h \in Between(d, g) : h.ids = s
    BY <1>1, SpreadIs, Zenon
  <1>3. \A x \in Between(d, c) \cup Between(d, Flushed(c, b)) : x.ids \in Finds(d.ids, c.ids, b)
    BY <1>2, <1>5, <1>6
  <1>4. \A s \in Finds(d.ids, c.ids, b) :
          \E x \in Between(d, c) \cup Between(d, Flushed(c, b)) : x.ids = s
    BY <1>2, <1>5, <1>6
  <1> QED
    BY <1>3, <1>4 DEF CandidatesOf

LEMMA CandidatesNow ==
  ASSUME FileInv
  PROVE  Candidates = CandidatesOf(rec, disk, cache, buffer)
  <1>1. disk \in File /\ cache \in File /\ buffer \in {<<>>} \cup {<<i>> : i \in Lines}
    BY DEF FileInv, TypeOK
  <1>2. Candidates = {Sel(rec, x.ids) : x \in MayFind}
    BY SelectionIsSel DEF Candidates
  <1> QED
    BY <1>1, <1>2, CandidatesAre DEF MayFind

LEMMA CandidatesNext ==
  ASSUME FileInv'
  PROVE  Candidates' = CandidatesOf(rec', disk', cache', buffer')
  <1>1. disk' \in File /\ cache' \in File /\ buffer' \in {<<>>} \cup {<<i>> : i \in Lines}
    BY DEF FileInv, TypeOK
  <1>2. Candidates' = {Sel(rec', x.ids) : x \in MayFind'}
    BY DEF Candidates, Selection, Sel, Marks, Pick
  <1> QED
    BY <1>1, <1>2, CandidatesAre DEF MayFind

(* Lines that are flushed, written or removed.                              *)
LEMMA Spreads ==
  ASSUME NEW d \in Seq(Lines), NEW c \in Seq(Lines), NEW b \in {<<>>} \cup {<<i>> : i \in Lines}
  PROVE  /\ Spread(c, c) = {c}
         /\ Spread(c, c \o b) = {c, c \o b}
         /\ c \o <<>> = c /\ (c \o b) \o <<>> = c \o b
         /\ d \in Finds(d, c, b) /\ c \in Finds(d, c, b)
  <1>0. b \in Seq(Lines)
    <2>1. b = <<>> => b \in Seq(Lines)
      OBVIOUS
    <2>2. ASSUME NEW i \in Lines, b = <<i>>
          PROVE  b \in Seq(Lines)
      BY <2>2
    <2> QED
      BY <2>1, <2>2
  <1>1. c \o <<>> = c /\ b \in Seq(Lines)
    BY <1>0, ConcatEmptySeq
  <1>2. c \o b \in Seq(Lines)
    BY <1>1
  <1>3. (c \o b) \o <<>> = c \o b
    BY <1>2, ConcatEmptySeq
  <1>4. Spread(c, c) = {c}
    <2>1. Len(c)..(Len(c) - 1) = {}
      OBVIOUS
    <2> QED
      BY <2>1 DEF Spread
  <1>5. Spread(c, c \o b) = {c, c \o b}
    <2>1. CASE b = <<>>
      BY <1>1, <1>4, <2>1
    <2>2. ASSUME NEW i \in Lines, b = <<i>>
          PROVE  Spread(c, c \o b) = {c, c \o b}
      <3>1. Len(c \o b) = Len(c) + 1 /\ Len(c) \in Nat
        BY <2>2
      <3>2. Len(c)..(Len(c \o b) - 1) = {Len(c)} /\ Len(c \o b)..(Len(c) - 1) = {}
        BY <3>1
      <3>3. SubSeq(c \o b, 1, Len(c)) = c
        BY <2>2
      <3> QED
        BY <3>2, <3>3 DEF Spread
    <2> QED
      BY <2>1, <2>2
  <1> QED
    BY <1>1, <1>3, <1>4, <1>5 DEF Finds, Spread

(* A line more on the file, or the truncation of one.                       *)
LEMMA SpreadGrows ==
  ASSUME NEW d \in Seq(Lines), NEW c \in Seq(Lines), NEW n \in Lines
  PROVE  Spread(d, c \o <<n>>) \subseteq Spread(d, c) \cup {c \o <<n>>}
  <1> DEFINE t == c \o <<n>>
  <1>1. t \in Seq(Lines) /\ Len(t) = Len(c) + 1 /\ Len(c) \in Nat /\ Len(d) \in Nat
        /\ \A k \in 0..Len(c) : SubSeq(t, 1, k) = SubSeq(c, 1, k)
        /\ SubSeq(c, 1, Len(c)) = c
    OBVIOUS
  <1> HIDE DEF t
  <1>2. ASSUME NEW k \in Len(d)..(Len(t) - 1)
        PROVE  SubSeq(t, 1, k) \in Spread(d, c)
    <2>1. SubSeq(t, 1, k) = SubSeq(c, 1, k) /\ (k \in Len(d)..(Len(c) - 1) \/ k = Len(c))
      BY <1>1
    <2> QED
      BY <1>1, <2>1 DEF Spread
  <1>3. ASSUME NEW k \in Len(t)..(Len(d) - 1)
        PROVE  SubSeq(d, 1, k) \in Spread(d, c)
    <2>1. k \in Len(c)..(Len(d) - 1)
      BY <1>1
    <2> QED
      BY <2>1 DEF Spread
  <1> QED
    BY <1>2, <1>3 DEF Spread, t

LEMMA SpreadShrinks ==
  ASSUME NEW d \in Seq(Lines), NEW o \in Seq(Lines), NEW n \in Lines,
         Len(d) <= Len(o) \/ \E x \in Lines : d = o \o <<x>>
  PROVE  Spread(d, o) \subseteq Spread(d, o \o <<n>>) \cup {o}
  <1> DEFINE t == o \o <<n>>
  <1>1. t \in Seq(Lines) /\ Len(t) = Len(o) + 1 /\ Len(o) \in Nat /\ Len(d) \in Nat
        /\ \A k \in 0..Len(o) : SubSeq(t, 1, k) = SubSeq(o, 1, k)
    OBVIOUS
  <1> HIDE DEF t
  <1>2. ASSUME NEW k \in Len(d)..(Len(o) - 1)
        PROVE  SubSeq(o, 1, k) \in Spread(d, t)
    <2>1. SubSeq(t, 1, k) = SubSeq(o, 1, k) /\ k \in Len(d)..(Len(t) - 1)
      BY <1>1
    <2> QED
      BY <2>1 DEF Spread
  <1>3. ASSUME NEW k \in Len(o)..(Len(d) - 1)
        PROVE  SubSeq(d, 1, k) = o
    <2>0. Len(d) \in Nat /\ Len(o) \in Nat /\ Len(d) > Len(o)
      BY <1>1
    <2>a. ~(Len(d) <= Len(o))
      BY <2>0
    <2>1. PICK x \in Lines : d = o \o <<x>>
      BY <2>a, Zenon
    <2>2. k = Len(o)
      BY <1>1, <2>1
    <2> QED
      BY <2>1, <2>2
  <1> QED
    BY <1>2, <1>3 DEF Spread, t

(* The lines the operation under way goes back to if it fails.              *)
Base == IF (Writing \/ Removing) /\ op.kind # "session" THEN op.offset.ids ELSE cache.ids
Grown(t, s) == t = s \/ \E x \in Lines : t = s \o <<x>>

(* What is durable is at most one line longer, and then only by that line.  *)
NearTo(d, s) == Len(d) <= Len(s) \/ \E x \in Lines : d = s \o <<x>>

(* What a removal has to remove: nothing or the attempted record.           *)
Leftover == Removing =>
  \/ cache.ids = op.offset.ids /\ buffer = <<>>
  \/ /\ op.id # Root
     /\ \/ cache.ids = op.offset.ids /\ buffer = <<op.id>>
        \/ cache.ids = op.offset.ids \o <<op.id>> /\ buffer = <<>>
NearInv == NearTo(disk.ids, Base) /\ Leftover

LEMMA NearGrown ==
  ASSUME NEW d \in Seq(Lines), NEW s \in Seq(Lines), NEW t \in Seq(Lines), NearTo(d, s), Grown(t, s)
  PROVE  NearTo(d, t)
  <1>1. CASE t = s
    BY <1>1
  <1>2. ASSUME NEW x \in Lines, t = s \o <<x>>
        PROVE  NearTo(d, t)
    <2>1. Len(t) = Len(s) + 1 /\ Len(s) \in Nat /\ Len(d) \in Nat
      BY <1>2
    <2>2. ASSUME NEW y \in Lines, d = s \o <<y>>
          PROVE  Len(d) = Len(s) + 1
      BY <2>2
    <2>3. Len(d) <= Len(s) \/ Len(d) = Len(s) + 1
      BY <2>2, Zenon DEF NearTo
    <2>4. Len(d) <= Len(t)
      BY <2>1, <2>3
    <2> QED
      BY <2>4 DEF NearTo
  <1> QED
    BY <1>1, <1>2 DEF Grown

LEMMA BaseType ==
  ASSUME FileInv
  PROVE  Base \in Seq(Lines)
  BY FileFacts DEF Base

LEMMA BaseTypeNext ==
  ASSUME FileInv'
  PROVE  Base' \in Seq(Lines) /\ disk'.ids \in Seq(Lines) /\ cache'.ids \in Seq(Lines)
  <1>1. disk' \in File /\ cache' \in File /\ op' \in OpRecord
    BY DEF FileInv, TypeOK
  <1>2. op'.offset \in File
    BY <1>1 DEF OpRecord
  <1>3. disk'.ids \in Seq(Lines) /\ cache'.ids \in Seq(Lines) /\ op'.offset.ids \in Seq(Lines)
    BY <1>1, <1>2, FileType
  <1> QED
    BY <1>3 DEF Base

LEMMA NearKept ==
  ASSUME FileInv, FileInv', NearInv, disk' = disk, Grown(Base', Base)
  PROVE  NearTo(disk.ids, Base)'
  <1>1. NearTo(disk.ids, Base')
    BY BaseType, BaseTypeNext, FileFacts, NearGrown DEF NearInv
  <1> QED
    BY <1>1

LEMMA NearSynced ==
  ASSUME FileInv', Grown(disk'.ids, Base')
  PROVE  NearTo(disk.ids, Base)'
  <1>1. CASE disk'.ids = Base'
    BY <1>1, BaseTypeNext DEF NearTo
  <1> QED
    BY <1>1, BaseTypeNext DEF NearTo, Grown

(* Where the cache is, seen from there.                                     *)
LEMMA CacheGrown ==
  ASSUME BoundsAssumption, FileInv, NearInv
  PROVE  /\ Grown(cache.ids, Base)
         /\ ~(Writing \/ Removing) \/ op.kind = "session" => Base = cache.ids
         /\ (Writing \/ Removing) /\ op.kind # "session" => Base = op.offset.ids
         /\ pc = "flush" => Base = cache.ids
  <1>1. CASE ~(Writing \/ Removing) \/ op.kind = "session"
    <2>1. Base = cache.ids
      BY <1>1 DEF Base
    <2> QED
      BY <1>1, <2>1 DEF Grown
  <1>2. CASE Writing /\ op.kind # "session"
    <2>1. Base = op.offset.ids
      BY <1>2 DEF Base
    <2>2. CASE pc = "flush"
      <3>1. cache.ids = op.offset.ids
        BY <1>2, <2>2 DEF FileInv, Frames, RecordPlace
      <3> QED
        BY <1>2, <2>1, <3>1 DEF Grown
    <2>3. CASE pc \in {"fsync", "sync"}
      <3>1. cache.ids = op.offset.ids \o <<op.id>> /\ op.id \in Lines
        BY <1>2, <2>3, Appended, FileFacts DEF Lines
      <3> QED
        BY <1>2, <2>1, <2>3, <3>1 DEF Grown
    <2> QED
      BY <1>2, <2>2, <2>3 DEF Writing
  <1>3. CASE Removing /\ op.kind # "session"
    <2>1. Base = op.offset.ids /\ op.id \in Lines
      BY <1>3, FileFacts DEF Base, Lines
    <2>2. cache.ids = op.offset.ids \/ cache.ids = op.offset.ids \o <<op.id>>
      BY <1>3 DEF NearInv, Leftover
    <2>3. pc # "flush"
      BY <1>3 DEF Removing
    <2> QED
      BY <1>3, <2>1, <2>2, <2>3 DEF Grown
  <1> QED
    BY <1>1, <1>2, <1>3

LEMMA FlushGrown ==
  ASSUME FileInv, NEW c, c \in {cache.ids, cache.ids \o buffer}
  PROVE  Grown(c, cache.ids)
  <1>1. CASE buffer = <<>>
    BY <1>1, FileFacts DEF Grown
  <1>2. ASSUME NEW i \in Lines, buffer = <<i>>
        PROVE  Grown(c, cache.ids)
    BY <1>2 DEF Grown
  <1> QED
    BY <1>1, <1>2 DEF FileInv, TypeOK

(* Steps after which no record is on its way and nothing is being removed.  *)
LEMMA NearAtRest ==
  ASSUME BoundsAssumption, FileInv, FileInv', NearInv, disk' = disk,
         ~Removing', Writing' => op'.kind = "session",
         \/ cache'.ids = cache.ids
         \/ cache'.ids = cache.ids \o buffer /\ Base = cache.ids
  PROVE  NearInv'
  <1>1. Base' = cache'.ids
    BY DEF Base
  <1>2. Grown(Base', Base)
    BY <1>1, CacheGrown, FlushGrown
  <1>3. Leftover'
    BY DEF Leftover
  <1> QED
    BY <1>2, <1>3, NearKept DEF NearInv

(* Steps after which there is one.                                          *)
LEMMA NearAtWork ==
  ASSUME BoundsAssumption, FileInv, FileInv', NearInv, disk' = disk,
         Writing' \/ Removing', op'.kind # "session", Grown(op'.offset.ids, Base), Leftover'
  PROVE  NearInv'
  <1>1. Base' = op'.offset.ids
    BY DEF Base
  <1> QED
    BY <1>1, NearKept DEF NearInv

LEMMA NearWriting ==
  ASSUME BoundsAssumption, FileInv, FileInv', NearInv, disk' = disk,
         Writing', op'.kind # "session", op'.offset.ids = Base
  PROVE  NearInv'
  <1>1. Leftover'
    BY DEF Leftover, Writing, Removing
  <1>2. Grown(op'.offset.ids, Base)
    BY DEF Grown
  <1> QED
    BY <1>1, <1>2, NearAtWork

LEMMA NearLoad ==
  ASSUME BoundsAssumption, FileInv, FileInv', NearInv, Load
  PROVE  NearInv'
  <1> USE DEF file, memory, client, bounds
  <1>1. ASSUME OpenNew
        PROVE  NearInv'
    <2>1. disk' = disk /\ cache' = cache /\ ~Removing' /\ op'.kind = "session"
      BY <1>1, NoOpType DEF OpenNew, Removing, NoOp
    <2> QED
      BY <2>1, NearAtRest
  <1>2. ASSUME OpenSaved
        PROVE  NearInv'
    <2>1. disk' = disk /\ cache' = cache /\ ~Removing' /\ ~Writing'
      BY <1>2 DEF OpenSaved, Opened, Return, Removing, Writing
    <2> QED
      BY <2>1, NearAtRest
  <1>3. ASSUME OpenRefused
        PROVE  NearInv'
    BY <1>3 DEF OpenRefused, vars, NearInv, Base, Leftover, Writing, Removing
  <1>4. ASSUME Trim \/ TrimFails
        PROVE  NearInv'
    <2>1. disk' = disk /\ cache'.ids = cache.ids /\ ~Removing' /\ ~Writing'
      BY <1>4, FileFacts, TornFile DEF Trim, TrimFails, Closed, Removing, Writing
    <2> QED
      BY <2>1, NearAtRest
  <1>5. ASSUME TrimSync
        PROVE  NearInv'
    <2>1. disk' = cache /\ cache' = cache /\ ~Removing' /\ ~Writing'
      BY <1>5 DEF TrimSync, Opened, Return, Removing, Writing
    <2>2. Base' = disk'.ids /\ Leftover'
      BY <2>1 DEF Base, Leftover
    <2> QED
      BY <2>2, NearSynced DEF NearInv, Grown
  <1> QED
    BY <1>1, <1>2, <1>3, <1>4, <1>5 DEF Load

LEMMA NearFlush ==
  ASSUME BoundsAssumption, FileInv, FileInv', NearInv, PartlyFlushed \/ FlushedAll
  PROVE  NearInv'
  <1>1. disk' = disk /\ op' = op /\ Writing' /\ Writing /\ ~Removing' /\ Base = cache.ids
        /\ cache'.ids \in {cache.ids, cache.ids \o buffer}
    BY CacheGrown, FileFacts, TornFile, FlushFacts DEF PartlyFlushed, FlushedAll, Writing, Removing
  <1>2. CASE op.kind = "session"
    BY <1>1, <1>2, NearAtRest
  <1>3. CASE op.kind # "session"
    <2>1. op'.offset.ids = Base
      BY <1>1, <1>3, CacheGrown
    <2> QED
      BY <1>1, <1>3, <2>1, NearWriting
  <1> QED
    BY <1>2, <1>3

LEMMA NearSyncs ==
  ASSUME BoundsAssumption, FileInv, FileInv', NearInv, Synced \/ SyncedAgain \/ Cleaned \/ PowerLoss
  PROVE  NearInv'
  <1> USE DEF file, memory, client, bounds
  <1>1. CASE Synced /\ op.kind \notin {"session", "message"}
    <2>1. disk' = cache /\ pc' = "sync" /\ op' = op /\ pc = "fsync"
      BY <1>1 DEF Synced, Return
    <2>2. Base' = op.offset.ids /\ Leftover'
      BY <1>1, <2>1 DEF Base, Writing, Leftover, Removing
    <2>3. disk'.ids = op.offset.ids \o <<op.id>> /\ op.id \in Lines
      BY <1>1, <2>1, Appended, FileFacts DEF Lines
    <2>4. Grown(disk'.ids, Base')
      BY <2>2, <2>3 DEF Grown
    <2> QED
      BY <2>2, <2>4, NearSynced DEF NearInv
  <1>2. CASE ~(Synced /\ op.kind \notin {"session", "message"})
    <2>1. disk' = cache' /\ ~Removing' /\ (Writing' => op'.kind = "session")
      BY <1>2, NoOpType DEF Synced, SyncedAgain, Cleaned, PowerLoss, Opened, Return, Closed, Removing, Writing
    <2>2. Base' = disk'.ids /\ Leftover'
      BY <2>1 DEF Base, Leftover
    <2> QED
      BY <2>2, NearSynced DEF NearInv, Grown
  <1> QED
    BY <1>1, <1>2

LEMMA NearFails ==
  ASSUME BoundsAssumption, FileInv, FileInv', NearInv, FlushFails \/ SyncFails
  PROVE  NearInv'
  <1>1. disk' = disk /\ cache'.ids = cache.ids /\ Writing
    BY FileFacts, TornFile DEF FlushFails, SyncFails, Raise, Writing, file
  <1>2. op.kind \in Durable \cup {"message", "session"}
    BY <1>1, Kind
  <1>3. CASE op.kind \in {"message", "session"}
    <2>1. ~Removing' /\ ~Writing'
      BY <1>3 DEF FlushFails, SyncFails, Raise, Writing, Removing
    <2> QED
      BY <1>1, <2>1, NearAtRest
  <1>4. CASE op.kind \in Durable
    <2>1. Removing' /\ op' = op /\ op.kind \notin {"message", "session"}
      BY <1>4, Kind DEF FlushFails, SyncFails, Raise, Removing
    <2>2. op.id # Root
      BY <1>1, <2>1, Kind
    <2>3. Leftover'
      <3>1. CASE FlushFails
        <4>1. cache.ids = op.offset.ids /\ buffer = <<op.id>> /\ buffer' \in {buffer, <<>>}
          BY <1>1, <2>1, <3>1 DEF FlushFails, FileInv, Frames, RecordPlace
        <4> QED
          BY <1>1, <2>1, <2>2, <4>1 DEF Leftover
      <3>2. CASE SyncFails
        <4>1. cache.ids = op.offset.ids \o <<op.id>> /\ buffer = <<>> /\ buffer' = buffer
          BY <2>1, <3>2, Appended DEF SyncFails, file
        <4> QED
          BY <1>1, <2>1, <2>2, <4>1 DEF Leftover
      <3> QED
        BY <3>1, <3>2
    <2>4. Base = op.offset.ids
      BY <1>1, <2>1, CacheGrown
    <2> QED
      BY <1>1, <2>1, <2>3, <2>4, NearAtWork DEF Grown
  <1> QED
    BY <1>2, <1>3, <1>4

LEMMA NearCleanup ==
  ASSUME BoundsAssumption, FileInv, FileInv', NearInv, Seek \/ Truncate \/ CleanupFails
  PROVE  NearInv'
  <1> USE DEF file, memory, client, bounds
  <1>0. Removing /\ op.kind \notin {"message", "session"} /\ disk' = disk
    BY Kind DEF Seek, Truncate, CleanupFails, Removing
  <1>1. Base = op.offset.ids
    BY <1>0, CacheGrown
  <1>2. CASE CleanupFails
    <2>1. cache'.ids = cache.ids /\ ~Removing' /\ ~Writing'
      BY <1>2, FileFacts, TornFile DEF CleanupFails, Return, Removing, Writing
    <2> QED
      BY <1>0, <2>1, NearAtRest
  <1>3. CASE Seek
    <2>1. Removing' /\ op' = op /\ cache'.ids = cache.ids \o buffer /\ buffer' = <<>>
      BY <1>3, FlushFacts DEF Seek, Removing
    <2>2. Leftover'
      BY <1>0, <2>1, FileFacts DEF NearInv, Leftover
    <2> QED
      BY <1>0, <1>1, <2>1, <2>2, NearAtWork DEF Grown
  <1>4. CASE Truncate
    <2>1. Removing' /\ op' = op /\ cache'.ids = op.offset.ids /\ buffer' = <<>>
      BY <1>0, <1>4 DEF Truncate, Removing, FileInv, Frames, RemovalFrame
    <2>2. Leftover'
      BY <2>1 DEF Leftover
    <2> QED
      BY <1>0, <1>1, <2>1, <2>2, NearAtWork DEF Grown
  <1> QED
    BY <1>2, <1>3, <1>4

LEMMA NearStops ==
  ASSUME BoundsAssumption, FileInv, FileInv', NearInv,
         CloseStream \/ Kill \/ BeginTurn \/ AppendRefused \/ Abort \/ Close
  PROVE  NearInv'
  <1> USE DEF file, memory, client, bounds
  <1>1. disk' = disk /\ ~Removing' /\ ~Writing'
    BY DEF CloseStream, Kill, Closed, BeginTurn, AppendRefused, Abort, Close, Removing, Writing
  <1>2. CASE CloseStream
    <2>1. Base = cache.ids
      BY <1>2, CacheGrown DEF CloseStream, Removing, Writing
    <2>2. cache'.ids \in {cache.ids, cache.ids \o buffer}
      BY <1>2, FileFacts, TornFile, FlushFacts DEF CloseStream
    <2> QED
      BY <1>1, <2>1, <2>2, NearAtRest
  <1>3. CASE ~CloseStream
    <2>1. cache' = cache
      BY <1>3 DEF Kill, BeginTurn, AppendRefused, Abort, Close
    <2> QED
      BY <1>1, <2>1, NearAtRest
  <1> QED
    BY <1>2, <1>3

LEMMA NearWrite ==
  ASSUME BoundsAssumption, FileInv, FileInv', NearInv, pc = "idle",
         NEW kind \in Durable \cup {"message"}, NEW parent, NEW target, NEW owner,
         Write(kind, parent, target, owner), disk' = disk
  PROVE  NearInv'
  <1>1. op'.kind # "session" /\ op'.offset = cache /\ Writing'
    BY Kind DEF Write, Writing
  <1>2. Base = cache.ids
    BY CacheGrown DEF Writing, Removing
  <1> QED
    BY <1>1, <1>2, NearWriting

LEMMA NearSelection ==
  ASSUME BoundsAssumption, FileInv, FileInv', NearInv, pc = "idle",
         NEW kind \in Durable, NEW parent, NEW target,
         DurableAppend(kind, parent, target) \/ DurableRefused(kind)
  PROVE  NearInv'
  <1> USE DEF file, memory, client, bounds
  <1>0. Base = cache.ids
    BY CacheGrown DEF Writing, Removing
  <1>1. CASE Write(kind, parent, target, turn) /\ disk' = disk
    BY <1>1, NearWrite
  <1>2. CASE /\ ~failed /\ pc' = "seek" /\ disk' = disk /\ cache' = cache /\ buffer' = buffer
             /\ op' = [kind |-> kind, id |-> Root, previous |-> head, offset |-> cache]
    <2>1. buffer = <<>>
      BY <1>2 DEF FileInv, Frames, Idle
    <2>2. Removing' /\ op'.kind # "session" /\ op'.offset.ids = cache.ids
      BY <1>2, Kind DEF Removing
    <2>3. Leftover'
      BY <1>2, <2>1, <2>2 DEF Leftover
    <2> QED
      BY <1>0, <1>2, <2>2, <2>3, NearAtWork DEF Grown
  <1>3. CASE /\ cache' = Flushed(cache, buffer) /\ buffer' = <<>> /\ pc' = "seek" /\ disk' = disk
             /\ op' = [kind |-> kind, id |-> Root, previous |-> head, offset |-> cache']
    <2>1. Removing' /\ op'.kind # "session" /\ op'.offset.ids = cache'.ids
          /\ cache'.ids = cache.ids \o buffer
      BY <1>3, Kind, FlushFacts DEF Removing
    <2>2. Leftover'
      BY <1>3, <2>1 DEF Leftover
    <2>3. Grown(op'.offset.ids, Base)
      BY <1>0, <2>1, FlushGrown
    <2> QED
      BY <1>3, <2>1, <2>2, <2>3, NearAtWork
  <1>4. CASE /\ cache' \in {cache, [cache EXCEPT !.torn = TRUE]} /\ pc' = pc /\ disk' = disk
    <2>1. cache'.ids = cache.ids /\ ~Removing' /\ ~Writing'
      BY <1>4, FileFacts, TornFile DEF Removing, Writing
    <2> QED
      BY <1>4, <2>1, NearAtRest
  <1>5. DurableAppend(kind, parent, target) => NearInv'
    BY <1>1, <1>2 DEF DurableAppend
  <1>6. DurableRefused(kind) => NearInv'
    BY <1>3, <1>4 DEF DurableRefused
  <1> QED
    BY <1>5, <1>6

LEMMA NextNear ==
  ASSUME BoundsAssumption, FileInv, FileInv', NearInv, [Next]_vars
  PROVE  NearInv'
  <1>1. CASE UNCHANGED vars
    BY <1>1 DEF vars, file, NearInv, Base, Leftover, Writing, Removing
  <1>2. ASSUME AppendMessage
        PROVE  NearInv'
    <2>1. pc = "idle" /\ Write("message", head, Root, turn) /\ disk' = disk
      BY <1>2 DEF AppendMessage
    <2> QED
      BY <2>1, NearWrite
  <1>3. ASSUME Commit \/ Checkpoint \/ Fork
        PROVE  NearInv'
    <2>1. pc = "idle" /\ {"turn_commit", "state", "select"} \subseteq Durable
      BY <1>3 DEF Commit, Checkpoint, Fork, Durable
    <2>2. \E kind \in Durable : \E parent, target :
            DurableAppend(kind, parent, target) \/ DurableRefused(kind)
      BY <1>3, <2>1 DEF Commit, Checkpoint, Fork
    <2> QED
      BY <2>1, <2>2, NearSelection
  <1> QED
    BY <1>1, <1>2, <1>3, NearLoad, NearFlush, NearSyncs, NearFails, NearCleanup, NearStops
    DEF Next, Step, Call

(* The steps of DurableSelection, by what happens to the phase.             *)
Narrows == Candidates' \in (SUBSET Candidates) \ {{}}
Chosen == IF Phase = "closed" THEN Root ELSE committed

LEMMA QuietStep ==
  ASSUME Narrows, Phase' = Phase, Phase # "offering", Phase = "closed" \/ committed' = committed
  PROVE  Durability!Next
  <1>1. Offer' = Offer /\ Chosen' = Chosen
    BY DEF Offer, Chosen
  <1>2. Durability!Settle
    BY <1>1 DEF Narrows, Chosen, Durability!Settle, Durability!Narrowed
  <1> QED
    BY <1>2 DEF Durability!Next

LEMMA WorkStep ==
  ASSUME Narrows, Phase = "offering", Phase' = "offering", committed' = committed,
         op'.kind = op.kind, op'.id = op.id, rec' = rec
  PROVE  Durability!Next
  <1>1. Offer' = Offer /\ Chosen' = Chosen
    BY DEF Offer, Chosen
  <1>2. Durability!Settle
    BY <1>1 DEF Narrows, Chosen, Durability!Settle, Durability!Narrowed
  <1> QED
    BY <1>2 DEF Durability!Next

LEMMA RefuseStep ==
  ASSUME Narrows, Phase \in {"open", "offering"}, Phase' = "refusing", committed' = committed
  PROVE  Durability!Next
  <1>1. Offer' = Root /\ Chosen' = Chosen
    BY DEF Offer, Chosen
  <1>2. Durability!Refuse
    BY <1>1 DEF Narrows, Chosen, Durability!Refuse, Durability!Narrowed, Durability!Attempted
  <1> QED
    BY <1>2 DEF Durability!Next

LEMMA StopStep ==
  ASSUME Narrows, Phase' = "closed"
  PROVE  Durability!Next
  <1>1. CASE Phase = "closed"
    BY <1>1, QuietStep
  <1>2. CASE Phase # "closed"
    <2>1. Offer' = Root /\ Chosen' = Root
      BY DEF Offer, Chosen
    <2>2. Durability!Stop
      BY <1>2, <2>1 DEF Narrows, Chosen, Durability!Stop, Durability!Narrowed
    <2> QED
      BY <2>2 DEF Durability!Next
  <1> QED
    BY <1>1, <1>2

LEMMA ReopenStep ==
  ASSUME Narrows, Phase = "closed", Phase' = "open", committed' \in Candidates'
  PROVE  Durability!Next
  <1>1. Offer' = Root /\ Offer = Root /\ Chosen' \in Candidates'
    BY DEF Offer, Chosen
  <1>2. Durability!Reopen
    BY <1>1 DEF Narrows, Chosen, Durability!Reopen, Durability!Narrowed
  <1> QED
    BY <1>2 DEF Durability!Next

(* The steps of the file, by what happens to the lines.                     *)
LEMMA LinesAre ==
  ASSUME FileInv
  PROVE  disk.ids \in Seq(Lines) /\ cache.ids \in Seq(Lines)
         /\ buffer \in {<<>>} \cup {<<i>> : i \in Lines}
  BY FileFacts DEF FileInv, TypeOK

LEMMA LinesNext ==
  ASSUME FileInv'
  PROVE  disk'.ids \in Seq(Lines) /\ cache'.ids \in Seq(Lines)
         /\ buffer' \in {<<>>} \cup {<<i>> : i \in Lines}
  BY BaseTypeNext DEF FileInv, TypeOK

LEMMA FindsNarrow ==
  ASSUME FileInv, FileInv', rec' = rec,
         Finds(disk'.ids, cache'.ids, buffer') \subseteq Finds(disk.ids, cache.ids, buffer)
  PROVE  Narrows
  <1>1. /\ Candidates = {Sel(rec, s) : s \in Finds(disk.ids, cache.ids, buffer)}
        /\ Candidates' = {Sel(rec, s) : s \in Finds(disk'.ids, cache'.ids, buffer')}
    BY CandidatesNow, CandidatesNext DEF CandidatesOf
  <1>2. disk'.ids \in Finds(disk'.ids, cache'.ids, buffer')
    BY LinesNext, Spreads
  <1> DEFINE F == Finds(disk.ids, cache.ids, buffer)
             G == Finds(disk'.ids, cache'.ids, buffer')
  <1>3. G \subseteq F /\ Candidates = {Sel(rec, s) : s \in F}
        /\ Candidates' = {Sel(rec, s) : s \in G} /\ disk'.ids \in G
    BY <1>1, <1>2
  <1> HIDE DEF F, G
  <1>4. Candidates' \subseteq Candidates /\ Candidates' # {}
    BY <1>3
  <1> QED
    BY <1>4 DEF Narrows

LEMMA FileNarrows ==
  ASSUME FileInv, FileInv', rec' = rec,
         \/ disk'.ids = disk.ids /\ cache'.ids = cache.ids /\ buffer' \in {buffer, <<>>}
         \/ disk'.ids = disk.ids /\ cache'.ids = cache.ids \o buffer /\ buffer' = <<>>
         \/ disk'.ids = cache.ids /\ cache'.ids = cache.ids /\ buffer' = buffer
         \/ disk' = cache' /\ cache' \in Between(disk, cache) /\ buffer' = <<>>
  PROVE  Narrows
  <1> DEFINE d == disk.ids
             c == cache.ids
             F == Finds(d, c, buffer)
  <1>1. d \in Seq(Lines) /\ c \in Seq(Lines) /\ buffer \in {<<>>} \cup {<<i>> : i \in Lines}
    BY LinesAre
  <1>2. /\ c \o <<>> = c /\ (c \o buffer) \o <<>> = c \o buffer
        /\ Spread(c, c) = {c} /\ Spread(c, c \o buffer) = {c, c \o buffer}
    BY <1>1, Spreads
  <1>3. Finds(d, c, <<>>) \subseteq F
    BY <1>2 DEF Finds
  <1>4. Finds(d, c \o buffer, <<>>) \subseteq F
    BY <1>2 DEF Finds
  <1>5. Finds(c, c, buffer) \subseteq F
    BY <1>2 DEF Finds, Spread
  <1>6. ASSUME disk' = cache', cache' \in Between(disk, cache), buffer' = <<>>
        PROVE  Finds(disk'.ids, cache'.ids, buffer') \subseteq F
    <2>1. cache'.ids \in Spread(d, c)
      BY <1>6, FileFacts, SpreadIs
    <2>2. Finds(cache'.ids, cache'.ids, <<>>) = {cache'.ids}
      <3>1. cache'.ids \in Seq(Lines) /\ <<>> \in {<<>>} \cup {<<i>> : i \in Lines}
        BY LinesNext
      <3> QED
        BY <3>1, Spreads DEF Finds
    <2> QED
      BY <1>6, <2>1, <2>2 DEF Finds
  <1>7. Finds(disk'.ids, cache'.ids, buffer') \subseteq F
    <2> HIDE DEF F
    <2>1. CASE disk'.ids = disk.ids /\ cache'.ids = cache.ids /\ buffer' = buffer
      BY <2>1 DEF F
    <2>2. CASE disk'.ids = disk.ids /\ cache'.ids = cache.ids /\ buffer' = <<>>
      BY <1>3, <2>2
    <2>3. CASE disk'.ids = disk.ids /\ cache'.ids = cache.ids \o buffer /\ buffer' = <<>>
      BY <1>4, <2>3
    <2>4. CASE disk'.ids = cache.ids /\ cache'.ids = cache.ids /\ buffer' = buffer
      BY <1>5, <2>4
    <2> QED
      BY <1>6, <2>1, <2>2, <2>3, <2>4
  <1> QED
    BY <1>7, FindsNarrow

(* Nothing but the file is left: no reopening finds anything else.          *)
LEMMA OneFound ==
  ASSUME FileInv, disk.ids = cache.ids, buffer = <<>>
  PROVE  Candidates = {Sel(rec, cache.ids)}
  <1>1. Finds(disk.ids, cache.ids, buffer) = {cache.ids}
    BY LinesAre, Spreads DEF Finds
  <1> QED
    BY <1>1, CandidatesNow DEF CandidatesOf

LEMMA OneFoundNext ==
  ASSUME FileInv', disk'.ids = cache'.ids, buffer' = <<>>
  PROVE  Candidates' = {Sel(rec', cache'.ids)}
  <1>1. Finds(disk'.ids, cache'.ids, buffer') = {cache'.ids}
    BY LinesNext, Spreads DEF Finds
  <1> QED
    BY <1>1, CandidatesNext DEF CandidatesOf

LEMMA MapsLoad ==
  ASSUME BoundsAssumption, FileInv, FileInv', Load
  PROVE  [Durability!Next]_Durability!vars
  <1> USE DEF file, memory, client, bounds
  <1>0. Phase = "closed" \/ UNCHANGED vars
    BY DEF Load, OpenNew, OpenSaved, OpenRefused, Trim, TrimSync, TrimFails, Phase
  <1>1. CASE OpenNew
    <2>1. op'.kind = "session" /\ Phase' = "closed" /\ Phase = "closed" /\ rec' = rec
      BY <1>1 DEF OpenNew, NoOp, Phase
    <2>2. disk.ids = <<>> /\ cache.ids = <<>> /\ buffer = <<>>
          /\ disk' = disk /\ cache' = cache /\ buffer' = <<Root>>
      BY <1>1 DEF OpenNew, Empty, FileInv, Files, Frames, Places
    <2>3. rec[Root].kind \notin Durable /\ Root \in Lines
      BY BoundsAssumption, RootedRec, NoOpType DEF Header, Durable
    <2> DEFINE e == <<>>
    <2>4. e \in Seq(Lines)
      OBVIOUS
    <2>5. Sel(rec, e \o <<Root>>) = Sel(rec, e)
      BY <2>3, <2>4, SelAppend, Zenon
    <2>6. Finds(e, e, <<Root>>) = {e, e \o <<Root>>}
      <3>1. <<Root>> \in {<<>>} \cup {<<i>> : i \in Lines}
        BY <2>3
      <3>2. Spread(e, e) = {e} /\ Spread(e, e \o <<Root>>) = {e, e \o <<Root>>}
        BY <2>4, <3>1, Spreads
      <3> HIDE DEF e
      <3> QED
        BY <3>2 DEF Finds
    <2>7. Candidates' = {Sel(rec, e)}
      BY <2>1, <2>2, <2>5, <2>6, CandidatesNext DEF CandidatesOf
    <2>8. Candidates = {Sel(rec, e)}
      BY <2>2, OneFound
    <2>9. Narrows
      BY <2>7, <2>8 DEF Narrows
    <2> QED
      BY <2>1, <2>9, QuietStep
  <1>2. CASE OpenSaved
    <2>1. Phase = "closed" /\ UNCHANGED file /\ rec' = rec
      BY <1>2 DEF OpenSaved, Phase
    <2>2. Narrows
      BY <2>1, FileNarrows
    <2>3. CASE cache.torn
      <3>1. Phase' = "closed"
        BY <1>2, <2>3 DEF OpenSaved, Phase
      <3> QED
        BY <2>1, <2>2, <3>1, QuietStep
    <2>4. CASE ~cache.torn
      <3>1. Phase' = "open" /\ committed' = Sel(rec, cache.ids)
        BY <1>2, <2>4, NoOpType, SelectionIsSel DEF OpenSaved, Opened, Return, Phase, Offering
      <3>2. committed' \in Candidates'
        <4>1. cache'.ids \in Finds(disk'.ids, cache'.ids, buffer')
          BY LinesNext, Spreads
        <4> QED
          BY <2>1, <3>1, <4>1, CandidatesNext DEF CandidatesOf
      <3> QED
        BY <2>1, <2>2, <3>1, <3>2, ReopenStep
    <2> QED
      BY <2>3, <2>4
  <1>3. CASE OpenRefused
    BY <1>3 DEF OpenRefused, vars, Durability!vars, Phase, Offering, Offer, Chosen, Candidates, MayFind, Selection
  <1>4. CASE Trim \/ TrimFails
    <2>1. Phase = "closed" /\ Phase' = "closed" /\ rec' = rec
      BY <1>4 DEF Trim, TrimFails, Closed, Phase
    <2>2. Narrows
      BY <1>4, <2>1, FileFacts, TornFile, FileNarrows DEF Trim, TrimFails
    <2> QED
      BY <2>1, <2>2, QuietStep
  <1>5. CASE TrimSync
    <2>1. Phase = "closed" /\ Phase' = "open" /\ committed' = Sel(rec, cache.ids) /\ rec' = rec
          /\ disk' = cache /\ cache' = cache /\ buffer' = buffer /\ buffer = <<>>
      BY <1>5, NoOpType, SelectionIsSel
      DEF TrimSync, Opened, Return, Phase, Offering, FileInv, Frames, Places
    <2>2. Narrows
      BY <2>1, FileNarrows
    <2>3. committed' \in Candidates'
      BY <2>1, OneFoundNext
    <2> QED
      BY <2>1, <2>2, <2>3, ReopenStep
  <1> QED
    BY <1>1, <1>2, <1>3, <1>4, <1>5 DEF Load

(* The phase of a record on its way, and of a removal.                      *)
LEMMA PhaseIs ==
  ASSUME BoundsAssumption, FileInv
  PROVE  /\ pc = "idle" => Phase = IF failed THEN "refusing" ELSE "open"
         /\ Writing => Phase = IF op.kind = "session" THEN "closed"
                               ELSE IF op.kind = "message" THEN "open" ELSE "offering"
         /\ Removing => Phase = IF failed THEN "refusing" ELSE "offering"
  <1>1. pc = "idle" => op.kind = "none"
    BY NoOpType DEF FileInv, Frames, Places
  <1>2. Writing => ~failed
    BY DEF FileInv, Frames, HeaderFrame, RecordFrame
  <1>3. Removing => op.kind \in Durable /\ op.kind # "session"
    BY Kind
  <1>4. Writing => op.kind \in Durable \cup {"message", "session"}
    BY Kind
  <1> QED
    BY <1>1, <1>2, <1>3, <1>4, Kind DEF Phase, Offering, Writing, Removing

LEMMA PhaseIsNext ==
  ASSUME BoundsAssumption, FileInv'
  PROVE  /\ pc' = "idle" => Phase' = IF failed' THEN "refusing" ELSE "open"
         /\ Writing' => Phase' = IF op'.kind = "session" THEN "closed"
                                 ELSE IF op'.kind = "message" THEN "open" ELSE "offering"
         /\ Removing' => Phase' = IF failed' THEN "refusing" ELSE "offering"
  <1>0. "message" \notin Durable /\ "session" \notin Durable
    BY DEF Durable
  <1>1. pc' = "idle" => op'.kind = "none"
    BY NoOpType DEF FileInv, Frames, Places
  <1>2. Writing' => ~failed'
    BY DEF FileInv, Frames, HeaderFrame, RecordFrame
  <1>3. Removing' => op'.kind \in Durable /\ op'.kind # "session"
    BY <1>0 DEF FileInv, Frames, RemovalFrame
  <1>4. Writing' => op'.kind \in Durable \cup {"message", "session"}
    BY DEF FileInv, Made, Frames, RecordFrame
  <1> QED
    BY <1>0, <1>1, <1>2, <1>3, <1>4 DEF Phase, Offering, Writing, Removing

LEMMA MapsFlush ==
  ASSUME BoundsAssumption, FileInv, FileInv', PartlyFlushed \/ FlushedAll
  PROVE  Durability!Next
  <1> USE DEF file, memory, client, bounds
  <1>1. Writing /\ Writing' /\ op' = op /\ rec' = rec /\ committed' = committed
    BY DEF PartlyFlushed, FlushedAll, Writing
  <1>2. Narrows
    BY <1>1, FileFacts, TornFile, FlushFacts, FileNarrows DEF PartlyFlushed, FlushedAll
  <1>3. Phase' = Phase
    BY <1>1, PhaseIs, PhaseIsNext
  <1> QED
    BY <1>1, <1>2, <1>3, QuietStep, WorkStep

LEMMA MapsSynced ==
  ASSUME BoundsAssumption, FileInv, FileInv', Synced
  PROVE  Durability!Next
  <1> USE DEF file, memory, client, bounds
  <1>1. Writing /\ rec' = rec /\ committed' = committed /\ failed' = failed /\ ~failed
        /\ disk' = cache /\ cache' = cache /\ buffer' = buffer
    BY DEF Synced, Writing, FileInv, Frames, HeaderFrame, RecordFrame
  <1>2. Narrows
    BY <1>1, FileNarrows
  <1>3. CASE op.kind = "message"
    <2>1. pc' = "idle"
      BY <1>3 DEF Synced, Return
    <2>2. Phase = "open" /\ Phase' = "open"
      BY <1>1, <1>3, <2>1, PhaseIs, PhaseIsNext
    <2> QED
      BY <1>1, <1>2, <2>2, QuietStep
  <1>4. CASE op.kind # "message"
    <2>1. Writing' /\ op' = op
      BY <1>4 DEF Synced, Writing
    <2>2. Phase' = Phase
      BY <1>1, <2>1, PhaseIs, PhaseIsNext
    <2> QED
      BY <1>1, <1>2, <2>1, <2>2, QuietStep, WorkStep
  <1> QED
    BY <1>3, <1>4

LEMMA MapsSyncedAgain ==
  ASSUME BoundsAssumption, FileInv, FileInv', SyncedAgain
  PROVE  Durability!Next
  <1> USE DEF file, memory, client, bounds
  <1>1. Writing /\ rec' = rec /\ disk' = cache /\ cache' = cache /\ buffer' = buffer
        /\ buffer = <<>> /\ pc' = "idle" /\ ~failed /\ ~failed' /\ op.kind # "message"
    BY DEF SyncedAgain, Opened, Return, Writing, FileInv, Frames, HeaderFrame, RecordFrame, RecordPlace
  <1>2. Narrows /\ Phase' = "open" /\ Candidates' = {Sel(rec, cache.ids)}
    BY <1>1, FileNarrows, PhaseIsNext, OneFoundNext
  <1>3. CASE op.kind = "session"
    <2>1. committed' = Sel(rec, cache.ids)
      BY <1>3, SelectionIsSel DEF SyncedAgain, Opened
    <2>2. Phase = "closed"
      BY <1>1, <1>3, PhaseIs
    <2> QED
      BY <1>2, <2>1, <2>2, ReopenStep
  <1>4. CASE op.kind # "session"
    <2>1. Phase = "offering"
      BY <1>1, <1>4, PhaseIs
    <2>2. op.kind \in Durable /\ op.kind = rec[op.id].kind /\ Sel(rec, cache.ids) = Pick(rec, op.id)
      BY <1>1, <1>4, Appended DEF SyncedAgain
    <2>3. disk = cache
      BY <1>1, <1>4 DEF FileInv, Frames, RecordPlace, SyncedAgain
    <2>4. Candidates = {Sel(rec, cache.ids)}
      BY <1>1, <2>3, OneFound
    <2>5. Offer = Sel(rec, cache.ids)
      BY <2>1, <2>2 DEF Offer, Pick
    <2>6. committed' = Sel(rec, cache.ids)
      BY <1>4, <2>2 DEF SyncedAgain, Selected, Pick, Durable
    <2>7. Offer' = Root /\ Chosen' = Sel(rec, cache.ids)
      BY <1>2, <2>6 DEF Offer, Chosen
    <2>8. Durability!Accept
      BY <1>2, <2>1, <2>4, <2>5, <2>7 DEF Durability!Accept, Chosen
    <2> QED
      BY <2>8 DEF Durability!Next
  <1> QED
    BY <1>3, <1>4

LEMMA MapsFails ==
  ASSUME BoundsAssumption, FileInv, FileInv', FlushFails \/ SyncFails
  PROVE  Durability!Next
  <1> USE DEF file, memory, client, bounds
  <1>1. Writing /\ rec' = rec /\ committed' = committed /\ failed'
    BY DEF FlushFails, SyncFails, Raise, Writing
  <1>2. Narrows
    BY <1>1, FileFacts, TornFile, FileNarrows DEF FlushFails, SyncFails
  <1>3. CASE op.kind = "session"
    <2>1. Phase = "closed" /\ Phase' = "closed"
      BY <1>3 DEF FlushFails, SyncFails, Raise, Phase
    <2> QED
      BY <1>2, <2>1, QuietStep
  <1>4. CASE op.kind # "session"
    <2>1. Phase \in {"open", "offering"}
      BY <1>1, <1>4, PhaseIs
    <2>2. Removing' \/ pc' = "idle"
      BY <1>4 DEF FlushFails, SyncFails, Raise, Removing
    <2>3. Phase' = "refusing"
      BY <1>1, <2>2, PhaseIsNext
    <2> QED
      BY <1>1, <1>2, <2>1, <2>3, RefuseStep
  <1> QED
    BY <1>3, <1>4

LEMMA MapsSeek ==
  ASSUME BoundsAssumption, FileInv, FileInv', Seek
  PROVE  Durability!Next
  <1> USE DEF file, memory, client, bounds
  <1>1. Removing /\ Removing' /\ op' = op /\ rec' = rec /\ committed' = committed /\ failed' = failed
    BY DEF Seek, Removing
  <1>2. Narrows
    BY <1>1, FlushFacts, FileNarrows DEF Seek
  <1>3. Phase' = Phase
    BY <1>1, PhaseIs, PhaseIsNext
  <1> QED
    BY <1>1, <1>2, <1>3, QuietStep, WorkStep

(* A removal goes back to the selection the store reports.                  *)
LEMMA MapsTruncate ==
  ASSUME BoundsAssumption, FileInv, FileInv', NearInv, Truncate
  PROVE  Durability!Next
  <1> USE DEF file, memory, client, bounds
  <1>1. Removing /\ Removing' /\ op' = op /\ rec' = rec /\ committed' = committed /\ failed' = failed
        /\ disk' = disk /\ cache' = op.offset /\ buffer' = <<>> /\ buffer = <<>>
    BY DEF Truncate, Removing, FileInv, Frames, RemovalFrame
  <1>2. Phase' = Phase
    BY <1>1, PhaseIs, PhaseIsNext
  <1>3. CASE cache.ids = op.offset.ids
    <2>1. Narrows
      BY <1>1, <1>3, FileNarrows
    <2> QED
      BY <1>1, <1>2, <2>1, QuietStep, WorkStep
  <1>4. CASE cache.ids # op.offset.ids
    <2>1. op.id # Root /\ cache.ids = op.offset.ids \o <<op.id>>
      BY <1>1, <1>4 DEF NearInv, Leftover
    <2>2. failed /\ committed = Sel(rec, op.offset.ids)
      BY <1>1, <1>4, <2>1 DEF FileInv, Frames, RemovalFrame
    <2>3. Phase = "refusing"
      BY <1>1, <2>2, PhaseIs
    <2>4. NearTo(disk.ids, op.offset.ids)
      BY <1>1, Kind, CacheGrown DEF NearInv
    <2> DEFINE d == disk.ids
               o == op.offset.ids
    <2>5. Spread(d, o) \subseteq Spread(d, cache.ids) \cup {o}
      <3>1. d \in Seq(Lines) /\ o \in Seq(Lines) /\ op.id \in Lines
        BY FileFacts DEF Lines
      <3> QED
        <4>1. Len(d) <= Len(o) \/ \E x \in Lines : d = o \o <<x>>
          BY <2>4 DEF NearTo
        <4>2. cache.ids = o \o <<op.id>>
          BY <2>1
        <4> HIDE DEF d, o
        <4>3. Spread(d, o) \subseteq Spread(d, o \o <<op.id>>) \cup {o}
          BY <3>1, <4>1, SpreadShrinks
        <4> QED
          BY <4>2, <4>3
    <2>6. Finds(disk'.ids, cache'.ids, buffer') = Spread(d, o)
      BY <1>1, FileFacts, ConcatEmptySeq DEF Finds
    <2>7. Candidates' = {Sel(rec, s) : s \in Spread(d, o)}
      BY <1>1, <2>6, CandidatesNext DEF CandidatesOf
    <2>8. Candidates = {Sel(rec, s) : s \in Finds(d, cache.ids, buffer)}
      BY CandidatesNow DEF CandidatesOf
    <2>9. Candidates' \subseteq Candidates \cup {committed}
      <3>1. Spread(d, o) \subseteq Finds(d, cache.ids, buffer) \cup {o}
        BY <2>5 DEF Finds
      <3> HIDE DEF d, o
      <3>2. committed = Sel(rec, o)
        BY <2>2 DEF o
      <3> QED
        BY <2>7, <2>8, <3>1, <3>2
    <2>10. Candidates' # {}
      <3>1. d \in Spread(d, o)
        BY DEF Spread
      <3> HIDE DEF d, o
      <3> QED
        BY <2>7, <3>1
    <2>11. Offer' = Offer /\ Chosen' = Chosen /\ Chosen = committed
      BY <1>1, <1>2, <2>3 DEF Offer, Chosen
    <2>12. Durability!TakeBack
      BY <1>2, <2>3, <2>9, <2>10, <2>11 DEF Durability!TakeBack, Chosen
    <2> QED
      BY <2>12 DEF Durability!Next
  <1> QED
    BY <1>3, <1>4

LEMMA MapsCleaned ==
  ASSUME BoundsAssumption, FileInv, FileInv', Cleaned
  PROVE  Durability!Next
  <1> USE DEF file, memory, client, bounds
  <1>1. Removing /\ pc' = "idle" /\ rec' = rec /\ committed' = committed /\ failed' = failed
        /\ disk' = cache /\ cache' = cache /\ buffer' = <<>> /\ buffer = <<>>
    BY DEF Cleaned, Return, Removing, FileInv, Frames, RemovalFrame
  <1>2. Narrows
    BY <1>1, FileNarrows
  <1>3. CASE failed
    <2>1. Phase = "refusing" /\ Phase' = "refusing"
      BY <1>1, <1>3, PhaseIs, PhaseIsNext
    <2> QED
      BY <1>1, <1>2, <2>1, QuietStep
  <1>4. CASE ~failed
    <2>1. Phase = "offering" /\ Phase' = "open"
      BY <1>1, <1>4, PhaseIs, PhaseIsNext
    <2>2. committed = Sel(rec, cache.ids)
      BY <1>1, <1>4 DEF FileInv, Frames, RemovalFrame, Mirrors
    <2>3. Candidates' = {committed}
      BY <1>1, <2>2, OneFoundNext
    <2>4. Offer' = Root /\ Chosen' = committed /\ Chosen = committed
      BY <1>1, <2>1 DEF Offer, Chosen
    <2>5. Durability!Reject
      BY <2>1, <2>3, <2>4 DEF Durability!Reject, Chosen
    <2> QED
      BY <2>5 DEF Durability!Next
  <1> QED
    BY <1>3, <1>4

LEMMA MapsCleanupFails ==
  ASSUME BoundsAssumption, FileInv, FileInv', CleanupFails
  PROVE  Durability!Next
  <1> USE DEF file, memory, client, bounds
  <1>1. Removing /\ pc' = "idle" /\ rec' = rec /\ committed' = committed /\ failed'
    BY DEF CleanupFails, Return, Removing
  <1>2. Narrows
    BY <1>1, FileFacts, TornFile, FileNarrows DEF CleanupFails
  <1>3. Phase' = "refusing"
    BY <1>1, PhaseIsNext
  <1>4. Phase \in {"refusing", "offering"}
    BY <1>1, PhaseIs
  <1> QED
    BY <1>1, <1>2, <1>3, <1>4, QuietStep, RefuseStep

LEMMA MapsStops ==
  ASSUME BoundsAssumption, FileInv, FileInv', CloseStream \/ Kill \/ PowerLoss
  PROVE  Durability!Next
  <1> USE DEF file, memory, client, bounds
  <1>1. Phase' = "closed" /\ rec' = rec
    BY DEF CloseStream, Kill, PowerLoss, Closed, Phase
  <1>2. Narrows
    BY <1>1, FileFacts, TornFile, FlushFacts, FileNarrows DEF CloseStream, Kill, PowerLoss
  <1> QED
    BY <1>1, <1>2, StopStep

LEMMA MapsQuiet ==
  ASSUME BoundsAssumption, FileInv, FileInv', BeginTurn \/ AppendRefused \/ Abort \/ Close
  PROVE  Durability!Next
  <1> USE DEF file, memory, client, bounds
  <1>1. pc = "idle" /\ pc' \in {"idle", "closing"} /\ rec' = rec /\ committed' = committed
        /\ failed' = failed /\ op' = op /\ UNCHANGED file
    BY DEF BeginTurn, AppendRefused, Abort, Close
  <1>2. Narrows
    BY <1>1, FileNarrows
  <1>3. op.kind = "none"
    BY <1>1, NoOpType DEF FileInv, Frames, Places
  <1>4. Phase' = Phase /\ Phase # "offering"
    BY <1>1, <1>3 DEF Phase, Offering
  <1> QED
    BY <1>1, <1>2, <1>4, QuietStep

(* A record that is offered: all a reopening finds but what it found before.*)
LEMMA MapsWrite ==
  ASSUME BoundsAssumption, FileInv, FileInv', pc = "idle", ~failed,
         NEW kind \in Durable \cup {"message"}, NEW parent, NEW target, NEW owner,
         Write(kind, parent, target, owner), disk' = disk, cache' = cache,
         committed' = committed, failed' = failed
  PROVE  Durability!Next
  <1> DEFINE n == nextId
             d == disk.ids
             c == cache.ids
  <1>1. Writing' /\ op'.kind = kind /\ op'.id = n /\ kind # "session"
    BY Kind DEF Write, Writing
  <1>2. buffer = <<>> /\ ~cache.torn
    BY DEF FileInv, Frames, Idle
  <1>3. buffer' = <<n>> /\ n \in 1..MaxId /\ n \in Lines /\ MaxId \in Nat
    BY <1>2, RootedRec DEF Write, Lines, Ids
  <1>4. rec'[n].kind = kind /\ \A i \in 0..(n - 1) : rec'[i] = rec[i]
    BY <1>3, RootedRec DEF Write, Lines, Ids
  <1>5. Phase = "open" /\ Phase' = IF kind = "message" THEN "open" ELSE "offering"
    BY <1>1, PhaseIs, PhaseIsNext
  <1>6. d \in Seq(Lines) /\ c \in Seq(Lines) /\ Chain(rec, n, d) /\ Chain(rec, n, c)
    BY FileFacts DEF FileInv, Files
  <1>7. c \o <<>> = c
    BY <1>6, ConcatEmptySeq
  <1>8. Finds(d, c, buffer) = Spread(d, c)
    BY <1>2, <1>7 DEF Finds
  <1>9. Finds(d, c, <<n>>) \subseteq Spread(d, c) \cup {c \o <<n>>}
    BY <1>3, <1>6, SpreadGrows DEF Finds
  <1>10. ASSUME NEW s \in Spread(d, c)
         PROVE  Sel(rec', s) = Sel(rec, s)
    <2>1. PICK h \in Between(disk, cache) : h.ids = s
      <3>1. disk \in File /\ cache \in File
        BY FileFacts
      <3>2. \A x \in Spread(disk.ids, cache.ids) : \E y \in Between(disk, cache) : y.ids = x
        BY <3>1, SpreadIs
      <3> QED
        BY <3>2
    <2>2. h \in File /\ Chain(rec, n, h.ids)
      <3>1. n \in Nat
        BY <1>3
      <3> QED
        BY <1>6, <3>1, FileFacts, BetweenIs, BetweenChains
    <2>3. s \in Seq(Lines) /\ \A i \in 1..Len(s) : rec'[s[i]] = rec[s[i]]
      BY <1>4, <2>1, <2>2, FileType DEF Chain
    <2> QED
      BY <2>3, SelSame
  <1>11. Sel(rec', c \o <<n>>) = IF kind \in Durable THEN Pick(rec', n) ELSE Sel(rec, c)
    <2>1. Sel(rec', c \o <<n>>) = IF rec'[n].kind \in Durable THEN Pick(rec', n) ELSE Sel(rec', c)
      BY <1>3, <1>6, SelAppend
    <2>2. c \in Spread(d, c)
      BY DEF Spread
    <2> QED
      BY <1>4, <1>10, <2>1, <2>2
  <1>12. /\ Candidates = {Sel(rec, s) : s \in Spread(d, c)}
         /\ Candidates' = {Sel(rec', s) : s \in Finds(d, c, <<n>>)}
    BY <1>3, <1>8, CandidatesNow, CandidatesNext DEF CandidatesOf
  <1>13. Candidates' \subseteq Candidates \cup {Sel(rec', c \o <<n>>)}
    <2> HIDE DEF n, d, c
    <2> QED
      BY <1>9, <1>10, <1>12
  <1>14. Candidates' # {} /\ Sel(rec, c) \in Candidates
    <2>1. d \in Finds(d, c, <<n>>) /\ c \in Spread(d, c)
      BY DEF Finds, Spread
    <2> HIDE DEF n, d, c
    <2> QED
      BY <1>12, <2>1
  <1>15. CASE kind = "message"
    <2>1. Narrows
      BY <1>11, <1>13, <1>14, <1>15, Kind DEF Narrows
    <2> QED
      BY <1>5, <1>15, <2>1, QuietStep
  <1>16. CASE kind # "message"
    <2>1. Offer' = Pick(rec', n)
      BY <1>1, <1>4, <1>5, <1>16 DEF Offer, Pick
    <2>2. Offer' \in Ids
      <3>0. rec' \in [Lines -> Record]
        BY DEF FileInv, TypeOK
      <3>1. rec' \in [Lines -> Record] /\ n \in Ids
        BY <1>3, <3>0 DEF Ids
      <3> QED
        BY <1>3, <2>1, <3>1 DEF Pick, Record
    <2>3. Chosen' = Chosen
      BY <1>5, <1>16 DEF Chosen
    <2>4. Candidates' \in (SUBSET (Candidates \cup {Offer'})) \ {{}}
      BY <1>11, <1>13, <1>14, <1>16, <2>1
    <2>5. Durability!Offer
      BY <1>5, <1>16, <2>2, <2>3, <2>4 DEF Durability!Offer, Selections, Chosen
    <2> QED
      BY <2>5 DEF Durability!Next
  <1> QED
    BY <1>15, <1>16

LEMMA MapsSelection ==
  ASSUME BoundsAssumption, FileInv, FileInv', pc = "idle",
         NEW kind \in Durable, NEW parent, NEW target,
         DurableAppend(kind, parent, target) \/ DurableRefused(kind)
  PROVE  Durability!Next
  <1> USE DEF file, memory, client, bounds
  <1>1. CASE /\ ~failed /\ Write(kind, parent, target, turn)
             /\ UNCHANGED <<disk, cache, entries, committed, failed, client>>
    BY <1>1, MapsWrite
  <1>2. CASE /\ ~failed /\ kind # "select" /\ pc' = "seek"
             /\ op' = [kind |-> kind, id |-> Root, previous |-> head, offset |-> cache]
             /\ UNCHANGED <<rec, nextId, file, memory, turn, begun, told, bounds>>
    <2>1. Phase = "open" /\ Phase' = "offering"
      BY <1>2, PhaseIs, PhaseIsNext DEF Removing
    <2>2. Narrows
      BY <1>2, FileNarrows
    <2>3. Offer' = Root /\ Chosen' = Chosen /\ Root \in Ids
      BY <1>2, <2>1, NoOpType DEF Offer, Chosen
    <2>4. Durability!Offer
      BY <2>1, <2>2, <2>3 DEF Durability!Offer, Selections, Chosen, Narrows
    <2> QED
      BY <2>4 DEF Durability!Next
  <1>3. CASE DurableRefused(kind)
    <2>1. failed /\ failed' /\ rec' = rec /\ committed' = committed /\ (Removing' \/ pc' = "idle")
      BY <1>3 DEF DurableRefused, Removing
    <2>2. Phase = "refusing" /\ Phase' = "refusing"
      BY <2>1, PhaseIs, PhaseIsNext
    <2>3. Narrows
      BY <1>3, <2>1, FileFacts, TornFile, FlushFacts, FileNarrows DEF DurableRefused
    <2> QED
      BY <2>1, <2>2, <2>3, QuietStep
  <1> QED
    BY <1>1, <1>2, <1>3 DEF DurableAppend

LEMMA MapsNext ==
  ASSUME BoundsAssumption, FileInv, FileInv', NearInv, [Next]_vars
  PROVE  [Durability!Next]_Durability!vars
  <1>1. CASE UNCHANGED vars
    BY <1>1 DEF vars, file, memory, Durability!vars, Phase, Offering, Offer, Chosen, Candidates, MayFind, Selection
  <1>2. CASE AppendMessage
    <2>1. /\ pc = "idle" /\ ~failed /\ Write("message", head, Root, turn) /\ disk' = disk
          /\ cache' = cache /\ committed' = committed /\ failed' = failed
      BY <1>2 DEF AppendMessage, memory
    <2> QED
      BY <2>1, MapsWrite
  <1>3. CASE Commit \/ Checkpoint \/ Fork
    <2>1. pc = "idle" /\ {"turn_commit", "state", "select"} \subseteq Durable
      BY <1>3 DEF Commit, Checkpoint, Fork, Durable
    <2>2. \E kind \in Durable : \E parent, target :
            DurableAppend(kind, parent, target) \/ DurableRefused(kind)
      BY <1>3, <2>1 DEF Commit, Checkpoint, Fork
    <2> QED
      BY <2>1, <2>2, MapsSelection
  <1> QED
    BY <1>1, <1>2, <1>3, MapsLoad, MapsFlush, MapsSynced, MapsSyncedAgain, MapsFails, MapsSeek,
       MapsTruncate, MapsCleaned, MapsCleanupFails, MapsStops, MapsQuiet
    DEF Next, Step, Call

LEMMA InitMaps ==
  ASSUME BoundsAssumption, Init
  PROVE  Durability!Init /\ NearInv
  <1>1. FileInv
    BY InitFileInv
  <1>2. disk.ids = <<>> /\ cache.ids = <<>> /\ buffer = <<>> /\ pc = "closed"
    BY DEF Init, Empty
  <1>3. Sel(rec, cache.ids) = Root
    BY <1>2 DEF Sel, Marks
  <1>4. Candidates = {Root}
    BY <1>1, <1>2, <1>3, OneFound
  <1>5. Phase = "closed"
    BY <1>2 DEF Phase
  <1>6. Durability!Init
    BY <1>4, <1>5 DEF Durability!Init, Offer
  <1>7. NearInv
    BY <1>2 DEF NearInv, NearTo, Leftover, Base, Writing, Removing
  <1> QED
    BY <1>6, <1>7

(* Every step of the journal is one of DurableSelection or changes nothing  *)
(* it can see: an offered selection is accepted once no reopening can find  *)
(* another (commit, checkpoint, fork), rejected once nothing of it is left, *)
(* and in every other case the store refuses offers until it is reopened.   *)
THEOREM SelectsDurably == Spec => ImplementsSelection
  <1>1. Init => Durability!Init /\ NearInv
    BY BoundsAssumption, InitMaps
  <1>2. FileInv /\ FileInv' /\ NearInv /\ [Next]_vars => NearInv'
    BY BoundsAssumption, NextNear
  <1>3. FileInv /\ FileInv' /\ NearInv /\ [Next]_vars => [Durability!Next]_Durability!vars
    BY BoundsAssumption, MapsNext
  <1> QED
    BY <1>1, <1>2, <1>3, FileHolds, PTL DEF Spec, ImplementsSelection, Durability!Spec
==============================================================================
