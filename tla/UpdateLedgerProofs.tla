-------------------------- MODULE UpdateLedgerProofs --------------------------
(* For every set of updates and every bound: a result is put to providers   *)
(* by one core at most, and the manifest keeps every result until the       *)
(* conversation has its reply. And, below, for every set of contents: the   *)
(* submissions that ask for these updates are accounted for (SourceMirror). *)
EXTENDS UpdateLedger, FiniteSetTheorems, SequenceTheorems, TLAPS

Snapshot == [results : SUBSET Request, claimed : SUBSET Request]
Told == [kind : {"results", "continue"}, requests : SUBSET Request]
Ack == [kind : {"ack"}, token : Nat, accepted : BOOLEAN]
Asking == [kind : {"claim", "finish"}, requests : SUBSET Request, token : Nat, data : {{}}]

Types ==
  /\ results \in SUBSET Request /\ claimed \in SUBSET Request /\ untold \in SUBSET Request
  /\ inbox \in SUBSET Request /\ review \in SUBSET Request /\ disk \in Snapshot
  /\ produced \in SUBSET Request /\ recorded \in SUBSET Request /\ committed \in SUBSET Request
  /\ writing \in [kind : {"none", "claim", "finish"}, requests : SUBSET Request, token : Nat,
                  data : SUBSET Snapshot]
  /\ toCore \in Seq(Told \cup Ack) /\ toSupervisor \in Seq(Asking)
  /\ stage \in {"none", "queued", "claiming", "working", "committed"}
  /\ token \in Nat /\ cores \in 1..MaxCores
  /\ asked \in [Request -> SUBSET (Nat \X Nat)]

(* A review is of one result.                                               *)
OneReview == IF stage = "none" THEN review = {} ELSE \E r \in Request : review = {r}

(* What the supervisor knows was produced; nothing is both open and claimed,*)
(* and a result is told of before its claim is looked at.                   *)
Apart ==
  /\ results \cap claimed = {} /\ disk.results \cap disk.claimed = {} /\ claimed \cap untold = {}
  /\ results \subseteq produced /\ claimed \subseteq produced /\ untold \subseteq produced
  /\ disk.results \subseteq produced /\ disk.claimed \subseteq produced

(* The one write under way holds the states as they were when it began, and *)
(* the claims that are in the manifest are all but the one being written.   *)
Write ==
  /\ writing.kind = "none" => writing = NoWrite
  /\ writing.kind # "none" =>
       /\ \E data \in Snapshot : writing.data = {data}
       /\ \A data \in writing.data :
            /\ data.results \subseteq results /\ data.claimed = claimed
            /\ recorded \subseteq data.results \cup data.claimed \cup committed
       /\ writing.requests \cap (results \cup untold) = {} /\ writing.requests \subseteq produced
  /\ writing.kind = "claim" => writing.requests \subseteq claimed
  /\ writing.kind = "finish" =>
       /\ writing.requests \cap claimed = {}
       /\ writing.requests \subseteq committed /\ writing.requests \subseteq disk.claimed
  /\ claimed \subseteq disk.claimed \cup IF writing.kind = "claim" THEN writing.requests ELSE {}

Tokens ==
  /\ \A i \in DOMAIN toCore : toCore[i].kind = "ack" => toCore[i].token <= token
  /\ \A i \in DOMAIN toSupervisor : toSupervisor[i].token <= token
  /\ writing.token <= token
  /\ stage = "claiming" => token # 0

(* A claim that is waited for is the last message of its core, and what was *)
(* accepted, or is worked on, is in the manifest.                           *)
Granted == review \subseteq claimed /\ review \subseteq disk.claimed

Waited ==
  /\ stage = "claiming" =>
       /\ \A i \in DOMAIN toSupervisor :
            toSupervisor[i].kind = "claim" /\ toSupervisor[i].token = token =>
              i = Len(toSupervisor) /\ toSupervisor[i].requests = review
       /\ writing.kind = "claim" /\ writing.token = token =>
            toSupervisor = <<>> /\ writing.requests = review
       /\ \A i \in DOMAIN toCore :
            toCore[i].kind = "ack" /\ toCore[i].token = token =>
              toSupervisor = <<>> /\ Unlocked /\ (toCore[i].accepted => Granted)
  /\ stage \in {"working", "committed"} => toSupervisor = <<>> /\ Unlocked
  /\ stage = "working" => Granted
  /\ stage = "committed" => review \subseteq committed
  /\ \A i \in DOMAIN toSupervisor :
       toSupervisor[i].kind = "finish" => toSupervisor[i].requests \subseteq committed

(* What a provider heard of is open nowhere.                                *)
Shut(r) ==
  /\ r \in produced /\ r \notin results /\ r \notin untold /\ r \notin disk.results
  /\ \A data \in writing.data : r \notin data.results
  /\ writing.kind = "claim" => r \notin writing.requests
  /\ r \notin committed => r \in claimed /\ r \in disk.claimed

Heard == \A r \in Request : asked[r] # {} => Shut(r)

(* A core has nothing to review of what an earlier core put to a provider.  *)
Unknown(r) ==
  /\ r \notin inbox /\ r \notin review
  /\ \A i \in DOMAIN toCore : toCore[i].kind # "ack" => r \notin toCore[i].requests

Past == \A r \in Request : \A a \in asked[r] :
          /\ a[1] \in 1..cores /\ a[2] \in 1..token
          /\ a[1] # cores => Unknown(r)

Kept == /\ recorded \subseteq disk.results \cup disk.claimed \cup committed
        /\ recorded \subseteq results \cup claimed \cup committed

Inv == Types /\ OneReview /\ Apart /\ Write /\ Tokens /\ Waited /\ Heard /\ Past /\ NoReplay /\ Kept

LEMMA Tails ==
  ASSUME NEW S, NEW q \in Seq(S), q # <<>>
  PROVE  /\ Tail(q) \in Seq(S) /\ Head(q) \in S /\ 1 \in DOMAIN q /\ Head(q) = q[1]
         /\ Len(q) \in Nat \ {0} /\ Len(Tail(q)) = Len(q) - 1
         /\ \A i \in DOMAIN Tail(q) : i \in Nat /\ i + 1 \in DOMAIN q /\ Tail(q)[i] = q[i + 1]
         /\ Len(q) = 1 => Tail(q) = <<>>
<1>1. Tail(q) \in Seq(S) /\ Head(q) \in S /\ 1 \in DOMAIN q /\ Head(q) = q[1]
      /\ Len(q) \in Nat \ {0} /\ Len(Tail(q)) = Len(q) - 1
  OBVIOUS
<1>2. \A i \in DOMAIN Tail(q) : i \in Nat /\ i + 1 \in DOMAIN q /\ Tail(q)[i] = q[i + 1]
  OBVIOUS
<1>3. Len(q) = 1 => Tail(q) = <<>>
  <2>1. Len(q) = 1 => Len(Tail(q)) = 0
    BY <1>1
  <2> QED BY <1>1, <2>1, EmptySeq
<1> QED BY <1>1, <1>2, <1>3

LEMMA Appends ==
  ASSUME NEW S, NEW q \in Seq(S), NEW e \in S
  PROVE  /\ Append(q, e) \in Seq(S) /\ Len(Append(q, e)) = Len(q) + 1 /\ Len(q) \in Nat
         /\ \A i \in DOMAIN Append(q, e) :
              \/ i \in DOMAIN q /\ Append(q, e)[i] = q[i]
              \/ i = Len(q) + 1 /\ Append(q, e)[i] = e
  OBVIOUS

LEMMA InitInv == Init => Inv
  BY LedgerAssumption DEF Init, Inv, Types, OneReview, Apart, Write, Tokens, Waited,
       Heard, Past, NoReplay, Kept, NoWrite, Snapshot

LEMMA NextInv == Inv /\ [Next]_vars => Inv'
<1> SUFFICES ASSUME Inv, [Next]_vars PROVE Inv'
  OBVIOUS
<1> USE LedgerAssumption DEF Inv
<1>1. ASSUME NEW r \in Request, Produce(r) PROVE Inv'
  <2>1. Types' /\ OneReview' /\ Tokens' /\ NoReplay'
    BY <1>1 DEF Produce, core, counters, Types, OneReview, Tokens, NoReplay
  <2>2. Apart' /\ Write' /\ Kept'
    BY <1>1 DEF Produce, Apart, Write, Kept
  <2>3. Waited'
    BY <1>1 DEF Produce, core, Waited, Granted, Unlocked
  <2>4. Heard'
    BY <1>1 DEF Produce, Heard, Shut
  <2>5. Past'
    BY <1>1 DEF Produce, core, counters, Past, Unknown
  <2> QED BY <2>1, <2>2, <2>3, <2>4, <2>5
<1>2. ASSUME NEW r \in Request, Announce(r) PROVE Inv'
  <2>1. Types' /\ OneReview' /\ Tokens' /\ NoReplay'
    BY <1>2 DEF Announce, Record, core, Types, Snapshot, Told, OneReview, Tokens, NoReplay
  <2>2. Apart' /\ Write' /\ Kept'
    BY <1>2 DEF Announce, Record, Unlocked, Apart, Write, NoWrite, Kept
  <2>3. Waited'
    BY <1>2 DEF Announce, Record, Unlocked, core, Waited, Granted
  <2>4. Heard'
    BY <1>2 DEF Announce, Record, Heard, Shut
  <2> DEFINE m == [kind |-> "results", requests |-> {r}]
  <2>5. /\ toCore' = Append(toCore, m) /\ m \in Told \cup Ack /\ r \in untold
        /\ UNCHANGED <<asked, cores, token, inbox, review>>
    BY <1>2 DEF Announce, core, Told
  <2>6. ASSUME NEW q \in Request, NEW a \in asked[q], a[1] # cores PROVE Unknown(q)'
    BY <2>5, <2>6, Appends DEF Past, Unknown, Heard, Shut
  <2>7. Past'
    BY <2>5, <2>6 DEF Past
  <2> QED BY <2>1, <2>2, <2>3, <2>4, <2>7
<1>3. ASSUME NEW r \in Request, Review(r) PROVE Inv'
  <2>1. Types' /\ OneReview' /\ Tokens' /\ NoReplay'
    BY <1>3 DEF Review, ledger, counters, history, Types, OneReview, Tokens, NoReplay
  <2>2. Apart' /\ Write' /\ Kept'
    BY <1>3 DEF Review, ledger, history, Apart, Write, Kept
  <2>3. Waited'
    BY <1>3 DEF Review, history, Waited
  <2>4. Heard'
    BY <1>3 DEF Review, ledger, history, Heard, Shut
  <2>5. Past'
    BY <1>3 DEF Review, counters, history, Past, Unknown
  <2> QED BY <2>1, <2>2, <2>3, <2>4, <2>5
<1>4. CASE Save
  <2>1. Types' /\ OneReview' /\ Tokens' /\ NoReplay'
    BY <1>4 DEF Save, Record, core, Types, Snapshot, OneReview, Tokens, NoReplay
  <2>2. Apart' /\ Write' /\ Kept'
    BY <1>4 DEF Save, Record, Unlocked, Apart, Write, NoWrite, Kept
  <2>3. Waited'
    BY <1>4 DEF Save, Record, Unlocked, core, Waited, Granted
  <2>4. Heard'
    BY <1>4 DEF Save, Record, Heard, Shut
  <2>5. Past'
    BY <1>4 DEF Save, core, Past, Unknown
  <2> QED BY <2>1, <2>2, <2>3, <2>4, <2>5
<1>5. CASE Resume
  <2>1. Types' /\ OneReview' /\ Tokens' /\ NoReplay'
    BY <1>5 DEF Resume, Pending, ledger, core, history, Types, Told, OneReview, Tokens,
         NoReplay
  <2>2. Apart' /\ Write' /\ Kept'
    BY <1>5 DEF Resume, ledger, history, Apart, Write, Kept
  <2>3. Waited'
    BY <1>5 DEF Resume, ledger, core, history, Waited, Granted, Unlocked
  <2>4. Heard'
    BY <1>5 DEF Resume, ledger, history, Heard, Shut
  <2> DEFINE m == [kind |-> "continue", requests |-> results]
  <2>5. /\ toCore' = Append(toCore, m) /\ m \in Told \cup Ack
        /\ UNCHANGED <<asked, cores, token, inbox, review>>
    BY <1>5 DEF Resume, Pending, core, history, Told, Types
  <2>6. ASSUME NEW q \in Request, NEW a \in asked[q], a[1] # cores PROVE Unknown(q)'
    BY <2>5, <2>6, Appends DEF Past, Unknown, Heard, Shut
  <2>7. Past'
    BY <2>5, <2>6 DEF Past
  <2> QED BY <2>1, <2>2, <2>3, <2>4, <2>7
<1>6. CASE BeginClaim
  <2> DEFINE m == Head(toSupervisor)
  <2>1. /\ toSupervisor # <<>> /\ toSupervisor' = Tail(toSupervisor) /\ m.kind = "claim"
        /\ m.requests \cap untold = {} /\ Unlocked /\ writing = NoWrite
    BY <1>6 DEF BeginClaim, Begins, Unlocked
  <2>2. /\ m \in Asking /\ toSupervisor' \in Seq(Asking) /\ m.token <= token /\ m.token \in Nat
        /\ m.requests \subseteq Request /\ m.data = {}
        /\ \A i \in DOMAIN toSupervisor' : i \in Nat /\ i + 1 \in DOMAIN toSupervisor
                                           /\ toSupervisor'[i] = toSupervisor[i + 1]
        /\ Len(toSupervisor') = Len(toSupervisor) - 1 /\ Len(toSupervisor) \in Nat
    <3>1. toSupervisor \in Seq(Asking) /\ m \in Asking /\ m = toSupervisor[1] /\ 1 \in DOMAIN toSupervisor
      BY <2>1, Tails DEF Types
    <3>2. m.token <= token /\ m.token \in Nat /\ m.requests \subseteq Request /\ m.data = {}
      BY <3>1 DEF Tokens, Asking
    <3>3. toSupervisor' \in Seq(Asking) /\ Len(toSupervisor') = Len(toSupervisor) - 1
      BY <2>1, <3>1, Tails
    <3>4. \A i \in DOMAIN toSupervisor' : i \in Nat /\ i + 1 \in DOMAIN toSupervisor
                                           /\ toSupervisor'[i] = toSupervisor[i + 1]
      BY <2>1, <3>1, Tails
    <3> QED BY <3>1, <3>2, <3>3, <3>4
  <2>3. stage \notin {"working", "committed"}
        /\ \A i \in DOMAIN toCore : stage = "claiming" /\ toCore[i].kind = "ack" => toCore[i].token # token
    BY <2>1 DEF Waited
  <2>4. \A i \in DOMAIN toSupervisor' :
          /\ toSupervisor'[i].token <= token
          /\ toSupervisor'[i].kind = "finish" => toSupervisor'[i].requests \subseteq committed
          /\ stage = "claiming" /\ toSupervisor'[i].kind = "claim" /\ toSupervisor'[i].token = token =>
               i = Len(toSupervisor') /\ toSupervisor'[i].requests = review
    BY <2>2 DEF Waited, Tokens
  <2>5. stage = "claiming" /\ m.token = token => toSupervisor' = <<>> /\ m.requests = review
    BY <2>1, <2>2, Tails DEF Waited
  <2>6. UNCHANGED <<untold, disk, core, counters, history>>
    BY <1>6 DEF BeginClaim
  <2>7. CASE m.requests \subseteq results
    <3>1. /\ claimed' = claimed \cup m.requests /\ results' = results \ m.requests /\ UNCHANGED toCore
          /\ writing' = [kind |-> "claim", requests |-> m.requests, token |-> m.token,
                         data |-> {[results |-> results', claimed |-> claimed']}]
      BY <1>6, <2>1, <2>2, <2>7 DEF BeginClaim, Writes, Asking
    <3> HIDE DEF m
    <3>2. Types' /\ OneReview' /\ NoReplay'
      BY SMTT(20), <2>2, <2>6, <3>1 DEF core, counters, history, Types, OneReview,
           NoReplay, Snapshot
    <3>3. Apart' /\ Kept'
      BY <2>1, <2>2, <2>6, <2>7, <3>1 DEF history, Apart, Kept
    <3>4. Write'
      <4>1. PICK data \in Snapshot : /\ writing'.data = {data}
                                   /\ data.results = results' /\ data.claimed = claimed'
        BY <3>1, <3>2 DEF Types
      <4>2. /\ writing'.requests \cap (results' \cup untold') = {} /\ writing'.requests \subseteq produced'
            /\ claimed \subseteq disk.claimed /\ UNCHANGED <<disk, committed, recorded>>
        BY <2>1, <2>6, <2>7, <3>1 DEF history, Apart, Write, NoWrite
      <4>3. recorded \subseteq results' \cup claimed' \cup committed
        BY <2>7, <3>1 DEF Kept
      <4>4. writing'.requests \subseteq claimed'
        BY <3>1
      <4> QED BY <3>1, <4>1, <4>2, <4>3, <4>4 DEF Write
    <3>5. Tokens'
      BY <2>2, <2>4, <2>6, <3>1 DEF core, Tokens
    <3>6. Waited'
      BY <2>1, <2>2, <2>3, <2>4, <2>5, <2>6, <3>1 DEF core, history, Waited
    <3>7. Heard'
      BY <2>1, <2>2, <2>6, <2>7, <3>1 DEF history, Heard, Shut
    <3>8. Past'
      BY <2>6, <3>1 DEF core, counters, history, Past, Unknown
    <3> QED BY <3>2, <3>3, <3>4, <3>5, <3>6, <3>7, <3>8
  <2>8. CASE ~(m.requests \subseteq results)
    <3> DEFINE ack == [kind |-> "ack", token |-> m.token, accepted |-> m.requests \subseteq claimed]
    <3>1. toCore' = Append(toCore, ack) /\ UNCHANGED <<results, claimed, writing>> /\ ack \in Told \cup Ack
      BY <1>6, <2>2, <2>8 DEF BeginClaim, Ack
    <3>2. /\ toCore' \in Seq(Told \cup Ack) /\ ack.kind = "ack" /\ ack.token = m.token
          /\ ack.accepted => m.requests \subseteq claimed /\ m.requests \subseteq disk.claimed
          /\ \A i \in DOMAIN toCore' : (i \in DOMAIN toCore /\ toCore'[i] = toCore[i]) \/ toCore'[i] = ack
      <4>1. ack.kind = "ack" /\ ack.token = m.token /\ (ack.accepted => m.requests \subseteq claimed)
        OBVIOUS
      <4>2. claimed \subseteq disk.claimed
        BY <2>1 DEF Write, NoWrite
      <4> HIDE DEF m, ack
      <4> QED BY <3>1, <4>1, <4>2, Appends DEF Types
    <3> HIDE DEF m, ack
    <3>3. Types' /\ OneReview' /\ NoReplay'
      BY SMTT(20), <2>2, <2>6, <3>1, <3>2 DEF core, counters, history, Types, OneReview,
           NoReplay
    <3>4. Apart' /\ Kept' /\ Write'
      BY <2>6, <3>1 DEF history, Apart, Kept, Write
    <3>5. Tokens'
      BY <2>2, <2>4, <2>6, <3>1, <3>2 DEF core, Tokens
    <3>6. Waited'
      BY <2>1, <2>2, <2>3, <2>4, <2>5, <2>6, <3>1, <3>2 DEF core, history, Waited, Unlocked,
         Granted
    <3>7. Heard'
      BY <2>6, <3>1 DEF history, Heard, Shut
    <3>8. Past'
      BY <2>6, <3>1, <3>2 DEF core, counters, history, Past, Unknown
    <3> QED BY <3>3, <3>4, <3>5, <3>6, <3>7, <3>8
  <2> QED BY <2>7, <2>8
<1>7. CASE EndClaim
  <2>1. PICK accepted \in BOOLEAN :
          /\ IF accepted THEN Saved /\ UNCHANGED <<results, claimed, failures>>
             ELSE /\ Fails /\ UNCHANGED <<disk, recorded>>
                  /\ claimed' = claimed \ writing.requests /\ results' = results \cup writing.requests
          /\ toCore' = Append(toCore, [kind |-> "ack", token |-> writing.token, accepted |-> accepted])
    BY <1>7 DEF EndClaim
  <2> DEFINE ack == [kind |-> "ack", token |-> writing.token, accepted |-> accepted]
  <2>2. /\ writing.kind = "claim" /\ writing' = NoWrite /\ writing.token \in Nat
        /\ UNCHANGED <<untold, toSupervisor, core, cores, stops, resumes, produced, asked, committed, dropped>>
        /\ writing.requests \subseteq claimed /\ writing.requests \subseteq Request
    BY <1>7 DEF EndClaim, Types, Write
  <2>3. /\ toCore' \in Seq(Told \cup Ack) /\ ack.kind = "ack" /\ ack.token = writing.token
        /\ ack.accepted = accepted
        /\ \A i \in DOMAIN toCore' : (i \in DOMAIN toCore /\ toCore'[i] = toCore[i]) \/ toCore'[i] = ack
    BY <2>1, <2>2, Appends DEF Types, Ack
  <2>4. stage \notin {"working", "committed"}
        /\ \A i \in DOMAIN toCore : stage = "claiming" /\ toCore[i].kind = "ack" => toCore[i].token # token
    BY <2>2 DEF Waited, Unlocked, NoWrite
  <2> HIDE DEF ack
  <2>5. Tokens'
    BY <2>2, <2>3 DEF core, Tokens, NoWrite, Types
  <2>6. Past'
    BY <2>2, <2>3 DEF core, Past, Unknown
  <2>7. CASE accepted
    <3>1. PICK data \in Snapshot : writing.data = {data} /\ disk' = data /\ recorded' = recorded \cup data.results
      BY <2>1, <2>2, <2>7 DEF Write, Saved
    <3>2. /\ data.results \subseteq results /\ data.claimed = claimed
          /\ recorded \subseteq data.results \cup data.claimed \cup committed
          /\ UNCHANGED <<results, claimed>>
      BY <2>1, <2>2, <2>7, <3>1 DEF Write
    <3>3. Types' /\ OneReview' /\ NoReplay'
      BY <2>2, <2>3, <3>1, <3>2 DEF core, Types, OneReview, NoReplay, NoWrite
    <3>4. Apart' /\ Kept' /\ Write'
      BY <2>2, <3>1, <3>2 DEF Apart, Kept, Write, NoWrite
    <3>5. Waited'
      BY <2>2, <2>3, <2>4, <3>1, <3>2 DEF core, Waited, Unlocked, Granted, NoWrite
    <3>6. Heard'
      BY <2>2, <3>1, <3>2 DEF Heard, Shut, NoWrite
    <3> QED BY <2>5, <2>6, <3>3, <3>4, <3>5, <3>6
  <2>8. CASE ~accepted
    <3>1. /\ UNCHANGED <<disk, recorded>>
          /\ claimed' = claimed \ writing.requests /\ results' = results \cup writing.requests
      BY <2>1, <2>8
    <3>2. Types' /\ OneReview' /\ NoReplay'
      BY <2>2, <2>3, <3>1 DEF core, Types, OneReview, NoReplay, NoWrite
    <3>3. Apart' /\ Kept' /\ Write'
      BY <2>2, <3>1 DEF Apart, Kept, Write, NoWrite
    <3>4. Waited'
      BY <2>2, <2>3, <2>4, <2>8, <3>1 DEF core, Waited, Unlocked, NoWrite
    <3>5. Heard'
      BY <2>2, <3>1 DEF Heard, Shut, NoWrite
    <3> QED BY <2>5, <2>6, <3>2, <3>3, <3>4, <3>5
  <2> QED BY <2>7, <2>8
<1>8. CASE BeginFinish
  <2> DEFINE m == Head(toSupervisor)
  <2>1. /\ toSupervisor # <<>> /\ toSupervisor' = Tail(toSupervisor) /\ m.kind = "finish"
        /\ m.requests \cap untold = {} /\ Unlocked /\ writing = NoWrite
    BY <1>8 DEF BeginFinish, Begins, Unlocked
  <2>2. /\ m \in Asking /\ toSupervisor' \in Seq(Asking) /\ m.token <= token /\ m.token \in Nat
        /\ m.requests \subseteq Request /\ m.data = {}
        /\ \A i \in DOMAIN toSupervisor' : i \in Nat /\ i + 1 \in DOMAIN toSupervisor
                                           /\ toSupervisor'[i] = toSupervisor[i + 1]
        /\ Len(toSupervisor') = Len(toSupervisor) - 1 /\ Len(toSupervisor) \in Nat
    <3>1. toSupervisor \in Seq(Asking) /\ m \in Asking /\ m = toSupervisor[1] /\ 1 \in DOMAIN toSupervisor
      BY <2>1, Tails DEF Types
    <3>2. m.token <= token /\ m.token \in Nat /\ m.requests \subseteq Request /\ m.data = {}
      BY <3>1 DEF Tokens, Asking
    <3>3. toSupervisor' \in Seq(Asking) /\ Len(toSupervisor') = Len(toSupervisor) - 1
      BY <2>1, <3>1, Tails
    <3>4. \A i \in DOMAIN toSupervisor' : i \in Nat /\ i + 1 \in DOMAIN toSupervisor
                                           /\ toSupervisor'[i] = toSupervisor[i + 1]
      BY <2>1, <3>1, Tails
    <3> QED BY <3>1, <3>2, <3>3, <3>4
  <2>3. stage \notin {"working", "committed"}
        /\ \A i \in DOMAIN toCore : stage = "claiming" /\ toCore[i].kind = "ack" => toCore[i].token # token
    BY <2>1 DEF Waited
  <2>4. \A i \in DOMAIN toSupervisor' :
          /\ toSupervisor'[i].token <= token
          /\ toSupervisor'[i].kind = "finish" => toSupervisor'[i].requests \subseteq committed
          /\ stage = "claiming" /\ toSupervisor'[i].kind = "claim" /\ toSupervisor'[i].token = token =>
               i = Len(toSupervisor') /\ toSupervisor'[i].requests = review
    BY <2>2 DEF Waited, Tokens
  <2>5. m.requests \subseteq committed
    BY <2>1, Tails DEF Waited
  <2>6. UNCHANGED <<untold, disk, toCore, core, counters, history>>
    BY <1>8 DEF BeginFinish
  <2>7. CASE m.requests \subseteq claimed
    <3>1. /\ claimed' = claimed \ m.requests /\ results' = results
          /\ writing' = [kind |-> "finish", requests |-> m.requests, token |-> m.token,
                         data |-> {[results |-> results', claimed |-> claimed']}]
      BY <1>8, <2>1, <2>2, <2>7 DEF BeginFinish, Writes, Asking
    <3> HIDE DEF m
    <3>2. Types' /\ OneReview' /\ NoReplay'
      BY <2>2, <2>6, <3>1 DEF core, counters, history, Types, OneReview, NoReplay, Snapshot
    <3>3. Apart' /\ Kept'
      BY <2>1, <2>5, <2>6, <3>1 DEF history, Apart, Kept
    <3>4. Write'
      <4>1. PICK data \in Snapshot : /\ writing'.data = {data}
                                   /\ data.results = results' /\ data.claimed = claimed'
        BY <3>1, <3>2 DEF Types
      <4>2. /\ writing'.requests \cap (results' \cup untold') = {} /\ writing'.requests \subseteq produced'
            /\ claimed \subseteq disk.claimed /\ UNCHANGED <<disk, committed, recorded>>
        BY <2>1, <2>6, <2>7, <3>1 DEF history, Apart, Write, NoWrite
      <4>3. recorded \subseteq results' \cup claimed' \cup committed
        BY <2>5, <3>1 DEF Kept
      <4>4. /\ writing'.requests \cap claimed' = {} /\ writing'.requests \subseteq committed
            /\ writing'.requests \subseteq disk.claimed
        BY <2>5, <2>7, <3>1, <4>2
      <4> QED BY <3>1, <4>1, <4>2, <4>3, <4>4 DEF Write
    <3>5. Tokens'
      BY <2>2, <2>4, <2>6, <3>1 DEF core, Tokens
    <3>6. Waited'
      BY <2>1, <2>2, <2>3, <2>4, <2>6, <3>1 DEF core, history, Waited
    <3>7. Heard'
      BY <2>1, <2>2, <2>5, <2>6, <3>1 DEF history, Heard, Shut
    <3>8. Past'
      BY <2>6, <3>1 DEF core, counters, history, Past, Unknown
    <3> QED BY <3>2, <3>3, <3>4, <3>5, <3>6, <3>7, <3>8
  <2>8. CASE ~(m.requests \subseteq claimed)
    <3>1. UNCHANGED <<results, claimed, writing>>
      BY <1>8, <2>8 DEF BeginFinish
    <3> HIDE DEF m
    <3>2. Types' /\ OneReview' /\ NoReplay'
      BY SMTT(20), <2>2, <2>6, <3>1 DEF core, counters, history, Types, OneReview, NoReplay
    <3>3. Apart' /\ Kept' /\ Write'
      BY <2>6, <3>1 DEF history, Apart, Kept, Write
    <3>4. Tokens'
      BY <2>4, <2>6, <3>1 DEF core, Tokens
    <3>5. Waited'
      BY <2>1, <2>2, <2>3, <2>4, <2>6, <3>1 DEF core, history, Waited
    <3>6. Heard'
      BY <2>6, <3>1 DEF history, Heard, Shut
    <3>7. Past'
      BY <2>6, <3>1 DEF core, counters, history, Past, Unknown
    <3> QED BY <3>2, <3>3, <3>4, <3>5, <3>6, <3>7
  <2> QED BY <2>7, <2>8
<1>9. CASE EndFinish
  <2>1. OneReview' /\ NoReplay'
    BY <1>9 DEF EndFinish, core, OneReview, NoReplay
  <2>2. Tokens'
    BY <1>9 DEF EndFinish, core, Tokens, Types, NoWrite
  <2>3. Apart' /\ Write' /\ Kept'
    BY <1>9 DEF EndFinish, Saved, Apart, Write, Snapshot, NoWrite, Kept
  <2>4. Waited'
    BY <1>9 DEF EndFinish, core, Waited, Unlocked, NoWrite
  <2>5. Heard'
    BY <1>9 DEF EndFinish, Saved, Heard, Shut, Apart, Write, NoWrite
  <2>6. Past'
    BY <1>9 DEF EndFinish, core, Past, Unknown
  <2>7. /\ writing.requests \in SUBSET Request /\ NoWrite.kind = "none" /\ NoWrite.requests = {}
        /\ NoWrite.token = 0 /\ NoWrite.data = {}
    BY DEF Types, NoWrite
  <2>8. /\ writing' \in [kind : {"none", "claim", "finish"}, requests : SUBSET Request, token : Nat,
                         data : SUBSET Snapshot]
        /\ UNCHANGED <<results, untold, toCore, toSupervisor, core, cores, produced, asked, committed>>
    BY <1>9 DEF EndFinish, NoWrite
  <2>9. claimed' \in SUBSET Request /\ disk' \in Snapshot /\ recorded' \in SUBSET Request
    <3>1. CASE Saved /\ UNCHANGED <<claimed, failures>>
      <4>1. PICK data \in Snapshot : writing.data = {data} /\ disk' = data /\ recorded' = recorded \cup data.results
        BY <1>9, <3>1 DEF EndFinish, Write, Saved
      <4> QED BY <3>1, <4>1 DEF Types, Snapshot
    <3>2. CASE claimed' = claimed \cup writing.requests /\ UNCHANGED <<disk, recorded>>
      BY <2>7, <3>2 DEF Types
    <3> QED BY <1>9, <3>1, <3>2 DEF EndFinish
  <2>10. Types'
    BY <2>8, <2>9 DEF Types, core
  <2> QED BY <2>1, <2>2, <2>3, <2>4, <2>5, <2>6, <2>10
<1>10. CASE Receive
  <2>1. Types'
    BY <1>10 DEF Receive, NoReview, ledger, counters, Types, Told, Ack
  <2>2. OneReview'
    BY <1>10 DEF Receive, NoReview, OneReview
  <2>3. Tokens'
    BY <1>10 DEF Receive, ledger, Tokens, Types
  <2>4. NoReplay'
    BY <1>10 DEF Receive, NoReplay, Past, Unknown
  <2>5. Apart' /\ Write' /\ Kept'
    BY <1>10 DEF Receive, ledger, Apart, Write, Kept
  <2>6. Waited'
    BY SMTT(20), <1>10 DEF Receive, NoReview, ledger, core, counters, history, Waited,
         Types, Tokens, Granted, Unlocked, NoWrite
  <2>7. Heard'
    BY <1>10 DEF Receive, ledger, Heard, Shut, Types, Apart, Unlocked, NoWrite, Waited,
         Granted
  <2>8. Past'
    BY SMTT(20), <1>10 DEF Receive, NoReview, ledger, core, counters, history, Past,
         Unknown, Types, Told, Tokens
  <2> QED BY <2>1, <2>2, <2>3, <2>4, <2>5, <2>6, <2>7, <2>8
<1>11. CASE Claim
  <2>1. Types'
    BY <1>11 DEF Claim, Sends, ledger, counters, history, Types, Asking
  <2>2. OneReview' /\ NoReplay'
    BY <1>11 DEF Claim, history, OneReview, NoReplay
  <2>3. Apart' /\ Write' /\ Kept'
    BY <1>11 DEF Claim, ledger, history, Apart, Write, Kept
  <2>4. Waited'
    BY <1>11 DEF Claim, Sends, ledger, history, Waited, Types, Tokens
  <2>5. Heard'
    BY <1>11 DEF Claim, ledger, history, Heard, Shut
  <2>6. Past'
    BY <1>11 DEF Claim, counters, history, Past, Unknown, Types
  <2> DEFINE m == [kind |-> "claim", requests |-> review, token |-> token', data |-> {}]
  <2>7. token' = token + 1 /\ toSupervisor' = Append(toSupervisor, m) /\ UNCHANGED <<toCore, writing>>
    BY <1>11 DEF Claim, Sends, ledger
  <2>8. m \in Asking /\ m.token = token + 1
    BY <2>7 DEF Asking, Types
  <2> HIDE DEF m
  <2>9. \A i \in DOMAIN toSupervisor' : toSupervisor'[i].token <= token'
    <3>1. \A i \in DOMAIN toSupervisor : toSupervisor[i] \in Asking
      BY DEF Types
    <3>2. \A e \in Asking : e.token \in Nat
      BY DEF Asking
    <3> QED BY <3>2, <2>7, <2>8, <3>1, Appends DEF Types, Tokens
  <2>10. \A i \in DOMAIN toCore : toCore[i].kind = "ack" => toCore[i].token \in Nat
    BY DEF Types, Told, Ack
  <2>11. Tokens'
    BY <2>7, <2>9, <2>10 DEF Types, Tokens
  <2> QED BY <2>1, <2>2, <2>3, <2>4, <2>5, <2>6, <2>11
<1>12. CASE GiveUp
  <2>1. Types' /\ OneReview' /\ Tokens' /\ NoReplay'
    BY <1>12 DEF GiveUp, NoReview, ledger, Types, OneReview, Tokens, NoReplay
  <2>2. Apart' /\ Write' /\ Kept'
    BY <1>12 DEF GiveUp, ledger, Apart, Write, Kept
  <2>3. Waited'
    BY <1>12 DEF GiveUp, NoReview, Waited
  <2>4. Heard'
    BY <1>12 DEF GiveUp, ledger, Heard, Shut
  <2>5. Past'
    BY <1>12 DEF GiveUp, NoReview, Past, Unknown
  <2> QED BY <2>1, <2>2, <2>3, <2>4, <2>5
<1>13. CASE Commit
  <2>1. Types' /\ OneReview' /\ Tokens' /\ NoReplay'
    BY <1>13 DEF Commit, ledger, counters, Types, OneReview, Tokens, NoReplay
  <2>2. Apart' /\ Write' /\ Kept'
    BY <1>13 DEF Commit, ledger, Apart, Write, Kept
  <2>3. Waited'
    BY <1>13 DEF Commit, ledger, Waited, Unlocked
  <2>4. Heard'
    BY <1>13 DEF Commit, ledger, Heard, Shut
  <2>5. Past'
    BY <1>13 DEF Commit, counters, Past, Unknown
  <2> QED BY <2>1, <2>2, <2>3, <2>4, <2>5
<1>14. CASE Finish
  <2>1. Types'
    BY <1>14 DEF Finish, NoReview, Sends, ledger, counters, history, Types, Asking
  <2>2. OneReview' /\ NoReplay'
    BY <1>14 DEF Finish, NoReview, history, OneReview, NoReplay
  <2>3. Tokens'
    BY <1>14 DEF Finish, NoReview, Sends, ledger, Tokens, Types
  <2>4. Apart' /\ Write' /\ Kept'
    BY <1>14 DEF Finish, ledger, history, Apart, Write, Kept
  <2>5. Waited'
    BY <1>14 DEF Finish, NoReview, Sends, history, Waited
  <2>6. Heard'
    BY <1>14 DEF Finish, ledger, history, Heard, Shut
  <2>7. Past'
    BY <1>14 DEF Finish, NoReview, counters, history, Past, Unknown
  <2> QED BY <2>1, <2>2, <2>3, <2>4, <2>5, <2>6, <2>7
<1>15. CASE Swap
  <2>1. Types' /\ OneReview' /\ Tokens' /\ NoReplay'
    BY <1>15 DEF Swap, NewCore, NoReview, Pending, ledger, Types, Told, OneReview, Tokens,
         NoReplay
  <2>2. Apart' /\ Write' /\ Kept'
    BY <1>15 DEF Swap, NewCore, ledger, Apart, Write, Kept
  <2>3. Waited'
    BY <1>15 DEF Swap, NewCore, NoReview, Waited
  <2>4. Heard'
    BY <1>15 DEF Swap, NewCore, ledger, Heard, Shut
  <2>5. /\ toCore' = <<[kind |-> "continue", requests |-> results]>> /\ cores' = cores + 1
        /\ inbox' = {} /\ review' = {} /\ UNCHANGED <<asked, token>>
    BY <1>15 DEF Swap, NewCore, NoReview, Pending
  <2>6. ASSUME NEW q \in Request, asked[q] # {} PROVE Unknown(q)'
    BY <2>5, <2>6 DEF Unknown, Heard, Shut
  <2>7. Past'
    BY <2>5, <2>6 DEF Past, Types
  <2> QED BY <2>1, <2>2, <2>3, <2>4, <2>7
<1>16. CASE Crash
  <2>1. Types' /\ OneReview' /\ Tokens' /\ NoReplay'
    BY <1>16 DEF Crash, NewCore, NoReview, ledger, Types, OneReview, Tokens, NoReplay
  <2>2. Apart' /\ Write' /\ Kept'
    BY <1>16 DEF Crash, NewCore, ledger, Apart, Write, Kept
  <2>3. Waited'
    BY <1>16 DEF Crash, NewCore, NoReview, Waited
  <2>4. Heard'
    BY <1>16 DEF Crash, NewCore, ledger, Heard, Shut
  <2>5. Past'
    BY <1>16 DEF Crash, NewCore, NoReview, Past, Unknown, Types
  <2> QED BY <2>1, <2>2, <2>3, <2>4, <2>5
<1>17. CASE RestoreRecovery
  <2>1. Types' /\ OneReview' /\ Tokens' /\ NoReplay'
    BY <1>17 DEF RestoreRecovery, NewCore, NoReview, Types, Snapshot, NoWrite, OneReview,
         Tokens, NoReplay
  <2>2. Apart' /\ Write' /\ Kept'
    BY <1>17 DEF RestoreRecovery, NewCore, Apart, Write, NoWrite, Kept
  <2>3. Waited'
    BY <1>17 DEF RestoreRecovery, NewCore, NoReview, Waited
  <2>4. Heard'
    BY <1>17 DEF RestoreRecovery, NewCore, Heard, Shut, NoWrite
  <2>5. Past'
    BY <1>17 DEF RestoreRecovery, NewCore, NoReview, Past, Unknown, Types
  <2> QED BY <2>1, <2>2, <2>3, <2>4, <2>5
<1>18. CASE UNCHANGED vars
  BY <1>18 DEF vars, ledger, core, counters, history, Types, OneReview, Apart, Write,
       Tokens, Waited, Heard, Past, NoReplay, Kept, Unlocked, Granted, Shut, Unknown
<1> QED BY <1>1, <1>2, <1>3, <1>4, <1>5, <1>6, <1>7, <1>8, <1>9, <1>10, <1>11, <1>12,
     <1>13, <1>14, <1>15, <1>16, <1>17, <1>18 DEF Next

(* By the invariant.                                                        *)
LEMMA Invariant == Spec => []Inv
  BY InitInv, NextInv, PTL DEF Spec

(* One result is put to providers by one core, whatever is lost between the *)
(* supervisor, its manifest and the cores that follow one another.          *)
THEOREM NeverReplayed == Spec => []NoReplay
<1>1. Inv => NoReplay
  BY DEF Inv
<1> QED BY Invariant, <1>1, PTL

(* The manifest holds every result until the conversation has its reply:    *)
(* open before a provider may hear of it, claimed from then on.             *)
THEOREM EvidenceIsKept == Spec => []EvidenceKept
<1>1. Inv => EvidenceKept
  <2> SUFFICES ASSUME Inv PROVE EvidenceKept
    OBVIOUS
  <2> USE DEF Inv
  <2>1. Cardinality(review) = IF stage = "none" THEN 0 ELSE 1
    BY FS_EmptySet, FS_Singleton DEF OneReview
  <2>2. \A r \in Request : asked[r] \subseteq (1..MaxCores) \X (1..token)
    <3> SUFFICES ASSUME NEW r \in Request, NEW a \in asked[r] PROVE a \in (1..MaxCores) \X (1..token)
      OBVIOUS
    <3>1. a \in Nat \X Nat /\ a = <<a[1], a[2]>>
      BY DEF Types
    <3>2. a[1] \in 1..cores /\ a[2] \in 1..token /\ cores \in 1..MaxCores
      BY DEF Past, Types
    <3>3. a[1] \in 1..MaxCores
      BY <3>2, LedgerAssumption
    <3> QED BY <3>1, <3>2, <3>3
  <2>3. TypeOK
    BY <2>1, <2>2 DEF TypeOK, Types, Apart
  <2>4. ClaimedFirst
    BY DEF ClaimedFirst, Waited, Granted
  <2>5. EvidenceStays
    BY DEF EvidenceStays, Heard, Shut
  <2>6. NothingLost
    BY DEF NothingLost, Kept
  <2> QED BY <2>3, <2>4, <2>5, <2>6 DEF EvidenceKept
<1> QED BY Invariant, <1>1, PTL

------------------------------------------------------------------------------
(* The mirror of the source, whose edits ask for the updates whose results  *)
(* the ledger keeps: SourceMirror, on variables of its own. For every set   *)
(* of contents, every limit and every bound, submissions are accounted for, *)
(* the loop of repairing and submitting is bounded, what was rejected is    *)
(* not validated again, and what a recovery undid stays undone.             *)
CONSTANTS Version, None, Launched, Limit, MaxWrites, MaxMessages, MaxOther

VARIABLES tree, stamp, release, previous, known, inflight, submitted, rejected, rejections,
          suppressed, turn, waits, task, saved, answers, requests, messages, others,
          streak, refused, recovered, torn, disturbed

M == INSTANCE SourceMirror WITH results <- answers, paused <- waits

Place == {"none", "capturing", "validating", "draining", "probing", "swapping"}

Status == {"activated", "rejected", "busy", "interrupted"}

MirrorTypes ==
  /\ tree \in Version /\ release \in Version /\ previous \in Version
  /\ stamp \in Nat /\ known \in 0..stamp /\ requests \in Nat /\ inflight \in 0..requests
  /\ submitted \in Version \cup {None} /\ rejected \in Version \cup {None}
  /\ saved \in Version \cup {None} /\ refused \in Version \cup {None}
  /\ rejections \in Nat /\ streak \in Nat
  /\ suppressed \in BOOLEAN /\ turn \in BOOLEAN /\ waits \in BOOLEAN
  /\ recovered \in BOOLEAN /\ torn \in BOOLEAN /\ disturbed \in BOOLEAN
  /\ task \in [at : Place, id : 0..requests, content : Version \cup {None}]
  /\ answers \subseteq [id : 1..requests, status : Status]

(* A transition the core asked for is the one it waits for, and its content *)
(* is what was captured.                                                    *)
Working ==
  /\ task.at = "none" => task = M!Idle
  /\ task.at = "capturing" => task.id # 0 /\ task.content = None
  /\ task.at \in {"validating", "draining", "probing", "swapping"} => task.content \in Version
  /\ task.id # 0 => task.id = inflight

(* One answer to a request, and not before its transition is over; the core *)
(* that asked sees no other end of it than a rejection or a busy supervisor.*)
Answered ==
  /\ \A r, s \in answers : r.id = s.id => r = s
  /\ \A r \in answers : r.id # task.id
  /\ \A r \in answers : r.id = inflight => r.status \in {"rejected", "busy"}
  /\ inflight # 0 => task.id = inflight \/ \E r \in answers : r.id = inflight

(* The streak is what was counted and the submission under way.             *)
Bounded ==
  /\ streak <= rejections + IF inflight = 0 THEN 0 ELSE 1
  /\ rejections <= Limit
  /\ ~suppressed => rejections < Limit
  /\ suppressed => inflight = 0

(* What the supervisor rejected last is what the core will take as rejected.*)
Remembered ==
  ~torn =>
    /\ inflight = 0 => refused \in {None, rejected}
    /\ task.id # 0 => refused \in {None, rejected} /\ submitted \notin {None, rejected}
    /\ task.at = "capturing" => tree = submitted
    /\ task.id # 0 /\ task.at \in {"validating", "draining", "probing", "swapping"} =>
         task.content = submitted
    /\ \A r \in answers : r.id = inflight =>
         refused \in IF r.status = "rejected" THEN {None, submitted} ELSE {None, rejected}

(* Until somebody writes, the core of a recovery has nothing to sweep, and  *)
(* a swap finds the mirror as it was captured.                              *)
Settled ==
  recovered =>
    /\ inflight = 0 /\ tree = release /\ known = stamp
    /\ task.at \in {"probing", "swapping"} => saved = tree

MirrorInv == MirrorTypes /\ Working /\ Answered /\ Bounded /\ Remembered /\ Settled

LEMMA MessageInv == ASSUME M!MirrorAssumption, MirrorInv, M!Message PROVE MirrorInv'
<1> USE DEF M!Message, M!Up, M!mirror, M!supervisor, M!Idle
<1>1. MirrorTypes'
  <2>1. /\ tree' \in Version /\ release' \in Version /\ previous' \in Version
        /\ stamp' \in Nat /\ known' \in 0..stamp' /\ requests' \in Nat /\ inflight' \in 0..requests'
    BY DEF M!MirrorAssumption, MirrorInv, MirrorTypes
  <2>2. /\ submitted' \in Version \cup {None} /\ rejected' \in Version \cup {None}
        /\ saved' \in Version \cup {None} /\ refused' \in Version \cup {None}
    BY DEF M!MirrorAssumption, MirrorInv, MirrorTypes
  <2>3. rejections' \in Nat /\ streak' \in Nat
    BY DEF M!MirrorAssumption, MirrorInv, MirrorTypes
  <2>4. /\ suppressed' \in BOOLEAN /\ turn' \in BOOLEAN /\ waits' \in BOOLEAN
        /\ recovered' \in BOOLEAN /\ torn' \in BOOLEAN /\ disturbed' \in BOOLEAN
    BY DEF MirrorInv, MirrorTypes
  <2>5. task' \in [at : Place, id : 0..requests', content : Version \cup {None}]
    BY DEF MirrorInv, MirrorTypes, Place
  <2>6. answers' \subseteq [id : 1..requests', status : Status]
    BY DEF MirrorInv, MirrorTypes, Status
  <2> QED BY <2>1, <2>2, <2>3, <2>4, <2>5, <2>6 DEF MirrorTypes
<1>2. Working'
  BY DEF M!MirrorAssumption, MirrorInv, Working, MirrorTypes
<1>3. Answered'
  BY DEF M!MirrorAssumption, MirrorInv, Answered, MirrorTypes, Working
<1>4. Bounded'
  BY DEF M!MirrorAssumption, MirrorInv, Bounded, MirrorTypes, Answered, Working
<1>5. Remembered'
  BY DEF M!MirrorAssumption, MirrorInv, Remembered, MirrorTypes, Working, Answered
<1>6. Settled'
  BY DEF M!MirrorAssumption, MirrorInv, Settled, MirrorTypes, Working
<1> QED BY <1>1, <1>2, <1>3, <1>4, <1>5, <1>6 DEF MirrorInv

LEMMA EndTurnInv == ASSUME M!MirrorAssumption, MirrorInv, M!EndTurn PROVE MirrorInv'
<1> USE DEF M!EndTurn, M!mirror, M!staging, M!supervisor, M!bounds, M!history, M!Idle
<1>1. MirrorTypes'
  <2>1. /\ tree' \in Version /\ release' \in Version /\ previous' \in Version
        /\ stamp' \in Nat /\ known' \in 0..stamp' /\ requests' \in Nat /\ inflight' \in 0..requests'
    BY DEF M!MirrorAssumption, MirrorInv, MirrorTypes
  <2>2. /\ submitted' \in Version \cup {None} /\ rejected' \in Version \cup {None}
        /\ saved' \in Version \cup {None} /\ refused' \in Version \cup {None}
    BY DEF M!MirrorAssumption, MirrorInv, MirrorTypes
  <2>3. rejections' \in Nat /\ streak' \in Nat
    BY DEF M!MirrorAssumption, MirrorInv, MirrorTypes
  <2>4. /\ suppressed' \in BOOLEAN /\ turn' \in BOOLEAN /\ waits' \in BOOLEAN
        /\ recovered' \in BOOLEAN /\ torn' \in BOOLEAN /\ disturbed' \in BOOLEAN
    BY DEF MirrorInv, MirrorTypes
  <2>5. task' \in [at : Place, id : 0..requests', content : Version \cup {None}]
    BY DEF MirrorInv, MirrorTypes, Place
  <2>6. answers' \subseteq [id : 1..requests', status : Status]
    BY DEF MirrorInv, MirrorTypes, Status
  <2> QED BY <2>1, <2>2, <2>3, <2>4, <2>5, <2>6 DEF MirrorTypes
<1>2. Working'
  BY DEF M!MirrorAssumption, MirrorInv, Working, MirrorTypes
<1>3. Answered'
  BY DEF M!MirrorAssumption, MirrorInv, Answered, MirrorTypes, Working
<1>4. Bounded'
  BY DEF M!MirrorAssumption, MirrorInv, Bounded, MirrorTypes, Answered, Working
<1>5. Remembered'
  BY DEF M!MirrorAssumption, MirrorInv, Remembered, MirrorTypes, Working, Answered
<1>6. Settled'
  BY DEF M!MirrorAssumption, MirrorInv, Settled, MirrorTypes, Working
<1> QED BY <1>1, <1>2, <1>3, <1>4, <1>5, <1>6 DEF MirrorInv

LEMMA WriteInv == ASSUME M!MirrorAssumption, MirrorInv, M!Write PROVE MirrorInv'
<1> USE DEF M!Write, M!staging, M!core, M!supervisor, M!bounds, M!Idle
<1>1. MirrorTypes'
  <2>1. /\ tree' \in Version /\ release' \in Version /\ previous' \in Version
        /\ stamp' \in Nat /\ known' \in 0..stamp' /\ requests' \in Nat /\ inflight' \in 0..requests'
    BY DEF M!MirrorAssumption, MirrorInv, MirrorTypes
  <2>2. /\ submitted' \in Version \cup {None} /\ rejected' \in Version \cup {None}
        /\ saved' \in Version \cup {None} /\ refused' \in Version \cup {None}
    BY DEF M!MirrorAssumption, MirrorInv, MirrorTypes
  <2>3. rejections' \in Nat /\ streak' \in Nat
    BY DEF M!MirrorAssumption, MirrorInv, MirrorTypes
  <2>4. /\ suppressed' \in BOOLEAN /\ turn' \in BOOLEAN /\ waits' \in BOOLEAN
        /\ recovered' \in BOOLEAN /\ torn' \in BOOLEAN /\ disturbed' \in BOOLEAN
    BY DEF MirrorInv, MirrorTypes
  <2>5. task' \in [at : Place, id : 0..requests', content : Version \cup {None}]
    BY DEF MirrorInv, MirrorTypes, Place
  <2>6. answers' \subseteq [id : 1..requests', status : Status]
    BY DEF MirrorInv, MirrorTypes, Status
  <2> QED BY <2>1, <2>2, <2>3, <2>4, <2>5, <2>6 DEF MirrorTypes
<1>2. Working'
  BY DEF M!MirrorAssumption, MirrorInv, Working, MirrorTypes
<1>3. Answered'
  BY DEF M!MirrorAssumption, MirrorInv, Answered, MirrorTypes, Working
<1>4. Bounded'
  BY DEF M!MirrorAssumption, MirrorInv, Bounded, MirrorTypes, Answered, Working
<1>5. Remembered'
  BY DEF M!MirrorAssumption, MirrorInv, Remembered, MirrorTypes, Working, Answered
<1>6. Settled'
  BY DEF M!MirrorAssumption, MirrorInv, Settled, MirrorTypes, Working
<1> QED BY <1>1, <1>2, <1>3, <1>4, <1>5, <1>6 DEF MirrorInv

LEMMA SweepInv == ASSUME M!MirrorAssumption, MirrorInv, M!Sweep PROVE MirrorInv'
<1> USE DEF M!Sweep, M!Quiet, M!Up, M!Unchanged, M!Idle, M!mirror
<1>1. MirrorTypes'
  <2>1. /\ tree' \in Version /\ release' \in Version /\ previous' \in Version
        /\ stamp' \in Nat /\ known' \in 0..stamp' /\ requests' \in Nat /\ inflight' \in 0..requests'
    BY DEF M!MirrorAssumption, MirrorInv, MirrorTypes
  <2>2. /\ submitted' \in Version \cup {None} /\ rejected' \in Version \cup {None}
        /\ saved' \in Version \cup {None} /\ refused' \in Version \cup {None}
    BY DEF M!MirrorAssumption, MirrorInv, MirrorTypes
  <2>3. rejections' \in Nat /\ streak' \in Nat
    BY DEF M!MirrorAssumption, MirrorInv, MirrorTypes
  <2>4. /\ suppressed' \in BOOLEAN /\ turn' \in BOOLEAN /\ waits' \in BOOLEAN
        /\ recovered' \in BOOLEAN /\ torn' \in BOOLEAN /\ disturbed' \in BOOLEAN
    BY DEF MirrorInv, MirrorTypes
  <2>5. task' \in [at : Place, id : 0..requests', content : Version \cup {None}]
    BY DEF MirrorInv, MirrorTypes, Place
  <2>6. answers' \subseteq [id : 1..requests', status : Status]
    BY DEF MirrorInv, MirrorTypes, Status
  <2> QED BY <2>1, <2>2, <2>3, <2>4, <2>5, <2>6 DEF MirrorTypes
<1>2. Working'
  BY DEF M!MirrorAssumption, MirrorInv, Working, MirrorTypes
<1>3. Answered'
  <2>1. answers = {} /\ inflight = 0 /\ task.id \in 0..requests /\ requests \in Nat
    BY DEF MirrorInv, MirrorTypes
  <2>2. CASE M!Unchanged
    BY <2>1, <2>2 DEF MirrorInv, Answered
  <2>3. CASE ~M!Unchanged /\ task = M!Idle
    BY <2>1, <2>3
      DEF Answered
  <2>4. CASE ~M!Unchanged /\ task # M!Idle
    <3>1. answers' = {[id |-> requests', status |-> "busy"]} /\ inflight' = requests' /\ task' = task
          /\ requests' = requests + 1
      BY <2>1, <2>4
    <3> QED BY <2>1, <3>1 DEF Answered
  <2> QED BY <2>2, <2>3, <2>4
<1>4. Bounded'
  BY DEF M!MirrorAssumption, MirrorInv, Bounded, MirrorTypes, Answered, Working
<1>5. Remembered'
  BY DEF M!MirrorAssumption, MirrorInv, Remembered, MirrorTypes, Working, Answered
<1>6. Settled'
  BY DEF M!MirrorAssumption, MirrorInv, Settled, MirrorTypes, Working
<1> QED BY <1>1, <1>2, <1>3, <1>4, <1>5, <1>6 DEF MirrorInv

LEMMA ReviewInv == ASSUME M!MirrorAssumption, MirrorInv, M!Review PROVE MirrorInv'
<1> USE DEF M!Review, M!Up, M!Outcome, M!mirror, M!supervisor, M!bounds, M!Idle
<1>1. MirrorTypes'
  <2>1. /\ tree' \in Version /\ release' \in Version /\ previous' \in Version
        /\ stamp' \in Nat /\ known' \in 0..stamp' /\ requests' \in Nat /\ inflight' \in 0..requests'
    BY DEF M!MirrorAssumption, MirrorInv, MirrorTypes
  <2>2. /\ submitted' \in Version \cup {None} /\ rejected' \in Version \cup {None}
        /\ saved' \in Version \cup {None} /\ refused' \in Version \cup {None}
    BY DEF M!MirrorAssumption, MirrorInv, MirrorTypes
  <2>3. rejections' \in Nat /\ streak' \in Nat
    BY DEF M!MirrorAssumption, MirrorInv, MirrorTypes
  <2>4. /\ suppressed' \in BOOLEAN /\ turn' \in BOOLEAN /\ waits' \in BOOLEAN
        /\ recovered' \in BOOLEAN /\ torn' \in BOOLEAN /\ disturbed' \in BOOLEAN
    BY DEF MirrorInv, MirrorTypes
  <2>5. task' \in [at : Place, id : 0..requests', content : Version \cup {None}]
    BY DEF MirrorInv, MirrorTypes, Place
  <2>6. answers' \subseteq [id : 1..requests', status : Status]
    BY DEF MirrorInv, MirrorTypes, Status
  <2> QED BY <2>1, <2>2, <2>3, <2>4, <2>5, <2>6 DEF MirrorTypes
<1>2. Working'
  BY DEF MirrorInv, MirrorTypes, Working, Answered
<1>3. Answered'
  BY DEF M!MirrorAssumption, MirrorInv, Answered, MirrorTypes, Working
<1>4. Bounded'
  <2>1. PICK r \in answers :
          IF r.id = inflight
          THEN M!Outcome(r.status) /\ streak' = IF r.status = "rejected" THEN streak ELSE 0
          ELSE UNCHANGED <<inflight, rejected, rejections, suppressed, streak>>
    OBVIOUS
  <2>2. r.id # 0 /\ rejections \in Nat /\ streak \in Nat /\ Limit \in Nat \ {0} /\ inflight \in Nat
        /\ suppressed \in BOOLEAN
    BY DEF M!MirrorAssumption, MirrorInv, MirrorTypes
  <2>3. CASE r.id # inflight
    BY <2>1, <2>3 DEF MirrorInv, Bounded
  <2>4. CASE r.id = inflight /\ r.status = "rejected"
    <3>1. ~suppressed /\ rejections < Limit /\ streak <= rejections + 1
      BY <2>2, <2>4 DEF MirrorInv, Bounded
    <3>2. inflight' = 0 /\ streak' = streak /\ rejections' = rejections + 1
          /\ (~suppressed' => ~(rejections' >= Limit))
      BY <2>1, <2>4
    <3> QED BY <2>2, <3>1, <3>2 DEF Bounded
  <2>5. CASE r.id = inflight /\ r.status # "rejected"
    <3>1. r.status = "busy" /\ rejections <= Limit
      BY <2>5 DEF MirrorInv, Answered, Bounded
    <3>2. inflight' = 0 /\ streak' = 0 /\ rejections' = rejections /\ suppressed' = TRUE
      BY <2>1, <2>5, <3>1
    <3> QED BY <2>2, <3>1, <3>2 DEF Bounded
  <2> QED BY <2>3, <2>4, <2>5
<1>5. Remembered'
  BY DEF M!MirrorAssumption, MirrorInv, Remembered, MirrorTypes, Working, Answered
<1>6. Settled'
  BY DEF M!MirrorAssumption, MirrorInv, Settled, MirrorTypes, Working
<1> QED BY <1>1, <1>2, <1>3, <1>4, <1>5, <1>6 DEF MirrorInv

LEMMA OperatorInv == ASSUME M!MirrorAssumption, MirrorInv, M!Operator PROVE MirrorInv'
<1> USE DEF M!Operator, M!Up, M!Idle, M!mirror, M!staging, M!core, M!history
<1>1. MirrorTypes'
  <2>1. /\ tree' \in Version /\ release' \in Version /\ previous' \in Version
        /\ stamp' \in Nat /\ known' \in 0..stamp' /\ requests' \in Nat /\ inflight' \in 0..requests'
    BY DEF M!MirrorAssumption, MirrorInv, MirrorTypes
  <2>2. /\ submitted' \in Version \cup {None} /\ rejected' \in Version \cup {None}
        /\ saved' \in Version \cup {None} /\ refused' \in Version \cup {None}
    BY DEF M!MirrorAssumption, MirrorInv, MirrorTypes
  <2>3. rejections' \in Nat /\ streak' \in Nat
    BY DEF M!MirrorAssumption, MirrorInv, MirrorTypes
  <2>4. /\ suppressed' \in BOOLEAN /\ turn' \in BOOLEAN /\ waits' \in BOOLEAN
        /\ recovered' \in BOOLEAN /\ torn' \in BOOLEAN /\ disturbed' \in BOOLEAN
    BY DEF MirrorInv, MirrorTypes
  <2>5. task' \in [at : Place, id : 0..requests', content : Version \cup {None}]
    BY DEF MirrorInv, MirrorTypes, Place
  <2>6. answers' \subseteq [id : 1..requests', status : Status]
    BY DEF MirrorInv, MirrorTypes, Status
  <2> QED BY <2>1, <2>2, <2>3, <2>4, <2>5, <2>6 DEF MirrorTypes
<1>2. Working'
  BY DEF M!MirrorAssumption, MirrorInv, Working, MirrorTypes
<1>3. Answered'
  BY DEF M!MirrorAssumption, MirrorInv, Answered, MirrorTypes, Working
<1>4. Bounded'
  BY DEF M!MirrorAssumption, MirrorInv, Bounded, MirrorTypes, Answered, Working
<1>5. Remembered'
  BY DEF M!MirrorAssumption, MirrorInv, Remembered, MirrorTypes, Working, Answered
<1>6. Settled'
  BY DEF M!MirrorAssumption, MirrorInv, Settled, MirrorTypes, Working
<1> QED BY <1>1, <1>2, <1>3, <1>4, <1>5, <1>6 DEF MirrorInv

LEMMA CaptureInv == ASSUME M!MirrorAssumption, MirrorInv, M!Capture PROVE MirrorInv'
<1> USE DEF M!Capture, M!At, M!mirror, M!staging, M!core, M!bounds, M!history, M!Idle
<1>1. MirrorTypes'
  <2>1. /\ tree' \in Version /\ release' \in Version /\ previous' \in Version
        /\ stamp' \in Nat /\ known' \in 0..stamp' /\ requests' \in Nat /\ inflight' \in 0..requests'
    BY DEF M!MirrorAssumption, MirrorInv, MirrorTypes
  <2>2. /\ submitted' \in Version \cup {None} /\ rejected' \in Version \cup {None}
        /\ saved' \in Version \cup {None} /\ refused' \in Version \cup {None}
    BY DEF M!MirrorAssumption, MirrorInv, MirrorTypes
  <2>3. rejections' \in Nat /\ streak' \in Nat
    BY DEF M!MirrorAssumption, MirrorInv, MirrorTypes
  <2>4. /\ suppressed' \in BOOLEAN /\ turn' \in BOOLEAN /\ waits' \in BOOLEAN
        /\ recovered' \in BOOLEAN /\ torn' \in BOOLEAN /\ disturbed' \in BOOLEAN
    BY DEF MirrorInv, MirrorTypes
  <2>5. task' \in [at : Place, id : 0..requests', content : Version \cup {None}]
    BY DEF MirrorInv, MirrorTypes, Place
  <2>6. answers' \subseteq [id : 1..requests', status : Status]
    BY DEF MirrorInv, MirrorTypes, Status
  <2> QED BY <2>1, <2>2, <2>3, <2>4, <2>5, <2>6 DEF MirrorTypes
<1>2. Working'
  BY DEF M!MirrorAssumption, MirrorInv, Working, MirrorTypes
<1>3. Answered'
  BY DEF M!MirrorAssumption, MirrorInv, Answered, MirrorTypes, Working
<1>4. Bounded'
  BY DEF M!MirrorAssumption, MirrorInv, Bounded, MirrorTypes, Answered, Working
<1>5. Remembered'
  BY DEF M!MirrorAssumption, MirrorInv, Remembered, MirrorTypes, Working, Answered
<1>6. Settled'
  BY DEF M!MirrorAssumption, MirrorInv, Settled, MirrorTypes, Working
<1> QED BY <1>1, <1>2, <1>3, <1>4, <1>5, <1>6 DEF MirrorInv

LEMMA ValidatedInv == ASSUME M!MirrorAssumption, MirrorInv, M!Validated PROVE MirrorInv'
<1> USE DEF M!Validated, M!At, M!GoesTo, M!mirror, M!staging, M!bounds, M!history, M!Idle
<1>1. MirrorTypes'
  BY DEF M!MirrorAssumption, MirrorInv, MirrorTypes, Place, Status
<1>2. Working'
  BY DEF M!MirrorAssumption, MirrorInv, Working, MirrorTypes
<1>3. Answered'
  BY DEF M!MirrorAssumption, MirrorInv, Answered, MirrorTypes, Working
<1>4. Bounded'
  BY DEF M!MirrorAssumption, MirrorInv, Bounded, MirrorTypes, Answered, Working
<1>5. Remembered'
  BY DEF M!MirrorAssumption, MirrorInv, Remembered, MirrorTypes, Working, Answered
<1>6. Settled'
  BY DEF M!MirrorAssumption, MirrorInv, Settled, MirrorTypes, Working
<1> QED BY <1>1, <1>2, <1>3, <1>4, <1>5, <1>6 DEF MirrorInv

LEMMA DrainedInv == ASSUME M!MirrorAssumption, MirrorInv, M!Drained PROVE MirrorInv'
<1> USE DEF M!Drained, M!At, M!GoesTo, M!mirror, M!staging, M!core, M!bounds, M!history, M!Idle
<1>1. MirrorTypes'
  BY DEF M!MirrorAssumption, MirrorInv, MirrorTypes, Place, Status
<1>2. Working'
  BY DEF M!MirrorAssumption, MirrorInv, Working, MirrorTypes
<1>3. Answered'
  BY DEF M!MirrorAssumption, MirrorInv, Answered, MirrorTypes, Working
<1>4. Bounded'
  BY DEF M!MirrorAssumption, MirrorInv, Bounded, MirrorTypes, Answered, Working
<1>5. Remembered'
  BY DEF M!MirrorAssumption, MirrorInv, Remembered, MirrorTypes, Working, Answered
<1>6. Settled'
  BY DEF M!MirrorAssumption, MirrorInv, Settled, MirrorTypes, Working
<1> QED BY <1>1, <1>2, <1>3, <1>4, <1>5, <1>6 DEF MirrorInv

LEMMA RejectInv == ASSUME M!MirrorAssumption, MirrorInv, M!Reject PROVE MirrorInv'
<1> USE DEF M!Reject, M!Result, M!Idle, M!mirror, M!staging, M!bounds
<1>1. MirrorTypes'
  <2>1. /\ tree' \in Version /\ release' \in Version /\ previous' \in Version
        /\ stamp' \in Nat /\ known' \in 0..stamp' /\ requests' \in Nat /\ inflight' \in 0..requests'
    BY DEF M!MirrorAssumption, MirrorInv, MirrorTypes
  <2>2. /\ submitted' \in Version \cup {None} /\ rejected' \in Version \cup {None}
        /\ saved' \in Version \cup {None} /\ refused' \in Version \cup {None}
    BY DEF M!MirrorAssumption, MirrorInv, MirrorTypes
  <2>3. rejections' \in Nat /\ streak' \in Nat
    BY DEF M!MirrorAssumption, MirrorInv, MirrorTypes
  <2>4. /\ suppressed' \in BOOLEAN /\ turn' \in BOOLEAN /\ waits' \in BOOLEAN
        /\ recovered' \in BOOLEAN /\ torn' \in BOOLEAN /\ disturbed' \in BOOLEAN
    BY DEF MirrorInv, MirrorTypes
  <2>5. task' \in [at : Place, id : 0..requests', content : Version \cup {None}]
    BY DEF MirrorInv, MirrorTypes, Place
  <2>6. answers' \subseteq [id : 1..requests', status : Status]
    BY DEF MirrorInv, MirrorTypes, Status
  <2> QED BY <2>1, <2>2, <2>3, <2>4, <2>5, <2>6 DEF MirrorTypes
<1>2. Working'
  BY DEF M!MirrorAssumption, MirrorInv, Working, MirrorTypes
<1>3. Answered'
  <2>1. /\ task' = M!Idle /\ answers' = answers \cup M!Result("rejected") /\ UNCHANGED inflight
        /\ task.id \in 0..requests /\ requests \in Nat /\ inflight \in Nat
    BY DEF MirrorInv, MirrorTypes
  <2>2. CASE task.id = 0
    <3>1. answers' = answers
      BY <2>1, <2>2
    <3>2. \A r \in answers : r.id # 0
      BY DEF MirrorInv, MirrorTypes
    <3> QED BY <2>1, <2>2, <3>1, <3>2 DEF MirrorInv, Answered
  <2>3. CASE task.id # 0
    <3>1. answers' = answers \cup {[id |-> inflight, status |-> "rejected"]} /\ task.id = inflight
      BY <2>1, <2>3 DEF MirrorInv, Working
    <3>2. \A r \in answers : r.id # inflight /\ r.id # 0
      BY <3>1 DEF MirrorInv, MirrorTypes, Answered
    <3>3. \A r \in answers' : r \in answers \/ r = [id |-> inflight, status |-> "rejected"]
      BY <3>1
    <3>4. [id |-> inflight, status |-> "rejected"] \in answers' /\ task'.id = 0 /\ inflight' = inflight
      BY <2>1, <3>1 DEF M!Idle
    <3>5. \A r, s \in answers' : r.id = s.id => r = s
      BY <3>2, <3>3 DEF MirrorInv, Answered
    <3>6. (\A r \in answers' : r.id # 0) /\ inflight # 0
      BY <2>3, <3>1, <3>2, <3>3
    <3>7. \A r \in answers' : r.id = inflight => r.status \in {"rejected", "busy"}
      BY <3>2, <3>3
    <3> QED BY <3>4, <3>5, <3>6, <3>7 DEF Answered
  <2> QED BY <2>2, <2>3
<1>4. Bounded'
  BY DEF M!MirrorAssumption, MirrorInv, Bounded, MirrorTypes, Answered, Working
<1>5. Remembered'
  <2>1. /\ task' = M!Idle /\ answers' = answers \cup M!Result("rejected") /\ UNCHANGED inflight
        /\ task.id \in 0..requests /\ requests \in Nat /\ inflight \in Nat
    BY DEF MirrorInv, MirrorTypes
  <2>2. CASE task.id = 0
    <3>1. answers' = answers
      BY <2>1, <2>2
    <3>2. \A r \in answers : r.id # 0
      BY DEF MirrorInv, MirrorTypes
    <3> QED BY <2>1, <2>2, <3>1, <3>2 DEF MirrorInv, Remembered
  <2>3. CASE task.id # 0
    <3>1. answers' = answers \cup {[id |-> inflight, status |-> "rejected"]} /\ task.id = inflight
      BY <2>1, <2>3 DEF MirrorInv, Working
    <3>2. \A r \in answers : r.id # inflight /\ r.id # 0
      BY <3>1 DEF MirrorInv, MirrorTypes, Answered
    <3>3. \A r \in answers' : r.id = inflight => r.status = "rejected"
      BY <3>1, <3>2
    <3>4. /\ task'.id = 0 /\ task'.at = "none" /\ inflight' = inflight /\ inflight # 0
          /\ refused' = task.content /\ UNCHANGED <<torn, tree, submitted, rejected>>
      BY <2>1, <2>3, <3>1
    <3>5. ~torn => task.content \in {None, submitted}
      BY <2>3 DEF MirrorInv, Remembered, Working, MirrorTypes, Place
    <3> QED BY <3>3, <3>4, <3>5 DEF Remembered
  <2> QED BY <2>2, <2>3
<1>6. Settled'
  BY DEF M!MirrorAssumption, MirrorInv, Settled, MirrorTypes, Working
<1> QED BY <1>1, <1>2, <1>3, <1>4, <1>5, <1>6 DEF MirrorInv

LEMMA StopInv == ASSUME M!MirrorAssumption, MirrorInv, M!Stop PROVE MirrorInv'
<1> USE DEF M!Stop, M!At, M!GoesTo, M!mirror, M!staging, M!core, M!bounds, M!history, M!Idle
<1>1. MirrorTypes'
  BY DEF M!MirrorAssumption, MirrorInv, MirrorTypes, Place, Status
<1>2. Working'
  BY DEF M!MirrorAssumption, MirrorInv, Working, MirrorTypes
<1>3. Answered'
  BY DEF M!MirrorAssumption, MirrorInv, Answered, MirrorTypes, Working
<1>4. Bounded'
  BY DEF M!MirrorAssumption, MirrorInv, Bounded, MirrorTypes, Answered, Working
<1>5. Remembered'
  BY DEF M!MirrorAssumption, MirrorInv, Remembered, MirrorTypes, Working, Answered
<1>6. Settled'
  BY DEF M!MirrorAssumption, MirrorInv, Settled, MirrorTypes, Working
<1> QED BY <1>1, <1>2, <1>3, <1>4, <1>5, <1>6 DEF MirrorInv

LEMMA ActivateInv == ASSUME M!MirrorAssumption, MirrorInv, M!Activate PROVE MirrorInv'
<1> USE DEF M!Activate, M!At, M!Result, M!Prepare, M!Synced, M!Idle, M!mirror, M!bounds
<1>1. MirrorTypes'
  <2>1. /\ tree' \in Version /\ release' \in Version /\ previous' \in Version
        /\ stamp' \in Nat /\ known' \in 0..stamp' /\ requests' \in Nat /\ inflight' \in 0..requests'
    BY DEF M!MirrorAssumption, MirrorInv, MirrorTypes, Working
  <2>2. /\ submitted' \in Version \cup {None} /\ rejected' \in Version \cup {None}
        /\ saved' \in Version \cup {None} /\ refused' \in Version \cup {None}
    BY DEF M!MirrorAssumption, MirrorInv, MirrorTypes
  <2>3. rejections' \in Nat /\ streak' \in Nat
    BY DEF M!MirrorAssumption, MirrorInv, MirrorTypes
  <2>4. /\ suppressed' \in BOOLEAN /\ turn' \in BOOLEAN /\ waits' \in BOOLEAN
        /\ recovered' \in BOOLEAN /\ torn' \in BOOLEAN /\ disturbed' \in BOOLEAN
    BY DEF MirrorInv, MirrorTypes
  <2>5. task' \in [at : Place, id : 0..requests', content : Version \cup {None}]
    BY DEF MirrorInv, MirrorTypes, Place
  <2>6. answers' \subseteq [id : 1..requests', status : Status]
    BY DEF MirrorInv, MirrorTypes, Status
  <2> QED BY <2>1, <2>2, <2>3, <2>4, <2>5, <2>6 DEF MirrorTypes
<1>2. Working'
  BY DEF M!MirrorAssumption, MirrorInv, Working, MirrorTypes
<1>3. Answered'
  BY DEF M!MirrorAssumption, MirrorInv, Answered, MirrorTypes, Working
<1>4. Bounded'
  BY DEF M!MirrorAssumption, MirrorInv, Bounded, MirrorTypes, Answered, Working
<1>5. Remembered'
  BY DEF M!MirrorAssumption, MirrorInv, Remembered, MirrorTypes, Working, Answered
<1>6. Settled'
  BY DEF M!MirrorAssumption, MirrorInv, Settled, MirrorTypes, Working
<1> QED BY <1>1, <1>2, <1>3, <1>4, <1>5, <1>6 DEF MirrorInv

LEMMA RestartInv == ASSUME M!MirrorAssumption, MirrorInv, M!Restart PROVE MirrorInv'
<1> USE DEF M!Restart, M!At, M!Result, M!Prepare, M!Synced, M!Idle, M!mirror, M!bounds
<1>1. MirrorTypes'
  <2>1. /\ tree' \in Version /\ release' \in Version /\ previous' \in Version
        /\ stamp' \in Nat /\ known' \in 0..stamp' /\ requests' \in Nat /\ inflight' \in 0..requests'
    BY DEF M!MirrorAssumption, MirrorInv, MirrorTypes
  <2>2. /\ submitted' \in Version \cup {None} /\ rejected' \in Version \cup {None}
        /\ saved' \in Version \cup {None} /\ refused' \in Version \cup {None}
    BY DEF M!MirrorAssumption, MirrorInv, MirrorTypes
  <2>3. rejections' \in Nat /\ streak' \in Nat
    BY DEF M!MirrorAssumption, MirrorInv, MirrorTypes
  <2>4. /\ suppressed' \in BOOLEAN /\ turn' \in BOOLEAN /\ waits' \in BOOLEAN
        /\ recovered' \in BOOLEAN /\ torn' \in BOOLEAN /\ disturbed' \in BOOLEAN
    BY DEF MirrorInv, MirrorTypes
  <2>5. task' \in [at : Place, id : 0..requests', content : Version \cup {None}]
    BY DEF MirrorInv, MirrorTypes, Place
  <2>6. answers' \subseteq [id : 1..requests', status : Status]
    BY DEF MirrorInv, MirrorTypes, Status
  <2> QED BY <2>1, <2>2, <2>3, <2>4, <2>5, <2>6 DEF MirrorTypes
<1>2. Working'
  BY DEF M!MirrorAssumption, MirrorInv, Working, MirrorTypes
<1>3. Answered'
  BY DEF M!MirrorAssumption, MirrorInv, Answered, MirrorTypes, Working
<1>4. Bounded'
  BY DEF M!MirrorAssumption, MirrorInv, Bounded, MirrorTypes, Answered, Working
<1>5. Remembered'
  BY DEF M!MirrorAssumption, MirrorInv, Remembered, MirrorTypes, Working, Answered
<1>6. Settled'
  BY DEF M!MirrorAssumption, MirrorInv, Settled, MirrorTypes, Working
<1> QED BY <1>1, <1>2, <1>3, <1>4, <1>5, <1>6 DEF MirrorInv

LEMMA RecoverInv == ASSUME M!MirrorAssumption, MirrorInv, M!Recover PROVE MirrorInv'
<1> USE DEF M!Recover, M!Result, M!Prepare, M!Synced, M!Idle, M!mirror
<1>1. MirrorTypes'
  <2>1. /\ tree' \in Version /\ release' \in Version /\ previous' \in Version
        /\ stamp' \in Nat /\ known' \in 0..stamp' /\ requests' \in Nat /\ inflight' \in 0..requests'
    BY DEF M!MirrorAssumption, MirrorInv, MirrorTypes
  <2>2. /\ submitted' \in Version \cup {None} /\ rejected' \in Version \cup {None}
        /\ saved' \in Version \cup {None} /\ refused' \in Version \cup {None}
    BY DEF M!MirrorAssumption, MirrorInv, MirrorTypes
  <2>3. rejections' \in Nat /\ streak' \in Nat
    BY DEF M!MirrorAssumption, MirrorInv, MirrorTypes
  <2>4. /\ suppressed' \in BOOLEAN /\ turn' \in BOOLEAN /\ waits' \in BOOLEAN
        /\ recovered' \in BOOLEAN /\ torn' \in BOOLEAN /\ disturbed' \in BOOLEAN
    BY DEF MirrorInv, MirrorTypes
  <2>5. task' \in [at : Place, id : 0..requests', content : Version \cup {None}]
    BY DEF MirrorInv, MirrorTypes, Place
  <2>6. answers' \subseteq [id : 1..requests', status : Status]
    BY DEF MirrorInv, MirrorTypes, Status
  <2> QED BY <2>1, <2>2, <2>3, <2>4, <2>5, <2>6 DEF MirrorTypes
<1>2. Working'
  BY DEF M!MirrorAssumption, MirrorInv, Working, MirrorTypes
<1>3. Answered'
  BY DEF M!MirrorAssumption, MirrorInv, Answered, MirrorTypes, Working
<1>4. Bounded'
  BY DEF M!MirrorAssumption, MirrorInv, Bounded, MirrorTypes, Answered, Working
<1>5. Remembered'
  BY DEF M!MirrorAssumption, MirrorInv, Remembered, MirrorTypes, Working, Answered
<1>6. Settled'
  BY DEF M!MirrorAssumption, MirrorInv, Settled, MirrorTypes, Working
<1> QED BY <1>1, <1>2, <1>3, <1>4, <1>5, <1>6 DEF MirrorInv

LEMMA ResumeQueueInv == ASSUME M!MirrorAssumption, MirrorInv, M!ResumeQueue PROVE MirrorInv'
<1> USE DEF M!ResumeQueue, M!mirror, M!staging, M!supervisor, M!bounds, M!history, M!Idle
<1>1. MirrorTypes'
  BY DEF M!MirrorAssumption, MirrorInv, MirrorTypes, Place, Status
<1>2. Working'
  BY DEF M!MirrorAssumption, MirrorInv, Working, MirrorTypes
<1>3. Answered'
  BY DEF M!MirrorAssumption, MirrorInv, Answered, MirrorTypes, Working
<1>4. Bounded'
  BY DEF M!MirrorAssumption, MirrorInv, Bounded, MirrorTypes, Answered, Working
<1>5. Remembered'
  BY DEF M!MirrorAssumption, MirrorInv, Remembered, MirrorTypes, Working, Answered
<1>6. Settled'
  BY DEF M!MirrorAssumption, MirrorInv, Settled, MirrorTypes, Working
<1> QED BY <1>1, <1>2, <1>3, <1>4, <1>5, <1>6 DEF MirrorInv

LEMMA MirrorNextInv == ASSUME M!MirrorAssumption PROVE MirrorInv /\ [M!Next]_M!vars => MirrorInv'
<1> SUFFICES ASSUME MirrorInv, [M!Next]_M!vars PROVE MirrorInv'
  OBVIOUS
<1>1. CASE UNCHANGED M!vars
  BY <1>1 DEF M!vars, M!mirror, M!core, M!staging, M!supervisor, M!bounds, M!history,
       MirrorInv, MirrorTypes, Working, Answered, Bounded, Remembered, Settled
<1> QED BY <1>1, MessageInv, EndTurnInv, WriteInv, SweepInv, ReviewInv, OperatorInv,
     CaptureInv, ValidatedInv, DrainedInv, RejectInv, StopInv, ActivateInv, RestartInv,
     RecoverInv, ResumeQueueInv
  DEF M!Next

LEMMA MirrorInitInv == ASSUME M!MirrorAssumption PROVE M!Init => MirrorInv
<1> SUFFICES ASSUME M!Init PROVE MirrorInv
  OBVIOUS
<1>1. MirrorTypes
  <2>1. /\ task \in [at : Place, id : 0..requests, content : Version \cup {None}]
        /\ answers \subseteq [id : 1..requests, status : Status]
    BY DEF M!Init, M!Idle, Place
  <2>2. /\ suppressed \in BOOLEAN /\ turn \in BOOLEAN /\ waits \in BOOLEAN
        /\ recovered \in BOOLEAN /\ torn \in BOOLEAN /\ disturbed \in BOOLEAN
    BY DEF M!Init
  <2>3. /\ stamp \in Nat /\ known \in 0..stamp /\ requests \in Nat /\ inflight \in 0..requests
        /\ rejections \in Nat /\ streak \in Nat
    BY DEF M!Init
  <2> QED BY <2>1, <2>2, <2>3 DEF M!MirrorAssumption, M!Init, MirrorTypes
<1>2. Working /\ Settled /\ Answered
  BY DEF M!Init, M!Idle, Working, Settled, Answered
<1>3. Bounded /\ Remembered
  BY DEF M!MirrorAssumption, M!Init, M!Idle, Bounded, Remembered
<1> QED BY <1>1, <1>2, <1>3 DEF MirrorInv

LEMMA MirrorInvariant == ASSUME M!MirrorAssumption PROVE M!Spec => []MirrorInv
  BY MirrorInitInv, MirrorNextInv, PTL DEF M!Spec

(* Every submission is under way or answered, the core gives up after as    *)
(* many rejections in a row as the limit says, a rejected tree is not       *)
(* validated again and what a recovery undid stays undone: _check_staging,  *)
(* _staging_outcome, prepare and the transitions of the supervisor.         *)
THEOREM StagingStaysSound == ASSUME M!MirrorAssumption PROVE M!Spec => []M!StagingIsSound
<1>1. MirrorInv => M!TypeOK
  BY DEF MirrorInv, MirrorTypes, M!TypeOK, Place, Status
<1>2. MirrorInv => M!Accounted
  BY DEF MirrorInv, Answered, M!Accounted
<1>3. MirrorInv => M!LoopIsBounded
  BY DEF M!MirrorAssumption, MirrorInv, MirrorTypes, Bounded, M!LoopIsBounded
<1>4. MirrorInv => M!NoSecondRejection
  BY DEF M!MirrorAssumption, MirrorInv, MirrorTypes, Working, Remembered,
       M!NoSecondRejection, M!At
<1>5. MirrorInv => M!RolledBackStays
  BY DEF MirrorInv, Settled, M!RolledBackStays
<1> QED BY MirrorInvariant, <1>1, <1>2, <1>3, <1>4, <1>5, PTL DEF M!StagingIsSound
===============================================================================
