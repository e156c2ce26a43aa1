-------------------------- MODULE LogFanoutProofs --------------------------
(***************************************************************************)
(* Theorems about LogFanout, for any number of threads and senders.  What  *)
(* a sender has been given matters to them only as the set of the calls,   *)
(* CallsIn, each of which is there once, and as the last of the indices.   *)
(***************************************************************************)
EXTENDS LogFanout, SequenceTheorems, TLAPS

Given == [call : Nat, index : Nat]

CallsIn(seq) == {seq[i].call : i \in 1..Len(seq)}
Once(seq) == \A i, j \in 1..Len(seq) : seq[i].call = seq[j].call => i = j

-----------------------------------------------------------------------------
(* Lemmas about sequences                                                    *)

LEMMA Appended ==
  ASSUME NEW S, NEW seq \in Seq(S), NEW e \in S
  PROVE  /\ Append(seq, e) \in Seq(S) /\ Len(Append(seq, e)) = Len(seq) + 1
         /\ \A i \in 1..Len(seq) : Append(seq, e)[i] = seq[i]
         /\ Append(seq, e)[Len(seq) + 1] = e
  OBVIOUS

LEMMA ElementsAppended ==
  ASSUME NEW S, NEW seq \in Seq(S), NEW e \in S
  PROVE  Elements(Append(seq, e)) = Elements(seq) \cup {e}
<1> DEFINE t == Append(seq, e)
<1>1. /\ Len(seq) \in Nat /\ Len(t) = Len(seq) + 1 /\ t[Len(seq) + 1] = e
      /\ \A i \in 1..Len(seq) : t[i] = seq[i]
  BY Appended
<1> HIDE DEF t
<1>2. Elements(t) \subseteq Elements(seq) \cup {e}
  BY <1>1 DEF Elements
<1>3. Elements(seq) \subseteq Elements(t)
  <2>1. ASSUME NEW i \in 1..Len(seq) PROVE seq[i] \in Elements(t)
    <3>1. i \in 1..Len(t) /\ t[i] = seq[i]
      BY <1>1
    <3>2. QED
      BY <3>1 DEF Elements
  <2>2. QED
    BY <2>1 DEF Elements
<1>4. e \in Elements(t)
  <2>1. Len(seq) + 1 \in 1..Len(t)
    BY <1>1
  <2>2. QED
    BY <1>1, <2>1 DEF Elements
<1>5. QED
  BY <1>2, <1>3, <1>4 DEF t

LEMMA InjectiveAppended ==
  ASSUME NEW S, NEW seq \in Seq(S), NEW e \in S, IsInjective(seq), e \notin Elements(seq)
  PROVE  IsInjective(Append(seq, e))
<1> DEFINE t == Append(seq, e)
<1>1. /\ Len(seq) \in Nat /\ t[Len(seq) + 1] = e
      /\ DOMAIN t = 1..Len(seq) + 1 /\ DOMAIN seq = 1..Len(seq)
      /\ \A i \in 1..Len(seq) : t[i] = seq[i] /\ seq[i] # e
  BY Appended DEF Elements
<1> HIDE DEF t
<1>2. ASSUME NEW i \in DOMAIN t, NEW j \in DOMAIN t, t[i] = t[j] PROVE i = j
  <2>1. CASE i \in 1..Len(seq) /\ j \in 1..Len(seq)
    BY <1>1, <1>2, <2>1 DEF IsInjective
  <2>2. CASE i \notin 1..Len(seq) \/ j \notin 1..Len(seq)
    BY <1>1, <1>2, <2>2
  <2>3. QED
    BY <2>1, <2>2
<1>3. QED
  BY <1>2 DEF IsInjective, t

LEMMA CallsAppended ==
  ASSUME NEW seq \in Seq(Given), NEW e \in Given, Once(seq), e.call \notin CallsIn(seq)
  PROVE  /\ CallsIn(Append(seq, e)) = CallsIn(seq) \cup {e.call}
         /\ Once(Append(seq, e))
<1> DEFINE t == Append(seq, e)
<1>1. /\ Len(seq) \in Nat /\ Len(t) = Len(seq) + 1 /\ t[Len(seq) + 1] = e
      /\ \A i \in 1..Len(seq) : t[i] = seq[i] /\ seq[i].call # e.call
  BY Appended DEF CallsIn
<1> HIDE DEF t
<1>2. CallsIn(t) \subseteq CallsIn(seq) \cup {e.call}
  BY <1>1 DEF CallsIn
<1>3. CallsIn(seq) \subseteq CallsIn(t)
  <2>1. ASSUME NEW i \in 1..Len(seq) PROVE seq[i].call \in CallsIn(t)
    <3>1. i \in 1..Len(t) /\ t[i] = seq[i]
      BY <1>1
    <3>2. QED
      BY <3>1 DEF CallsIn
  <2>2. QED
    BY <2>1 DEF CallsIn
<1>4. e.call \in CallsIn(t)
  <2>1. Len(seq) + 1 \in 1..Len(t)
    BY <1>1
  <2>2. QED
    BY <1>1, <2>1 DEF CallsIn
<1>5. ASSUME NEW i \in 1..Len(t), NEW j \in 1..Len(t), t[i].call = t[j].call PROVE i = j
  <2>1. CASE i \in 1..Len(seq) /\ j \in 1..Len(seq)
    BY <1>1, <1>5, <2>1 DEF Once
  <2>2. CASE i \notin 1..Len(seq) \/ j \notin 1..Len(seq)
    BY <1>1, <1>5, <2>2
  <2>3. QED
    BY <2>1, <2>2
<1>6. QED
  BY <1>2, <1>3, <1>4, <1>5 DEF Once, t

LEMMA SubSeqIs ==
  ASSUME NEW S, NEW seq \in Seq(S), NEW m \in Nat, NEW n \in Nat,
         1 <= m, m <= n + 1, n <= Len(seq), NEW t, t = SubSeq(seq, m, n)
  PROVE  /\ t \in Seq(S) /\ Len(t) = (n + 1) - m
         /\ \A i \in 1..(n + 1) - m : t[i] = seq[(m + i) - 1]
<1>1. \A i \in m..n : seq[i] \in S
  OBVIOUS
<1>2. /\ t \in Seq(S) /\ Len(t) = IF m <= n THEN n - m + 1 ELSE 0
      /\ \A i \in 1 .. n - m + 1 : t[i] = seq[m + i - 1]
  BY <1>1, SubSeqProperties
<1>3. QED
  BY <1>2

LEMMA RemovedAt ==
  ASSUME NEW S, NEW seq \in Seq(S), IsInjective(seq), NEW i \in 1..Len(seq),
         NEW t, t = RemoveAt(seq, i)
  PROVE  /\ t \in Seq(S) /\ IsInjective(t)
         /\ Elements(t) = Elements(seq) \ {seq[i]}
<1> DEFINE n == Len(seq)
<1>1. n \in Nat /\ DOMAIN seq = 1..n /\ \A j \in 1..n : seq[j] \in S
  OBVIOUS
<1>2. /\ t \in Seq(S) /\ Len(t) = n - 1
      /\ \A j \in 1..n - 1 : t[j] = IF j < i THEN seq[j] ELSE seq[j + 1]
  <2> DEFINE a == SubSeq(seq, 1, i - 1)
             b == SubSeq(seq, i + 1, n)
  <2>1. a \in Seq(S) /\ Len(a) = i - 1 /\ \A j \in 1..i - 1 : a[j] = seq[j]
    <3>1. i - 1 \in Nat /\ 1 <= (i - 1) + 1 /\ i - 1 <= n
      BY <1>1
    <3> HIDE DEF a
    <3>2. /\ a \in Seq(S) /\ Len(a) = ((i - 1) + 1) - 1
          /\ \A j \in 1..((i - 1) + 1) - 1 : a[j] = seq[(1 + j) - 1]
      BY <3>1, SubSeqIs DEF a
    <3>3. QED
      BY <1>1, <3>2
  <2>2. b \in Seq(S) /\ Len(b) = n - i /\ \A j \in 1..n - i : b[j] = seq[i + j]
    <3>1. i + 1 \in Nat /\ 1 <= i + 1 /\ i + 1 <= n + 1 /\ n <= Len(seq)
      BY <1>1
    <3> HIDE DEF b
    <3>2. /\ b \in Seq(S) /\ Len(b) = (n + 1) - (i + 1)
          /\ \A j \in 1..(n + 1) - (i + 1) : b[j] = seq[((i + 1) + j) - 1]
      BY <1>1, <3>1, SubSeqIs DEF b
    <3>3. \A j \in 1..n - i : ((i + 1) + j) - 1 = i + j
      BY <1>1
    <3>4. (n + 1) - (i + 1) = n - i
      BY <1>1
    <3> HIDE DEF n
    <3>5. QED
      BY <3>2, <3>3, <3>4
  <2>3. t = a \o b
    BY DEF RemoveAt
  <2> HIDE DEF a, b, n
  <2>4. t \in Seq(S) /\ Len(t) = (i - 1) + (n - i)
    <3>1. t \in Seq(S) /\ Len(t) = Len(a) + Len(b)
      BY <2>1, <2>2, <2>3, ConcatProperties
    <3>2. QED
      BY <2>1, <2>2, <3>1
  <2>5. ASSUME NEW j \in 1..n - 1 PROVE t[j] = IF j < i THEN seq[j] ELSE seq[j + 1]
    <3>1. CASE j < i
      BY <1>1, <2>1, <2>2, <2>3, <3>1
    <3>2. CASE ~(j < i)
      <4>1. j - (i - 1) \in 1..n - i /\ i + (j - (i - 1)) = j + 1
        BY <1>1, <3>2 DEF n
      <4>2. t[j] = b[j - (i - 1)]
        BY <1>1, <2>1, <2>2, <2>3, <3>2, <4>1 DEF n
      <4>3. QED
        BY <2>2, <3>2, <4>1, <4>2
    <3>3. QED
      BY <3>1, <3>2
  <2>6. QED
    BY <1>1, <2>4, <2>5 DEF n
<1> HIDE DEF n
<1>3. DOMAIN t = 1..n - 1
  BY <1>1, <1>2
<1>4. \A j, k \in 1..n : seq[j] = seq[k] => j = k
  BY <1>1 DEF IsInjective
<1>5. IsInjective(t)
  <2>1. ASSUME NEW j \in 1..n - 1, NEW k \in 1..n - 1, t[j] = t[k] PROVE j = k
    <3> DEFINE at(x) == IF x < i THEN x ELSE x + 1
    <3>1. at(j) \in 1..n /\ at(k) \in 1..n /\ t[j] = seq[at(j)] /\ t[k] = seq[at(k)]
      BY <1>1, <1>2
    <3>2. at(j) = at(k)
      BY <1>4, <2>1, <3>1
    <3>3. QED
      BY <1>1, <3>2
  <2>2. QED
    BY <1>3, <2>1 DEF IsInjective
<1>6. Elements(t) \subseteq Elements(seq) \ {seq[i]}
  <2>1. ASSUME NEW j \in 1..n - 1 PROVE t[j] \in Elements(seq) \ {seq[i]}
    <3> DEFINE at == IF j < i THEN j ELSE j + 1
    <3>1. at \in 1..n /\ at # i /\ t[j] = seq[at]
      BY <1>1, <1>2
    <3>2. QED
      BY <1>1, <1>4, <3>1 DEF Elements, n
  <2>2. QED
    BY <1>1, <1>2, <2>1 DEF Elements
<1>7. Elements(seq) \ {seq[i]} \subseteq Elements(t)
  <2>1. ASSUME NEW k \in 1..n, k # i PROVE seq[k] \in Elements(t)
    <3> DEFINE at == IF k < i THEN k ELSE k - 1
    <3>1. at \in 1..n - 1 /\ t[at] = seq[k]
      <4>1. CASE k < i
        BY <1>1, <1>2, <4>1 DEF n
      <4>2. CASE k > i
        <5>1. k - 1 \in 1..n - 1 /\ ~(k - 1 < i) /\ (k - 1) + 1 = k
          BY <1>1, <4>2
        <5>2. t[k - 1] = seq[(k - 1) + 1]
          BY <1>2, <5>1
        <5>3. QED
          BY <1>1, <4>2, <5>1, <5>2
      <4>3. QED
        BY <1>1, <2>1, <4>1, <4>2
    <3>2. QED
      BY <1>2, <3>1 DEF Elements
  <2>2. QED
    BY <2>1 DEF Elements, n
<1>8. QED
  BY <1>2, <1>5, <1>6, <1>7

-----------------------------------------------------------------------------
(* The inductive invariant                                                   *)

Frame == [pc : {"idle", "load", "store", "send"}, call : Nat, snapshot : Seq(Senders),
          next : Nat, index : Nat]

Typed ==
  /\ senders \in Seq(Senders) /\ handlers \in SUBSET Senders
  /\ status \in [Senders -> Status] /\ limit \in [Senders -> Int] /\ backlog \in Int
  /\ next_msg_index \in Nat /\ log \in [Loggers -> Frame]
  /\ got \in [Senders -> Seq(Given)] /\ audience \in Seq(SUBSET Senders)
  /\ overlapped \in BOOLEAN

(* Nobody knows a sender which has not been created.                         *)
Unborn ==
  \A s \in Senders : status[s] = "none" =>
    /\ s \notin Elements(senders) /\ got[s] = <<>>
    /\ \A k \in 1..Len(audience) : s \notin audience[k]

(* A thread in the middle of its loop has given its message to the senders   *)
(* of its snapshot before `next', unless these are closed, and to no other.  *)
Active(t) == log[t].pc # "idle"
Loop(frame) ==
  /\ frame.call \in 1..Len(audience) /\ audience[frame.call] = Elements(frame.snapshot)
  /\ frame.next \in 1..Len(frame.snapshot) + 1 /\ IsInjective(frame.snapshot)
  /\ frame.pc # "send" => frame.next = 1
  /\ \A j \in 1..Len(frame.snapshot) :
       IF j < frame.next
       THEN status[frame.snapshot[j]] = "open" => frame.call \in CallsIn(got[frame.snapshot[j]])
       ELSE frame.call \notin CallsIn(got[frame.snapshot[j]])
Loops == \A t \in Loggers : IF Active(t) THEN Loop(log[t]) ELSE log[t].call = 0
Distinct ==
  \A t, u \in Loggers : Active(t) /\ Active(u) /\ log[t].call = log[u].call => t = u

History ==
  \A s \in Senders : Once(got[s]) /\ CallsIn(got[s]) \subseteq 1..Len(audience)
Complete ==
  \A k \in 1..Len(audience) : Finished(k) =>
    \A s \in audience[k] : status[s] = "open" => k \in CallsIn(got[s])

Sending == Loops /\ Distinct /\ History /\ Complete
FInv == Typed /\ SendersMatch /\ Unborn /\ Sending

LEMMA InitFInv == Init => FInv
<1> SUFFICES ASSUME Init PROVE FInv
  OBVIOUS
<1>1. Typed
  <2>1. Quiet \in Frame
    BY DEF Quiet, Frame
  <2>2. /\ senders \in Seq(Senders) /\ audience \in Seq(SUBSET Senders)
        /\ got \in [Senders -> Seq(Given)] /\ log \in [Loggers -> Frame]
    BY <2>1 DEF Init
  <2>3. status \in [Senders -> Status] /\ limit \in [Senders -> Int]
    BY DEF Init, Status
  <2>4. backlog \in Int /\ handlers \in SUBSET Senders /\ next_msg_index \in Nat
    BY DEF Init, DefaultBacklog
  <2>5. overlapped \in BOOLEAN
    BY DEF Init
  <2>6. QED
    BY <2>2, <2>3, <2>4, <2>5 DEF Typed
<1>2. SendersMatch
  BY DEF Init, SendersMatch, Elements, IsInjective
<1>3. Unborn
  BY DEF Init, Unborn, Elements
<1>4. Loops /\ Distinct
  BY DEF Init, Loops, Distinct, Active, Quiet
<1>5. History /\ Complete
  BY DEF Init, History, Complete, Once, CallsIn
<1>6. QED
  BY <1>1, <1>2, <1>3, <1>4, <1>5 DEF FInv, Sending

-----------------------------------------------------------------------------
(* Senders which come and go                                                 *)

LEMMA RemovalIs ==
  ASSUME FInv, NEW s \in Senders, Removal(s)
  PROVE  /\ senders' \in Seq(Senders) /\ handlers' \in SUBSET Senders
         /\ Elements(senders') = Elements(senders) \ {s} /\ IsInjective(senders')
         /\ handlers' = Elements(senders')
<1>1. /\ senders \in Seq(Senders) /\ handlers \in SUBSET Senders
      /\ handlers = Elements(senders) /\ IsInjective(senders)
  BY DEF FInv, Typed, SendersMatch
<1>2. CASE s \in Elements(senders)
  <2>1. \E i \in 1..Len(senders) : senders[i] = s /\ \A j \in 1..i - 1 : senders[j] # s
    <3>1. PICK i \in 1..Len(senders) : senders[i] = s
      BY <1>2 DEF Elements
    <3>2. ASSUME NEW j \in 1..i - 1 PROVE senders[j] # s
      BY <1>1, <3>1 DEF IsInjective
    <3>3. QED
      BY <3>1, <3>2
  <2>2. Position(s) \in 1..Len(senders) /\ senders[Position(s)] = s
    BY <2>1 DEF Position
  <2>3. senders' = RemoveAt(senders, Position(s)) /\ handlers' = handlers \ {s}
    BY <1>2 DEF Removal
  <2>4. /\ senders' \in Seq(Senders) /\ IsInjective(senders')
        /\ Elements(senders') = Elements(senders) \ {senders[Position(s)]}
    BY <1>1, <2>2, <2>3, RemovedAt
  <2>5. QED
    BY <1>1, <2>2, <2>3, <2>4
<1>3. CASE s \notin Elements(senders)
  BY <1>1, <1>3 DEF Removal
<1>4. QED
  BY <1>2, <1>3

LEMMA ClosedIs ==
  ASSUME FInv, NEW s \in Senders, status[s] # "none", Closed(s), UNCHANGED <<limit, backlog>>
  PROVE  /\ senders' \in Seq(Senders) /\ handlers' \in SUBSET Senders
         /\ status' \in [Senders -> Status] /\ SendersMatch'
         /\ Elements(senders') \subseteq Elements(senders)
         /\ \A x \in Senders : status'[x] = IF x = s THEN "closed" ELSE status[x]
<1>1. /\ senders \in Seq(Senders) /\ handlers \in SUBSET Senders
      /\ status \in [Senders -> Status] /\ SendersMatch
      /\ handlers = Elements(senders) /\ IsInjective(senders)
  BY DEF FInv, Typed, SendersMatch
<1>2. /\ status' \in [Senders -> Status]
      /\ \A x \in Senders : status'[x] = IF x = s THEN "closed" ELSE status[x]
  BY <1>1 DEF Closed, Status
<1>3. /\ senders' \in Seq(Senders) /\ handlers' \in SUBSET Senders
      /\ Elements(senders') = Elements(senders) \ {s} /\ IsInjective(senders')
      /\ handlers' = Elements(senders')
  <2>1. CASE s \in handlers
    BY <2>1, RemovalIs DEF Closed
  <2>2. CASE s \notin handlers
    BY <1>1, <2>2 DEF Closed
  <2>3. QED
    BY <2>1, <2>2
<1>4. Elements(senders) \subseteq Senders
  BY <1>1 DEF Elements
<1>5. QED
  BY <1>1, <1>2, <1>3, <1>4 DEF SendersMatch

(* Nothing but a new sender is opened, and that is in no audience yet.       *)
LEMMA SendingGoesOn ==
  ASSUME FInv, UNCHANGED <<log, got, audience>>,
         \A x \in Senders : status'[x] = "open" => status[x] \in {"open", "none"}
  PROVE  Sending'
<1>1. Typed /\ Unborn /\ Sending
  BY DEF FInv
<1>2. ASSUME NEW k \in 1..Len(audience), NEW s \in audience[k], status'[s] = "open"
      PROVE  s \in Senders /\ status[s] = "open"
  <2>1. s \in Senders /\ status[s] # "none"
    BY <1>1 DEF Typed, Unborn
  <2>2. QED
    BY <1>2, <2>1
<1>3. ASSUME NEW t \in Loggers, Active(t) PROVE Loop(log[t])'
  <2>1. PICK f : f = log[t]
    OBVIOUS
  <2>2. Loop(f) /\ log'[t] = f
    BY <1>1, <1>3, <2>1 DEF Sending, Loops
  <2>3. ASSUME NEW j \in 1..Len(f.snapshot), status'[f.snapshot[j]] = "open"
        PROVE  status[f.snapshot[j]] = "open"
    <3>1. f.call \in 1..Len(audience) /\ f.snapshot[j] \in audience[f.call]
      BY <2>2 DEF Loop, Elements
    <3>2. QED
      BY <1>2, <2>3, <3>1
  <2>4. Loop(f)'
    BY <2>2, <2>3 DEF Loop
  <2>5. QED
    BY <2>2, <2>4
<1>4. Loops' /\ Distinct'
  BY <1>1, <1>3 DEF Sending, Loops, Distinct, Active
<1>5. History'
  BY <1>1 DEF Sending, History
<1>6. Complete'
  BY <1>1, <1>2 DEF Sending, Complete, Finished
<1>7. QED
  BY <1>4, <1>5, <1>6 DEF Sending

LEMMA NewSenderStep ==
  ASSUME FInv, NEW s \in Senders, NewSender(s)
  PROVE  FInv'
<1>1. Typed /\ SendersMatch /\ Unborn /\ status[s] = "none" /\ s \notin Elements(senders)
  BY DEF FInv, NewSender, Unborn
<1>2. /\ senders' \in Seq(Senders) /\ IsInjective(senders')
      /\ Elements(senders') = Elements(senders) \cup {s}
  <2>1. senders \in Seq(Senders) /\ IsInjective(senders) /\ senders' = Append(senders, s)
    BY <1>1 DEF Typed, SendersMatch, NewSender
  <2>2. QED
    BY <1>1, <2>1, Appended, ElementsAppended, InjectiveAppended
<1>3. /\ status' \in [Senders -> Status] /\ limit' \in [Senders -> Int]
      /\ \A x \in Senders : /\ status'[x] = IF x = s THEN "open" ELSE status[x]
                            /\ limit'[x] = IF x = s THEN backlog ELSE limit[x]
  BY <1>1 DEF Typed, NewSender, NewLimit, Status
<1>4. /\ handlers' = handlers \cup {s}
      /\ UNCHANGED <<backlog, next_msg_index, log, got, audience, overlapped>>
  BY DEF NewSender
<1>5. Typed'
  BY <1>1, <1>2, <1>3, <1>4 DEF Typed
<1>6. SendersMatch'
  <2>1. Elements(senders) \subseteq Senders
    BY <1>1 DEF Typed, Elements
  <2>2. QED
    BY <1>1, <1>2, <1>3, <1>4, <2>1 DEF SendersMatch
<1>7. Unborn'
  BY <1>1, <1>2, <1>3, <1>4 DEF Unborn
<1>8. Sending'
  BY <1>1, <1>3, <1>4, SendingGoesOn
<1>9. QED
  BY <1>5, <1>6, <1>7, <1>8 DEF FInv

(* The owner removes a sender, or closes it, or the sender closes itself.    *)
LEMMA SenderGoes ==
  ASSUME FInv, NEW s \in Senders, RemoveSender(s) \/ SenderCloses(s) \/ CloseSender(s)
  PROVE  FInv'
<1>1. Typed /\ SendersMatch /\ Unborn /\ Elements(senders) \subseteq Senders
  BY DEF FInv, Typed, Elements
<1>2. UNCHANGED <<limit, backlog, next_msg_index, log, got, audience, overlapped>>
  BY DEF RemoveSender, SenderCloses, CloseSender
<1>3. /\ senders' \in Seq(Senders) /\ handlers' \in SUBSET Senders
      /\ status' \in [Senders -> Status] /\ SendersMatch'
      /\ Elements(senders') \subseteq Elements(senders)
      /\ \A x \in Senders : \/ status'[x] = status[x]
                            \/ status[x] # "none" /\ status'[x] \in {"closing", "closed"}
  <2>1. CASE RemoveSender(s)
    <3>1. Removal(s) /\ status' = status
      BY <2>1 DEF RemoveSender
    <3>2. /\ senders' \in Seq(Senders) /\ handlers' \in SUBSET Senders
          /\ Elements(senders') = Elements(senders) \ {s} /\ IsInjective(senders')
          /\ handlers' = Elements(senders')
      BY <3>1, RemovalIs
    <3>3. QED
      BY <1>1, <1>2, <3>1, <3>2 DEF Typed, SendersMatch
  <2>2. CASE SenderCloses(s)
    <3>1. status[s] # "none" /\ Closed(s)
      BY <2>2 DEF SenderCloses
    <3>2. /\ senders' \in Seq(Senders) /\ handlers' \in SUBSET Senders
          /\ status' \in [Senders -> Status] /\ SendersMatch'
          /\ Elements(senders') \subseteq Elements(senders)
          /\ \A x \in Senders : status'[x] = IF x = s THEN "closed" ELSE status[x]
      BY <1>2, <3>1, ClosedIs
    <3>3. QED
      BY <3>1, <3>2
  <2>3. CASE CloseSender(s)
    <3>1. status[s] = "open" /\ status' = [status EXCEPT ![s] = "closing"] /\ UNCHANGED <<senders, handlers>>
      BY <2>3 DEF CloseSender
    <3>2. /\ status' \in [Senders -> Status]
          /\ \A x \in Senders : status'[x] = IF x = s THEN "closing" ELSE status[x]
      BY <1>1, <3>1 DEF Typed, Status
    <3>3. QED
      BY <1>1, <1>2, <3>1, <3>2 DEF Typed, SendersMatch
  <2>4. QED
    BY <2>1, <2>2, <2>3
<1>4. Typed' /\ Unborn'
  BY <1>1, <1>2, <1>3 DEF Typed, Unborn
<1>5. Sending'
  BY <1>2, <1>3, SendingGoesOn
<1>6. QED
  BY <1>3, <1>4, <1>5 DEF FInv

LEMMA DisposeIs ==
  ASSUME FInv, Dispose
  PROVE  /\ senders' = <<>> /\ handlers' = {} /\ status' \in [Senders -> Status]
         /\ UNCHANGED <<limit, backlog, next_msg_index, log, got, audience, overlapped>>
         /\ \A x \in Senders : \/ status'[x] = status[x]
                               \/ status[x] # "none" /\ status'[x] = "closed"
<1>1. Typed /\ Unborn /\ handlers = Elements(senders)
  BY DEF FInv, SendersMatch
<1>2. PICK unowned \in SUBSET Elements(senders) :
        status' = [s \in Senders |-> IF s \in unowned THEN "closed" ELSE status[s]]
  BY DEF Dispose
<1>3. status' \in [Senders -> Status]
  BY <1>1, <1>2 DEF Typed, Status
<1>4. ASSUME NEW x \in Senders
      PROVE  status'[x] = status[x] \/ (status[x] # "none" /\ status'[x] = "closed")
  BY <1>1, <1>2 DEF Unborn
<1>5. QED
  BY <1>1, <1>3, <1>4 DEF Dispose

LEMMA DisposeStep ==
  ASSUME FInv, Dispose
  PROVE  FInv'
<1>1. Typed /\ Unborn /\ Elements(senders') = {}
  BY DisposeIs DEF FInv, Elements
<1>2. SendersMatch'
  BY <1>1, DisposeIs DEF SendersMatch, IsInjective
<1>3. Typed' /\ Unborn'
  BY <1>1, DisposeIs DEF Typed, Unborn
<1>4. Sending'
  BY DisposeIs, SendingGoesOn
<1>5. QED
  BY <1>2, <1>3, <1>4 DEF FInv

LEMMA SetBacklogStep ==
  ASSUME FInv, NEW n \in Backlogs, SetBacklog(n)
  PROVE  FInv'
<1>1. Typed /\ SendersMatch /\ Unborn
  BY DEF FInv
<1>2. /\ backlog' = NormalizeBacklog(n)
      /\ limit' = [s \in Senders |-> IF s \in Elements(senders) THEN backlog' ELSE limit[s]]
      /\ UNCHANGED <<senders, handlers, status, next_msg_index, log, got, audience, overlapped>>
  BY DEF SetBacklog
<1>3. backlog' \in Int
  BY <1>2, FanoutConstants DEF NormalizeBacklog, DefaultBacklog, Unlimited
<1>4. Typed' /\ SendersMatch'
  <2>1. limit' \in [Senders -> Int]
    BY <1>1, <1>2, <1>3 DEF Typed
  <2>2. Elements(senders) \subseteq Senders
    BY <1>1 DEF Typed, Elements
  <2>3. \A s \in Elements(senders) : limit'[s] = backlog'
    BY <1>2, <2>2
  <2>4. QED
    BY <1>1, <1>2, <1>3, <2>1, <2>3 DEF Typed, SendersMatch
<1>5. Unborn'
  BY <1>1, <1>2 DEF Unborn
<1>6. Sending'
  BY <1>2, SendingGoesOn
<1>7. QED
  BY <1>4, <1>5, <1>6 DEF FInv

-----------------------------------------------------------------------------
(* Logging                                                                   *)

LEMMA LogIs ==
  ASSUME FInv, NEW t \in Loggers
  PROVE  log[t] \in Frame /\ (IF Active(t) THEN Loop(log[t]) ELSE log[t].call = 0)
  BY DEF FInv, Typed, Sending, Loops

LEMMA BeginStep ==
  ASSUME FInv, NEW t \in Loggers, Begin(t)
  PROVE  FInv'
<1>1. /\ Typed /\ SendersMatch /\ Unborn /\ Sending
      /\ senders \in Seq(Senders) /\ log \in [Loggers -> Frame] /\ log[t].call = 0
      /\ ~Active(t)
  BY LogIs DEF FInv, Typed, Begin, Active
<1>2. PICK n \in Nat : n = Len(audience)
  BY <1>1 DEF Typed
<1>3. PICK f : f = [pc |-> "load", call |-> n + 1, snapshot |-> senders, next |-> 1, index |-> 0]
  OBVIOUS
<1>4. /\ f \in Frame /\ f.pc = "load" /\ f.call = n + 1 /\ f.snapshot = senders /\ f.next = 1
  BY <1>1, <1>2, <1>3 DEF Frame
<1>5. /\ log' \in [Loggers -> Frame]
      /\ \A u \in Loggers : log'[u] = IF u = t THEN f ELSE log[u]
  BY <1>1, <1>2, <1>3, <1>4 DEF Begin
<1>6. /\ audience' \in Seq(SUBSET Senders) /\ Len(audience') = n + 1
      /\ \A k \in 1..n : audience'[k] = audience[k]
      /\ audience'[n + 1] = Elements(senders)
  <2>1. audience' = Append(audience, Elements(senders)) /\ audience \in Seq(SUBSET Senders)
    BY <1>1 DEF Begin, Typed
  <2>2. Elements(senders) \in SUBSET Senders
    BY <1>1 DEF Elements
  <2>3. QED
    BY <1>2, <2>1, <2>2, Appended
<1>7. /\ UNCHANGED <<senders, handlers, status, limit, backlog, next_msg_index, got>>
      /\ overlapped' \in BOOLEAN
  BY DEF Begin
<1>8. Typed' /\ SendersMatch'
  BY <1>1, <1>5, <1>6, <1>7 DEF Typed, SendersMatch
<1>9. Unborn'
  <2>1. ASSUME NEW s \in Senders, status[s] = "none", NEW k \in 1..n + 1
        PROVE  s \notin audience'[k]
    <3>1. CASE k = n + 1
      BY <1>1, <1>6, <2>1, <3>1 DEF Unborn
    <3>2. CASE k # n + 1
      BY <1>1, <1>2, <1>6, <2>1, <3>2 DEF Unborn
    <3>3. QED
      BY <3>1, <3>2
  <2>2. QED
    BY <1>1, <1>6, <1>7, <2>1 DEF Unborn
<1>10. \A s \in Senders : Once(got[s]) /\ CallsIn(got[s]) \subseteq 1..n
  BY <1>1, <1>2 DEF Sending, History
<1>11. Loop(f)'
  <2>1. IsInjective(senders) /\ Len(senders) \in Nat /\ \A j \in 1..Len(senders) : senders[j] \in Senders
    BY <1>1 DEF SendersMatch
  <2>2. n + 1 \in 1..n + 1 /\ n + 1 \notin 1..n /\ 1 \in 1..Len(senders) + 1
    BY <2>1
  <2>3. ASSUME NEW j \in 1..Len(senders)
        PROVE  ~(j < 1) /\ n + 1 \notin CallsIn(got[senders[j]])
    <3>1. senders[j] \in Senders
      BY <2>1
    <3>2. n + 1 \notin CallsIn(got[senders[j]])
      BY <1>10, <2>2, <3>1
    <3>3. ~(j < 1)
      OBVIOUS
    <3>4. QED
      BY <3>2, <3>3
  <2>4. QED
    BY <1>4, <1>6, <1>7, <2>1, <2>2, <2>3 DEF Loop
<1>12. ASSUME NEW u \in Loggers, u # t, Active(u)
       PROVE  Loop(log[u])' /\ log[u].call \in 1..n
  <2>1. PICK g : g = log[u]
    OBVIOUS
  <2>2. Loop(g) /\ log'[u] = g
    BY <1>5, <1>12, <2>1, LogIs
  <2>3. g.call \in 1..n /\ g.call \in 1..n + 1
    BY <1>2, <2>2 DEF Loop
  <2>4. Loop(g)'
    BY <1>6, <1>7, <2>2, <2>3 DEF Loop
  <2>5. QED
    BY <2>1, <2>2, <2>3, <2>4
<1>13. Loops'
  <2>1. ASSUME NEW u \in Loggers PROVE (IF Active(u) THEN Loop(log[u]) ELSE log[u].call = 0)'
    <3>1. CASE u = t
      BY <1>4, <1>5, <1>11, <3>1 DEF Active
    <3>2. CASE u # t
      BY <1>5, <1>12, <3>2, LogIs DEF Active
    <3>3. QED
      BY <3>1, <3>2
  <2>2. QED
    BY <2>1 DEF Loops
<1>14. Distinct'
  <2>1. ASSUME NEW u \in Loggers, NEW v \in Loggers, Active(u)', Active(v)',
               log'[u].call = log'[v].call
        PROVE  u = v
    <3>1. CASE u # t /\ v # t
      BY <1>1, <1>5, <2>1, <3>1 DEF Sending, Distinct, Active
    <3>2. CASE u = t /\ v # t
      BY <1>4, <1>5, <1>12, <2>1, <3>2 DEF Active
    <3>3. CASE u # t /\ v = t
      BY <1>4, <1>5, <1>12, <2>1, <3>3 DEF Active
    <3>4. QED
      BY <3>1, <3>2, <3>3
  <2>2. QED
    BY <2>1 DEF Distinct
<1>15. History'
  <2>1. 1..n \subseteq 1..n + 1
    OBVIOUS
  <2>2. QED
    BY <1>6, <1>7, <1>10, <2>1 DEF History
<1>16. Complete'
  <2>1. ASSUME NEW k \in 1..n + 1, Finished(k)' PROVE k \in 1..n /\ Finished(k)
    <3>1. k # n + 1
      BY <1>4, <1>5, <2>1 DEF Finished
    <3>2. \A u \in Loggers : log[u].call # k
      BY <1>1, <1>5, <2>1 DEF Finished
    <3>3. QED
      BY <3>1, <3>2 DEF Finished
  <2>2. QED
    BY <1>1, <1>2, <1>6, <1>7, <2>1 DEF Sending, Complete
<1>17. QED
  BY <1>8, <1>9, <1>13, <1>14, <1>15, <1>16 DEF FInv, Sending

(* The index is loaded and stored.                                           *)
LEMMA IndexStep ==
  ASSUME FInv, NEW t \in Loggers, LoadIndex(t) \/ StoreIndex(t)
  PROVE  FInv'
<1>1. Typed /\ SendersMatch /\ Unborn /\ Sending /\ Active(t) /\ log[t] \in Frame
  BY LogIs DEF FInv, LoadIndex, StoreIndex, Active
<1>2. PICK old : old = log[t]
  OBVIOUS
<1>3. PICK f : f = IF LoadIndex(t) THEN [old EXCEPT !.pc = "store", !.index = next_msg_index]
                   ELSE [old EXCEPT !.pc = "send"]
  OBVIOUS
<1>4. log' = [log EXCEPT ![t] = f]
  <2>1. CASE LoadIndex(t)
    BY <1>1, <1>2, <1>3, <2>1 DEF LoadIndex, Frame
  <2>2. CASE ~LoadIndex(t)
    BY <1>1, <1>2, <1>3, <2>2 DEF StoreIndex, Frame
  <2>3. QED
    BY <2>1, <2>2
<1>5. /\ f \in Frame /\ f.call = old.call /\ f.snapshot = old.snapshot /\ f.next = old.next
      /\ f.pc \in {"store", "send"} /\ old.pc # "send"
  <2>1. next_msg_index \in Nat /\ old \in Frame /\ old.pc # "send"
    BY <1>1, <1>2 DEF Typed, LoadIndex, StoreIndex
  <2>2. QED
    BY <1>3, <2>1 DEF Frame
<1>6. /\ UNCHANGED <<senders, handlers, status, limit, backlog, got, audience, overlapped>>
      /\ next_msg_index' \in Nat
  <2>1. CASE LoadIndex(t)
    BY <1>1, <2>1 DEF LoadIndex, Typed
  <2>2. CASE StoreIndex(t)
    <3>1. log[t].index \in Nat
      BY <1>1 DEF Frame
    <3>2. NextIndex(log[t].index) \in Nat
      BY <3>1, FanoutConstants DEF NextIndex
    <3>3. QED
      BY <2>2, <3>2 DEF StoreIndex
  <2>3. QED
    BY <2>1, <2>2
<1>7. /\ log' \in [Loggers -> Frame]
      /\ \A u \in Loggers : log'[u] = IF u = t THEN f ELSE log[u]
  BY <1>1, <1>4, <1>5 DEF Typed
<1>8. Typed' /\ SendersMatch' /\ Unborn'
  BY <1>1, <1>6, <1>7 DEF Typed, SendersMatch, Unborn
<1>9. \A u \in Loggers : log'[u].call = log[u].call /\ (Active(u)' <=> Active(u))
  BY <1>1, <1>2, <1>5, <1>7 DEF Active
<1>10. ASSUME NEW u \in Loggers, Active(u) PROVE Loop(log[u])'
  <2>1. PICK g : g = log'[u]
    OBVIOUS
  <2>2. Loop(log[u]) /\ Loop(old)
    BY <1>1, <1>2, <1>10, LogIs
  <2>3. Loop(g)
    <3>1. CASE u = t
      BY <1>5, <1>7, <2>1, <2>2, <3>1 DEF Loop
    <3>2. CASE u # t
      BY <1>7, <2>1, <2>2, <3>2
    <3>3. QED
      BY <3>1, <3>2
  <2>4. Loop(g)'
    BY <1>6, <2>3 DEF Loop
  <2>5. QED
    BY <2>1, <2>4
<1>11. Loops' /\ Distinct' /\ History' /\ Complete'
  BY <1>1, <1>6, <1>9, <1>10 DEF Sending, Loops, Distinct, History, Complete, Finished
<1>12. QED
  BY <1>8, <1>11 DEF FInv, Sending

(* One turn of the loop, whatever becomes of the sender.                     *)
LEMMA GiveStep ==
  ASSUME FInv, NEW t \in Loggers, Give(t),
         senders' \in Seq(Senders), handlers' \in SUBSET Senders,
         status' \in [Senders -> Status], SendersMatch',
         Elements(senders') \subseteq Elements(senders),
         \A x \in Senders : status'[x] = status[x] \/ (status[x] # "none" /\ status'[x] = "closed")
  PROVE  FInv'
<1>1. /\ Typed /\ Unborn /\ Sending /\ Active(t) /\ log[t] \in Frame /\ Loop(log[t])
      /\ log[t].pc = "send"
  BY LogIs DEF FInv, Give, Active
<1>2. PICK f : f = log[t]
  OBVIOUS
<1>3. PICK s : s = f.snapshot[f.next]
  OBVIOUS
<1>4. PICK c : c = f.call
  OBVIOUS
<1>5. /\ f \in Frame /\ Loop(f) /\ f.pc = "send" /\ f.next \in 1..Len(f.snapshot)
      /\ c \in Nat /\ c \in 1..Len(audience)
  <2>1. f \in Frame /\ Loop(f) /\ f.pc = "send" /\ f.next <= Len(f.snapshot)
    BY <1>1, <1>2 DEF Give, Receivers
  <2>2. f.next \in 1..Len(f.snapshot) + 1 /\ c \in 1..Len(audience)
    BY <1>4, <2>1 DEF Loop
  <2>3. f.snapshot \in Seq(Senders) /\ audience \in Seq(SUBSET Senders) /\ c \in Nat
    BY <1>1, <1>4, <2>1 DEF Frame, Typed
  <2>4. QED
    BY <2>1, <2>2, <2>3
<1>6. s \in Senders /\ status[s] # "none" /\ c \notin CallsIn(got[s])
  <2>1. s \in Senders
    BY <1>3, <1>5 DEF Frame
  <2>2. s \in audience[c]
    BY <1>3, <1>4, <1>5 DEF Loop, Elements
  <2>3. c \notin CallsIn(got[s])
    BY <1>3, <1>4, <1>5 DEF Loop
  <2>4. QED
    BY <1>1, <1>5, <2>1, <2>2, <2>3 DEF Unborn
<1>7. PICK e : e = [call |-> f.call, index |-> f.index]
  OBVIOUS
<1>8. got' = IF status[s] = "open" THEN [got EXCEPT ![s] = Append(got[s], e)] ELSE got
  BY <1>1, <1>2, <1>3, <1>7 DEF Give, Receivers
<1>9. /\ got' \in [Senders -> Seq(Given)] /\ Once(got'[s])
      /\ \A x \in Senders : x # s => got'[x] = got[x]
      /\ CallsIn(got'[s]) = IF status[s] = "open" THEN CallsIn(got[s]) \cup {c} ELSE CallsIn(got[s])
  <2>1. got \in [Senders -> Seq(Given)] /\ got[s] \in Seq(Given) /\ Once(got[s])
    BY <1>1, <1>6 DEF Typed, Sending, History
  <2>2. CASE status[s] = "open"
    <3>1. e \in Given /\ e.call = c
      BY <1>4, <1>5, <1>7 DEF Given, Frame
    <3>2. PICK a : a = Append(got[s], e)
      OBVIOUS
    <3>3. a \in Seq(Given) /\ Once(a) /\ CallsIn(a) = CallsIn(got[s]) \cup {c}
      BY <1>6, <2>1, <3>1, <3>2, Appended, CallsAppended
    <3>4. got' = [got EXCEPT ![s] = a]
      BY <1>8, <2>2, <3>2
    <3>5. QED
      BY <1>6, <2>1, <2>2, <3>3, <3>4
  <2>3. CASE status[s] # "open"
    BY <1>8, <2>1, <2>3
  <2>4. QED
    BY <2>2, <2>3
<1>10. \A x \in Senders : /\ CallsIn(got[x]) \subseteq CallsIn(got'[x])
                         /\ CallsIn(got'[x]) \subseteq CallsIn(got[x]) \cup {c}
  BY <1>9
<1>11. PICK h : h = [f EXCEPT !.next = f.next + 1]
  OBVIOUS
<1>12. /\ h \in Frame /\ h.call = c /\ h.snapshot = f.snapshot /\ h.next = f.next + 1
       /\ h.pc = "send"
  BY <1>4, <1>5, <1>11 DEF Frame
<1>13. /\ log' \in [Loggers -> Frame]
       /\ \A u \in Loggers : log'[u] = IF u = t THEN h ELSE log[u]
  <2>1. log' = [log EXCEPT ![t] = h]
    BY <1>1, <1>2, <1>11 DEF Give
  <2>2. QED
    BY <1>1, <1>12, <2>1 DEF Typed
<1>14. UNCHANGED <<limit, backlog, next_msg_index, audience, overlapped>>
  BY DEF Give
<1>15. Typed'
  BY <1>1, <1>9, <1>13, <1>14 DEF Typed
<1>16. Unborn'
  BY <1>1, <1>6, <1>9, <1>14 DEF Unborn
<1>17. \A x \in Senders : status'[x] = "open" => status[x] = "open"
  OBVIOUS
<1>18. Loop(h)'
  <2>1. f.snapshot \in Seq(Senders) /\ IsInjective(f.snapshot) /\ f.next \in Nat
    BY <1>5 DEF Loop, Frame
  <2>2. ASSUME NEW j \in 1..Len(f.snapshot)
        PROVE  IF j < f.next + 1
               THEN status'[f.snapshot[j]] = "open" => c \in CallsIn(got'[f.snapshot[j]])
               ELSE c \notin CallsIn(got'[f.snapshot[j]])
    <3>1. PICK x : x = f.snapshot[j]
      OBVIOUS
    <3>2. /\ x \in Senders /\ (x = s => j = f.next)
          /\ IF j < f.next THEN status[x] = "open" => c \in CallsIn(got[x])
                           ELSE c \notin CallsIn(got[x])
      <4>1. x \in Senders
        BY <2>1, <3>1
      <4>2. x = s => j = f.next
        <5>1. DOMAIN f.snapshot = 1..Len(f.snapshot)
          BY <2>1
        <5>2. QED
          BY <1>3, <1>5, <2>1, <3>1, <5>1 DEF IsInjective
      <4>3. IF j < f.next THEN status[x] = "open" => c \in CallsIn(got[x])
                          ELSE c \notin CallsIn(got[x])
        BY <1>4, <1>5, <3>1 DEF Loop
      <4>4. QED
        BY <4>1, <4>2, <4>3
    <3>3. CASE j < f.next
      <4>1. j < f.next + 1 /\ (status[x] = "open" => c \in CallsIn(got[x]))
        BY <2>1, <3>2, <3>3
      <4>2. QED
        BY <1>10, <1>17, <3>1, <3>2, <4>1
    <3>4. CASE j = f.next
      <4>1. j < f.next + 1 /\ x = s
        BY <1>3, <2>1, <3>1, <3>4
      <4>2. QED
        BY <1>9, <1>17, <3>1, <3>2, <4>1
    <3>5. CASE j > f.next
      <4>1. ~(j < f.next + 1) /\ x # s /\ c \notin CallsIn(got[x])
        BY <2>1, <3>2, <3>5
      <4>2. QED
        BY <1>9, <3>1, <3>2, <4>1
    <3>6. QED
      BY <2>1, <3>3, <3>4, <3>5
  <2>3. f.next + 1 \in 1..Len(f.snapshot) + 1
    BY <1>5, <2>1
  <2>4. c \in 1..Len(audience) /\ audience[c] = Elements(f.snapshot)
    BY <1>4, <1>5 DEF Loop
  <2>5. QED
    BY <1>12, <1>14, <2>1, <2>2, <2>3, <2>4 DEF Loop
<1>19. ASSUME NEW u \in Loggers, u # t, Active(u) PROVE Loop(log[u])'
  <2>1. PICK g : g = log[u]
    OBVIOUS
  <2>2. Loop(g) /\ g \in Frame /\ g.call # c /\ log'[u] = g
    BY <1>1, <1>2, <1>4, <1>13, <1>19, <2>1, LogIs DEF Sending, Distinct
  <2>3. ASSUME NEW j \in 1..Len(g.snapshot)
        PROVE  IF j < g.next
               THEN status'[g.snapshot[j]] = "open" => g.call \in CallsIn(got'[g.snapshot[j]])
               ELSE g.call \notin CallsIn(got'[g.snapshot[j]])
    <3>1. PICK x : x = g.snapshot[j]
      OBVIOUS
    <3>2. x \in Senders
      BY <2>2, <3>1 DEF Frame
    <3>3. IF j < g.next THEN status[x] = "open" => g.call \in CallsIn(got[x])
                        ELSE g.call \notin CallsIn(got[x])
      BY <2>2, <3>1 DEF Loop
    <3>4. QED
      BY <1>10, <1>17, <2>2, <3>1, <3>2, <3>3
  <2>4. Loop(g)'
    BY <1>14, <2>2, <2>3 DEF Loop
  <2>5. QED
    BY <2>2, <2>4
<1>20. \A u \in Loggers : log'[u].call = log[u].call /\ (Active(u)' <=> Active(u))
  BY <1>1, <1>2, <1>4, <1>12, <1>13 DEF Active
<1>21. Loops'
  <2>1. ASSUME NEW u \in Loggers PROVE (IF Active(u) THEN Loop(log[u]) ELSE log[u].call = 0)'
    <3>1. CASE u = t
      BY <1>13, <1>18, <1>1, <1>20, <3>1
    <3>2. CASE u # t
      BY <1>19, <1>20, <3>2, LogIs
    <3>3. QED
      BY <3>1, <3>2
  <2>2. QED
    BY <2>1 DEF Loops
<1>22. Distinct'
  BY <1>1, <1>20 DEF Sending, Distinct
<1>23. History'
  <2>1. ASSUME NEW x \in Senders
        PROVE  Once(got'[x]) /\ CallsIn(got'[x]) \subseteq 1..Len(audience)
    <3>1. Once(got[x]) /\ CallsIn(got[x]) \subseteq 1..Len(audience)
      BY <1>1 DEF Sending, History
    <3>2. QED
      BY <1>5, <1>9, <1>10, <3>1
  <2>2. QED
    BY <1>14, <2>1 DEF History
<1>24. Complete'
  <2>1. ASSUME NEW k \in 1..Len(audience), Finished(k)', NEW x \in audience[k], status'[x] = "open"
        PROVE  k \in CallsIn(got'[x])
    <3>1. Finished(k)
      BY <1>20, <2>1 DEF Finished
    <3>2. x \in Senders
      BY <1>1 DEF Typed
    <3>3. k \in CallsIn(got[x])
      BY <1>1, <1>17, <2>1, <3>1, <3>2 DEF Sending, Complete
    <3>4. QED
      BY <1>10, <3>2, <3>3
  <2>2. QED
    BY <1>14, <2>1 DEF Complete
<1>25. QED
  BY <1>15, <1>16, <1>21, <1>22, <1>23, <1>24 DEF FInv, Sending

LEMMA GiveAndGoOnStep ==
  ASSUME FInv, NEW t \in Loggers, GiveAndGoOn(t)
  PROVE  FInv'
<1>1. Give(t) /\ UNCHANGED <<senders, handlers, status>> /\ Typed /\ SendersMatch
  BY DEF GiveAndGoOn, FInv
<1>2. SendersMatch'
  BY <1>1 DEF SendersMatch, Give
<1>3. /\ senders' \in Seq(Senders) /\ handlers' \in SUBSET Senders
      /\ status' \in [Senders -> Status]
      /\ Elements(senders') \subseteq Elements(senders)
      /\ \A x \in Senders : status'[x] = status[x] \/ (status[x] # "none" /\ status'[x] = "closed")
  BY <1>1 DEF Typed
<1>4. QED
  BY <1>1, <1>2, <1>3, GiveStep

LEMMA GiveAndCloseStep ==
  ASSUME FInv, GiveAndClose
  PROVE  FInv'
<1>1. PICK s : s = log[Main].snapshot[log[Main].next]
  OBVIOUS
<1>2. Give(Main) /\ status[s] \in {"open", "closing"} /\ Closed(s)
  BY <1>1 DEF GiveAndClose, Receivers
<1>3. s \in Senders
  <2>1. Main \in Loggers
    BY DEF Loggers
  <2>2. PICK f : f = log[Main]
    OBVIOUS
  <2>3. f \in Frame /\ Loop(f) /\ f.next <= Len(f.snapshot)
    BY <1>2, <2>1, <2>2, LogIs DEF Give, Active, Receivers
  <2>4. f.snapshot \in Seq(Senders) /\ f.next \in 1..Len(f.snapshot) + 1
    BY <2>3 DEF Frame, Loop
  <2>5. QED
    BY <1>1, <2>2, <2>3, <2>4
<1>4. /\ senders' \in Seq(Senders) /\ handlers' \in SUBSET Senders
      /\ status' \in [Senders -> Status] /\ SendersMatch'
      /\ Elements(senders') \subseteq Elements(senders)
      /\ \A x \in Senders : status'[x] = IF x = s THEN "closed" ELSE status[x]
  BY <1>2, <1>3, ClosedIs DEF Give
<1>5. \A x \in Senders : status'[x] = status[x] \/ (status[x] # "none" /\ status'[x] = "closed")
  BY <1>2, <1>4
<1>6. Main \in Loggers
  BY DEF Loggers
<1>7. QED
  BY <1>2, <1>4, <1>5, <1>6, GiveStep

LEMMA FinishStep ==
  ASSUME FInv, NEW t \in Loggers, Finish(t)
  PROVE  FInv'
<1>1. /\ Typed /\ SendersMatch /\ Unborn /\ Sending /\ Active(t)
      /\ log[t] \in Frame /\ Loop(log[t])
  BY LogIs DEF FInv, Finish, Active
<1>2. PICK f : f = log[t]
  OBVIOUS
<1>3. /\ f \in Frame /\ Loop(f) /\ f.next > Len(f.snapshot)
      /\ UNCHANGED <<senders, handlers, status, limit, backlog, next_msg_index, got,
                     audience, overlapped>>
  BY <1>1, <1>2 DEF Finish, Receivers
<1>4. Quiet \in Frame /\ Quiet.pc = "idle" /\ Quiet.call = 0
  BY DEF Quiet, Frame
<1>5. /\ log' \in [Loggers -> Frame]
      /\ \A u \in Loggers : log'[u] = IF u = t THEN Quiet ELSE log[u]
  BY <1>1, <1>4 DEF Finish, Typed
<1>6. Typed' /\ SendersMatch' /\ Unborn'
  BY <1>1, <1>3, <1>5 DEF Typed, SendersMatch, Unborn
<1>7. ASSUME NEW u \in Loggers, Active(u) PROVE Loop(log[u]) /\ (Loop(log[u]) => u = t \/ Loop(log[u])')
  <2>1. PICK g : g = log[u]
    OBVIOUS
  <2>2. Loop(g)
    BY <1>7, <2>1, LogIs
  <2>3. Loop(g)'
    BY <1>3, <2>2 DEF Loop
  <2>4. u # t => log'[u] = g
    BY <1>5, <2>1
  <2>5. QED
    BY <2>1, <2>2, <2>3, <2>4
<1>8. Loops'
  <2>1. ASSUME NEW u \in Loggers PROVE (IF Active(u) THEN Loop(log[u]) ELSE log[u].call = 0)'
    <3>1. CASE u = t
      BY <1>4, <1>5, <3>1 DEF Active
    <3>2. CASE u # t
      BY <1>5, <1>7, <3>2, LogIs DEF Active
    <3>3. QED
      BY <3>1, <3>2
  <2>2. QED
    BY <2>1 DEF Loops
<1>9. Distinct'
  BY <1>1, <1>4, <1>5 DEF Sending, Distinct, Active
<1>10. History'
  BY <1>1, <1>3 DEF Sending, History
<1>11. Complete'
  <2>1. ASSUME NEW k \in 1..Len(audience), Finished(k)', NEW s \in audience[k], status[s] = "open"
        PROVE  k \in CallsIn(got[s])
    <3>1. CASE k = f.call
      <4>1. \A j \in 1..Len(f.snapshot) :
              status[f.snapshot[j]] = "open" => k \in CallsIn(got[f.snapshot[j]])
        <5>1. f.next \in Int /\ Len(f.snapshot) \in Nat
          BY <1>3 DEF Frame
        <5>2. \A j \in 1..Len(f.snapshot) : j < f.next
          BY <1>3, <5>1
        <5>3. QED
          BY <1>3, <3>1, <5>2 DEF Loop
      <4>2. s \in Elements(f.snapshot)
        BY <1>3, <2>1, <3>1 DEF Loop
      <4>3. QED
        BY <2>1, <4>1, <4>2 DEF Elements
    <3>2. CASE k # f.call
      <4>1. Finished(k)
        BY <1>2, <1>5, <2>1, <3>2 DEF Finished
      <4>2. QED
        BY <1>1, <2>1, <4>1 DEF Sending, Complete
    <3>3. QED
      BY <3>1, <3>2
  <2>2. QED
    BY <1>3, <2>1 DEF Complete
<1>12. QED
  BY <1>6, <1>8, <1>9, <1>10, <1>11 DEF FInv, Sending

-----------------------------------------------------------------------------
(* While no two threads have been logging at once                            *)

(* `index' follows the last one which a sender, if it is open, was given.    *)
Expects(s, index) ==
  status[s] = "open" /\ got[s] # <<>> => index = NextIndex(got[s][Len(got[s])].index)

(* A thread has the index which its receivers expect, in its frame or in the *)
(* core, and those it has sent it to expect the one which is in the core.    *)
(* Who came since has got nothing.                                           *)
IndexFor(frame, j) ==
  IF frame.pc = "load" \/ j < frame.next THEN next_msg_index ELSE frame.index
InTurn(frame) ==
  /\ \A s \in Elements(senders) \ Elements(frame.snapshot) : got[s] = <<>>
  /\ \A j \in 1..Len(frame.snapshot) : Expects(frame.snapshot[j], IndexFor(frame, j))
  /\ frame.pc = "send" => next_msg_index = NextIndex(frame.index)
Ordered ==
  /\ \A t, u \in Loggers : Active(t) /\ Active(u) => t = u
  /\ \A t \in Loggers : Active(t) => InTurn(log[t])
  /\ (\A t \in Loggers : ~Active(t)) =>
       \A s \in Elements(senders) : Expects(s, next_msg_index)
OInv == FInv /\ Consecutive /\ (~overlapped => Ordered)

(* Senders come with nothing, and go.                                        *)
LEMMA OrderGoesOn ==
  ASSUME OInv, FInv', UNCHANGED <<next_msg_index, log, got, overlapped>>,
         \A s \in Senders : status'[s] = "open" => status[s] = "open" \/ got[s] = <<>>,
         \A s \in Elements(senders') : s \in Elements(senders) \/ got[s] = <<>>
  PROVE  OInv'
<1>1. FInv /\ Typed /\ Typed' /\ Elements(senders') \subseteq Senders
  BY DEF OInv, FInv, Typed, Elements
<1>2. Consecutive'
  BY DEF OInv, Consecutive
<1>3. ASSUME NEW s \in Senders, NEW i, Expects(s, i) PROVE Expects(s, i)'
  BY <1>3 DEF Expects
<1>4. ASSUME ~overlapped PROVE Ordered'
  <2>1. Ordered
    BY <1>4 DEF OInv
  <2>2. \A t \in Loggers : log'[t] = log[t] /\ (Active(t)' <=> Active(t))
    BY DEF Active
  <2>3. ASSUME NEW t \in Loggers, Active(t) PROVE InTurn(log[t])'
    <3>1. PICK f : f = log[t]
      OBVIOUS
    <3>2. f \in Frame /\ InTurn(f) /\ log'[t] = f
      BY <1>1, <2>1, <2>2, <2>3, <3>1, LogIs DEF Ordered
    <3>3. \A j \in 1..Len(f.snapshot) : f.snapshot[j] \in Senders
      BY <3>2 DEF Frame
    <3>4. ASSUME NEW j \in 1..Len(f.snapshot) PROVE Expects(f.snapshot[j], IndexFor(f, j))'
      <4>1. PICK i : i = IndexFor(f, j)
        OBVIOUS
      <4>2. PICK s : s = f.snapshot[j]
        OBVIOUS
      <4>3. IndexFor(f, j)' = i
        BY <4>1 DEF IndexFor
      <4>4. Expects(s, i)
        BY <3>2, <4>1, <4>2 DEF InTurn
      <4>5. Expects(s, i)'
        BY <1>3, <3>3, <4>2, <4>4
      <4>6. QED
        BY <4>2, <4>3, <4>5
    <3>5. InTurn(f)'
      BY <3>2, <3>4 DEF InTurn
    <3>6. QED
      BY <3>2, <3>5
  <2>4. ASSUME \A t \in Loggers : ~Active(t), NEW s \in Elements(senders')
        PROVE  Expects(s, next_msg_index)'
    <3>1. CASE got[s] = <<>>
      BY <3>1 DEF Expects
    <3>2. CASE got[s] # <<>>
      <4>1. PICK i : i = next_msg_index
        OBVIOUS
      <4>2. s \in Senders /\ Expects(s, i)
        BY <1>1, <2>1, <2>4, <3>2, <4>1 DEF Ordered
      <4>3. Expects(s, i)'
        BY <1>3, <4>2
      <4>4. QED
        BY <4>1, <4>3
    <3>3. QED
      BY <3>1, <3>2
  <2>5. QED
    BY <2>1, <2>2, <2>3, <2>4 DEF Ordered
<1>5. QED
  BY <1>2, <1>4 DEF OInv

LEMMA SendersOrder ==
  ASSUME OInv, FInv', NEW s \in Senders,
         NewSender(s) \/ RemoveSender(s) \/ SenderCloses(s) \/ CloseSender(s)
  PROVE  OInv'
<1>1. Typed /\ Unborn /\ FInv /\ handlers = Elements(senders)
  BY DEF OInv, FInv, SendersMatch
<1>2. UNCHANGED <<next_msg_index, log, got, overlapped>>
  BY DEF NewSender, RemoveSender, SenderCloses, CloseSender
<1>3. CASE NewSender(s)
  <2>1. /\ status[s] = "none" /\ status' = [status EXCEPT ![s] = "open"]
        /\ senders' = Append(senders, s)
    BY <1>3 DEF NewSender
  <2>2. got[s] = <<>> /\ Elements(senders') = Elements(senders) \cup {s}
    BY <1>1, <2>1, ElementsAppended DEF Unborn, Typed
  <2>3. \A x \in Senders : status'[x] = IF x = s THEN "open" ELSE status[x]
    BY <1>1, <2>1 DEF Typed
  <2>4. QED
    BY <1>2, <2>2, <2>3, OrderGoesOn
<1>4. CASE RemoveSender(s)
  <2>1. Removal(s) /\ status' = status
    BY <1>4 DEF RemoveSender
  <2>2. Elements(senders') \subseteq Elements(senders)
    BY <1>1, <2>1, RemovalIs
  <2>3. QED
    BY <1>2, <2>1, <2>2, OrderGoesOn
<1>5. CASE SenderCloses(s)
  <2>1. status[s] # "none" /\ Closed(s) /\ UNCHANGED <<limit, backlog>>
    BY <1>5 DEF SenderCloses
  <2>2. /\ Elements(senders') \subseteq Elements(senders)
        /\ \A x \in Senders : status'[x] = IF x = s THEN "closed" ELSE status[x]
    BY <1>1, <2>1, ClosedIs
  <2>3. QED
    BY <1>2, <2>2, OrderGoesOn
<1>6. CASE CloseSender(s)
  <2>1. status' = [status EXCEPT ![s] = "closing"] /\ senders' = senders
    BY <1>6 DEF CloseSender
  <2>2. \A x \in Senders : status'[x] = IF x = s THEN "closing" ELSE status[x]
    BY <1>1, <2>1 DEF Typed
  <2>3. QED
    BY <1>2, <2>1, <2>2, OrderGoesOn
<1>7. QED
  BY <1>3, <1>4, <1>5, <1>6

LEMMA BeginOrder ==
  ASSUME OInv, FInv', NEW t \in Loggers, Begin(t)
  PROVE  OInv'
<1>1. Typed /\ FInv /\ senders \in Seq(Senders)
  BY DEF OInv, FInv, Typed
<1>2. Consecutive'
  BY DEF OInv, Consecutive, Begin
<1>3. ASSUME ~overlapped' PROVE Ordered'
  <2>1. Ordered /\ \A u \in Loggers : ~Active(u)
    BY <1>3 DEF OInv, Begin, Active
  <2>2. PICK f : f = [pc |-> "load", call |-> Len(audience) + 1, snapshot |-> senders,
                      next |-> 1, index |-> 0]
    OBVIOUS
  <2>3. /\ \A u \in Loggers : log'[u] = IF u = t THEN f ELSE log[u]
        /\ UNCHANGED <<senders, status, next_msg_index, got>>
    BY <1>1, <2>2 DEF Begin, Typed
  <2>4. \A u \in Loggers : Active(u)' => u = t
    BY <2>1, <2>3 DEF Active
  <2>5. f.pc = "load" /\ f.snapshot = senders /\ Active(t)'
    BY <2>2, <2>3 DEF Active
  <2>6. \A j \in 1..Len(senders) : Expects(senders[j], next_msg_index)
    BY <2>1 DEF Ordered, Elements
  <2>7. InTurn(f)'
    BY <2>3, <2>5, <2>6 DEF InTurn, IndexFor, Expects
  <2>8. QED
    BY <2>3, <2>4, <2>5, <2>7 DEF Ordered
<1>4. QED
  BY <1>2, <1>3 DEF OInv

LEMMA IndexOrder ==
  ASSUME OInv, FInv', NEW t \in Loggers, LoadIndex(t) \/ StoreIndex(t)
  PROVE  OInv'
<1>1. Typed /\ FInv /\ Active(t) /\ log[t] \in Frame /\ Loop(log[t])
  BY LogIs DEF OInv, FInv, LoadIndex, StoreIndex, Active
<1>2. UNCHANGED <<senders, status, got, overlapped>>
  BY DEF LoadIndex, StoreIndex
<1>3. Consecutive'
  BY <1>2 DEF OInv, Consecutive
<1>4. ASSUME ~overlapped PROVE Ordered'
  <2>1. Ordered /\ InTurn(log[t]) /\ \A u \in Loggers : Active(u) => u = t
    BY <1>1, <1>4 DEF OInv, Ordered
  <2>2. PICK old : old = log[t]
    OBVIOUS
  <2>3. old \in Frame /\ InTurn(old) /\ Loop(old)
    BY <1>1, <2>1, <2>2
  <2>4. CASE LoadIndex(t)
    <3>1. PICK f : f = [old EXCEPT !.pc = "store", !.index = next_msg_index]
      OBVIOUS
    <3>2. /\ \A u \in Loggers : log'[u] = IF u = t THEN f ELSE log[u]
          /\ next_msg_index' = next_msg_index /\ old.pc = "load"
      <4>1. log' = [log EXCEPT ![t] = f] /\ next_msg_index' = next_msg_index /\ old.pc = "load"
        BY <1>1, <2>2, <2>4, <3>1 DEF LoadIndex, Frame
      <4>2. QED
        BY <1>1, <4>1 DEF Typed
    <3>3. /\ f.pc = "store" /\ f.snapshot = old.snapshot /\ f.next = old.next
          /\ f.index = next_msg_index
      BY <2>3, <3>1 DEF Frame
    <3>4. ASSUME NEW j \in 1..Len(f.snapshot) PROVE Expects(f.snapshot[j], IndexFor(f, j))'
      <4>1. IndexFor(f, j)' = next_msg_index /\ IndexFor(old, j) = next_msg_index
        BY <3>2, <3>3 DEF IndexFor
      <4>2. Expects(f.snapshot[j], next_msg_index)
        BY <2>3, <3>3, <4>1 DEF InTurn
      <4>3. QED
        BY <1>2, <4>1, <4>2 DEF Expects
    <3>5. InTurn(f)'
      BY <1>2, <2>3, <3>3, <3>4 DEF InTurn
    <3>6. Active(t)' /\ \A u \in Loggers : Active(u)' => u = t
      BY <2>1, <3>2, <3>3 DEF Active
    <3>7. QED
      BY <3>2, <3>5, <3>6 DEF Ordered
  <2>5. CASE StoreIndex(t)
    <3>1. PICK f : f = [old EXCEPT !.pc = "send"]
      OBVIOUS
    <3>2. /\ \A u \in Loggers : log'[u] = IF u = t THEN f ELSE log[u]
          /\ next_msg_index' = NextIndex(old.index) /\ old.pc = "store"
      <4>1. /\ log' = [log EXCEPT ![t] = f] /\ next_msg_index' = NextIndex(old.index)
            /\ old.pc = "store"
        BY <1>1, <2>2, <2>5, <3>1 DEF StoreIndex, Frame
      <4>2. QED
        BY <1>1, <4>1 DEF Typed
    <3>3. /\ f.pc = "send" /\ f.snapshot = old.snapshot /\ f.next = 1 /\ old.next = 1
          /\ f.index = old.index
      BY <2>3, <3>1, <3>2 DEF Frame, Loop
    <3>4. ASSUME NEW j \in 1..Len(f.snapshot) PROVE Expects(f.snapshot[j], IndexFor(f, j))'
      <4>1. ~(j < 1)
        OBVIOUS
      <4>2. IndexFor(f, j)' = old.index /\ IndexFor(old, j) = old.index
        BY <3>2, <3>3, <4>1 DEF IndexFor
      <4>3. Expects(f.snapshot[j], old.index)
        BY <2>3, <3>3, <4>2 DEF InTurn
      <4>4. QED
        BY <1>2, <4>2, <4>3 DEF Expects
    <3>5. NextIndex(f.index)' = NextIndex(f.index)
      BY DEF NextIndex
    <3>6. InTurn(f)'
      BY <1>2, <2>3, <3>2, <3>3, <3>4, <3>5 DEF InTurn
    <3>7. Active(t)' /\ \A u \in Loggers : Active(u)' => u = t
      BY <2>1, <3>2, <3>3 DEF Active
    <3>8. QED
      BY <3>2, <3>6, <3>7 DEF Ordered
  <2>6. QED
    BY <2>4, <2>5
<1>5. QED
  BY <1>2, <1>3, <1>4 DEF OInv

LEMMA GiveOrder ==
  ASSUME OInv, FInv', NEW t \in Loggers, Give(t),
         Elements(senders') \subseteq Elements(senders),
         \A x \in Senders : status'[x] = "open" => status[x] = "open"
  PROVE  OInv'
<1>1. Typed /\ FInv /\ Active(t) /\ log[t] \in Frame /\ Loop(log[t]) /\ log[t].pc = "send"
  BY LogIs DEF OInv, FInv, Give, Active
<1>2. PICK f : f = log[t]
  OBVIOUS
<1>3. PICK s : s = f.snapshot[f.next]
  OBVIOUS
<1>4. PICK e : e = [call |-> f.call, index |-> f.index]
  OBVIOUS
<1>5. /\ f \in Frame /\ Loop(f) /\ f.pc = "send" /\ f.next <= Len(f.snapshot)
      /\ UNCHANGED <<next_msg_index, overlapped>>
      /\ got' = IF status[s] = "open" THEN [got EXCEPT ![s] = Append(got[s], e)] ELSE got
  BY <1>1, <1>2, <1>3, <1>4 DEF Give, Receivers
<1>6. /\ f.snapshot \in Seq(Senders) /\ IsInjective(f.snapshot)
      /\ f.next \in 1..Len(f.snapshot) /\ s \in Senders /\ e \in Given
  <2>1. f.snapshot \in Seq(Senders) /\ f.call \in Nat /\ f.index \in Nat /\ f.next \in Nat
    BY <1>5 DEF Frame
  <2>2. f.next \in 1..Len(f.snapshot) + 1 /\ IsInjective(f.snapshot)
    BY <1>5 DEF Loop
  <2>3. f.next \in 1..Len(f.snapshot)
    BY <1>5, <2>1, <2>2
  <2>4. s \in Senders /\ e \in Given
    BY <1>3, <1>4, <2>1, <2>3 DEF Given
  <2>5. QED
    BY <2>1, <2>2, <2>3, <2>4
<1>7. PICK q : q = got[s]
  OBVIOUS
<1>8. PICK a : a = Append(q, e)
  OBVIOUS
<1>9. /\ got \in [Senders -> Seq(Given)] /\ q \in Seq(Given) /\ Len(q) \in Nat
      /\ a \in Seq(Given) /\ Len(a) = Len(q) + 1 /\ a[Len(q) + 1] = e
      /\ \A i \in 1..Len(q) : a[i] = q[i]
  BY <1>1, <1>6, <1>7, <1>8, Appended DEF Typed
<1>10. /\ \A x \in Senders : x # s => got'[x] = got[x]
       /\ got'[s] = IF status[s] = "open" THEN a ELSE q
  BY <1>5, <1>6, <1>7, <1>8, <1>9
<1>11. PICK h : h = [f EXCEPT !.next = f.next + 1]
  OBVIOUS
<1>12. /\ h.snapshot = f.snapshot /\ h.next = f.next + 1 /\ h.pc = "send" /\ h.index = f.index
       /\ \A u \in Loggers : log'[u] = IF u = t THEN h ELSE log[u]
  <2>1. log' = [log EXCEPT ![t] = h]
    BY <1>1, <1>2, <1>11 DEF Give
  <2>2. QED
    BY <1>1, <1>5, <1>11, <2>1 DEF Typed, Frame
<1>13. CASE overlapped
  BY <1>5, <1>13 DEF OInv, Consecutive
<1>14. CASE ~overlapped
  <2>1. InTurn(f) /\ Consecutive /\ \A u \in Loggers : Active(u) => u = t
    BY <1>1, <1>2, <1>14 DEF OInv, Ordered
  <2>2. next_msg_index = NextIndex(f.index) /\ Expects(s, f.index)
    <3>1. ~(f.next < f.next)
      BY <1>6
    <3>2. IndexFor(f, f.next) = f.index
      BY <1>5, <3>1 DEF IndexFor
    <3>3. QED
      BY <1>3, <1>5, <1>6, <2>1, <3>2 DEF InTurn
  <2>3. \A i \in 1..Len(q) - 1 : q[i + 1].index = NextIndex(q[i].index)
    BY <1>6, <1>7, <1>14, <2>1 DEF Consecutive, NextIndex
  <2>4. ASSUME status[s] = "open", NEW i \in 1..Len(a) - 1
        PROVE  a[i + 1].index = NextIndex(a[i].index)
    <3>1. CASE i = Len(q)
      <4>1. a[i + 1].index = f.index /\ a[i] = q[i] /\ q # <<>>
        BY <1>4, <1>9, <2>4, <3>1
      <4>2. f.index = NextIndex(q[i].index)
        BY <1>7, <2>2, <2>4, <3>1, <4>1 DEF Expects
      <4>3. QED
        BY <4>1, <4>2
    <3>2. CASE i # Len(q)
      <4>1. i \in 1..Len(q) - 1 /\ i \in 1..Len(q) /\ i + 1 \in 1..Len(q)
        BY <1>9, <2>4, <3>2
      <4>2. a[i] = q[i] /\ a[i + 1] = q[i + 1]
        BY <1>9, <4>1
      <4>3. QED
        BY <2>3, <4>1, <4>2
    <3>3. QED
      BY <3>1, <3>2
  <2>5. ASSUME NEW x \in Senders, NEW i \in 1..Len(got'[x]) - 1
        PROVE  got'[x][i + 1].index = NextIndex(got'[x][i].index)
    <3>1. CASE x # s
      BY <1>10, <1>14, <2>1, <2>5, <3>1 DEF Consecutive, NextIndex
    <3>2. CASE x = s /\ status[s] = "open"
      BY <1>10, <2>4, <2>5, <3>2
    <3>3. CASE x = s /\ status[s] # "open"
      BY <1>10, <2>3, <2>5, <3>3
    <3>4. QED
      BY <3>1, <3>2, <3>3
  <2>6. Consecutive'
    BY <2>5 DEF Consecutive, NextIndex
  <2>7. Expects(s, next_msg_index)'
    <3>1. CASE status[s] = "open"
      <4>1. got'[s][Len(got'[s])] = e /\ e.index = f.index
        BY <1>4, <1>9, <1>10, <3>1
      <4>2. NextIndex(e.index)' = NextIndex(f.index)
        BY <4>1 DEF NextIndex
      <4>3. next_msg_index' = NextIndex(f.index)
        BY <1>5, <2>2
      <4>4. QED
        BY <4>1, <4>2, <4>3 DEF Expects, NextIndex
    <3>2. CASE status[s] # "open"
      BY <1>6, <3>2 DEF Expects
    <3>3. QED
      BY <3>1, <3>2
  <2>8. ASSUME NEW j \in 1..Len(f.snapshot) PROVE Expects(f.snapshot[j], IndexFor(h, j))'
    <3>1. PICK x : x = f.snapshot[j]
      OBVIOUS
    <3>2. CASE j = f.next
      <4>1. j < f.next + 1 /\ x = s
        BY <1>3, <1>6, <3>1, <3>2
      <4>2. IndexFor(h, j)' = next_msg_index'
        BY <1>12, <4>1 DEF IndexFor
      <4>3. QED
        BY <2>7, <3>1, <4>1, <4>2 DEF Expects
    <3>3. CASE j # f.next
      <4>1. DOMAIN f.snapshot = 1..Len(f.snapshot)
        BY <1>6
      <4>2. x \in Senders /\ x # s
        BY <1>3, <1>6, <3>1, <3>3, <4>1 DEF IsInjective
      <4>3. j < f.next + 1 <=> j < f.next
        BY <1>6, <3>3
      <4>4. PICK i : i = IndexFor(f, j)
        OBVIOUS
      <4>5. IndexFor(h, j)' = i
        BY <1>5, <1>12, <4>3, <4>4 DEF IndexFor
      <4>6. Expects(x, i)
        BY <2>1, <3>1, <4>4 DEF InTurn
      <4>7. Expects(x, i)'
        BY <1>10, <4>2, <4>6 DEF Expects
      <4>8. QED
        BY <3>1, <4>5, <4>7
    <3>4. QED
      BY <3>2, <3>3
  <2>9. ASSUME NEW x \in Elements(senders') \ Elements(f.snapshot) PROVE got'[x] = <<>>
    <3>1. got[x] = <<>> /\ x \in Senders
      <4>1. x \in Elements(senders) \ Elements(f.snapshot)
        OBVIOUS
      <4>2. x \in Senders
        BY <1>1, <4>1 DEF Typed, Elements
      <4>3. QED
        BY <2>1, <4>1, <4>2 DEF InTurn
    <3>2. x # s
      BY <1>3, <1>6, <2>9 DEF Elements
    <3>3. QED
      BY <1>10, <3>1, <3>2
  <2>10. InTurn(h)'
    <3>1. next_msg_index' = NextIndex(h.index)'
      BY <1>5, <1>12, <2>2 DEF NextIndex
    <3>2. QED
      BY <1>12, <2>8, <2>9, <3>1 DEF InTurn
  <2>11. Active(t)' /\ \A u \in Loggers : Active(u)' => u = t
    BY <1>12, <2>1 DEF Active
  <2>12. Ordered'
    BY <1>12, <2>10, <2>11 DEF Ordered
  <2>13. QED
    BY <2>6, <2>12 DEF OInv
<1>15. QED
  BY <1>13, <1>14

LEMMA GiveAndCloseOrder ==
  ASSUME OInv, FInv', GiveAndClose
  PROVE  OInv'
<1>1. PICK s : s = log[Main].snapshot[log[Main].next]
  OBVIOUS
<1>2. /\ FInv /\ Main \in Loggers /\ Give(Main) /\ status[s] \in {"open", "closing"} /\ Closed(s)
      /\ UNCHANGED <<limit, backlog>>
  BY <1>1 DEF GiveAndClose, Receivers, OInv, Loggers, Give
<1>3. s \in Senders
  <2>1. PICK f : f = log[Main]
    OBVIOUS
  <2>2. f \in Frame /\ Loop(f) /\ f.next <= Len(f.snapshot)
    BY <1>2, <2>1, LogIs DEF Give, Active, Receivers
  <2>3. f.snapshot \in Seq(Senders) /\ f.next \in 1..Len(f.snapshot) + 1
    BY <2>2 DEF Frame, Loop
  <2>4. QED
    BY <1>1, <2>1, <2>2, <2>3
<1>4. /\ Elements(senders') \subseteq Elements(senders)
      /\ \A x \in Senders : status'[x] = IF x = s THEN "closed" ELSE status[x]
  BY <1>2, <1>3, ClosedIs
<1>5. \A x \in Senders : status'[x] = "open" => status[x] = "open"
  BY <1>4
<1>6. QED
  BY <1>2, <1>4, <1>5, GiveOrder

LEMMA FinishOrder ==
  ASSUME OInv, FInv', NEW t \in Loggers, Finish(t)
  PROVE  OInv'
<1>1. Typed /\ FInv /\ Active(t) /\ log[t] \in Frame /\ Loop(log[t])
  BY LogIs DEF OInv, FInv, Finish, Active
<1>2. UNCHANGED <<senders, status, next_msg_index, got, overlapped>>
  BY DEF Finish
<1>3. Consecutive'
  BY <1>2 DEF OInv, Consecutive
<1>4. ASSUME ~overlapped PROVE Ordered'
  <2>1. InTurn(log[t]) /\ \A u \in Loggers : Active(u) => u = t
    BY <1>1, <1>4 DEF OInv, Ordered
  <2>2. \A u \in Loggers : log'[u] = IF u = t THEN Quiet ELSE log[u]
    BY <1>1 DEF Finish, Typed
  <2>3. \A u \in Loggers : ~Active(u)'
    BY <2>1, <2>2 DEF Active, Quiet
  <2>4. PICK f : f = log[t]
    OBVIOUS
  <2>5. f \in Frame /\ InTurn(f) /\ f.pc = "send" /\ f.next > Len(f.snapshot)
    BY <1>1, <2>1, <2>4 DEF Finish, Receivers
  <2>6. ASSUME NEW s \in Elements(senders) PROVE Expects(s, next_msg_index)
    <3>1. CASE s \in Elements(f.snapshot)
      <4>1. PICK j \in 1..Len(f.snapshot) : s = f.snapshot[j]
        BY <3>1 DEF Elements
      <4>2. j < f.next
        BY <2>5 DEF Frame
      <4>3. IndexFor(f, j) = next_msg_index
        BY <4>2 DEF IndexFor
      <4>4. QED
        BY <2>5, <4>1, <4>3 DEF InTurn
    <3>2. CASE s \notin Elements(f.snapshot)
      BY <2>5, <3>2 DEF InTurn, Expects
    <3>3. QED
      BY <3>1, <3>2
  <2>7. \A s \in Elements(senders') : Expects(s, next_msg_index)'
    BY <1>2, <2>6 DEF Expects
  <2>8. QED
    BY <2>3, <2>7 DEF Ordered
<1>5. QED
  BY <1>2, <1>3, <1>4 DEF OInv

-----------------------------------------------------------------------------
(* The theorems                                                              *)

LEMMA InitOInv == Init => OInv
<1> SUFFICES ASSUME Init PROVE OInv
  OBVIOUS
<1>1. Consecutive
  BY DEF Init, Consecutive
<1>2. Ordered
  BY DEF Init, Ordered, Active, Quiet, Elements
<1>3. QED
  BY <1>1, <1>2, InitFInv DEF OInv

LEMMA NextFInv == FInv /\ [Next]_vars => FInv'
<1> SUFFICES ASSUME FInv, [Next]_vars PROVE FInv'
  OBVIOUS
<1>1. ASSUME NEW s \in Senders,
             NewSender(s) \/ RemoveSender(s) \/ SenderCloses(s) \/ CloseSender(s)
      PROVE  FInv'
  BY <1>1, NewSenderStep, SenderGoes
<1>2. ASSUME NEW n \in Backlogs, SetBacklog(n) PROVE FInv'
  BY <1>2, SetBacklogStep
<1>3. ASSUME NEW t \in Loggers, Log(t) PROVE FInv'
  BY <1>3, BeginStep, IndexStep, GiveAndGoOnStep, FinishStep DEF Log
<1>4. CASE GiveAndClose
  BY <1>4, GiveAndCloseStep
<1>5. CASE HandlersReturn \/ UNCHANGED vars
  <2>1. Typed' /\ SendersMatch' /\ Unborn'
    BY <1>5 DEF HandlersReturn, vars, FInv, Typed, SendersMatch, Unborn
  <2>2. Sending'
    BY <1>5, SendingGoesOn DEF HandlersReturn, vars
  <2>3. QED
    BY <2>1, <2>2 DEF FInv
<1>6. CASE Dispose
  BY <1>6, DisposeStep
<1>7. QED
  BY <1>1, <1>2, <1>3, <1>4, <1>5, <1>6 DEF Next

LEMMA NextOInv == OInv /\ [Next]_vars => OInv'
<1> SUFFICES ASSUME OInv, [Next]_vars PROVE OInv'
  OBVIOUS
<1>1. FInv /\ FInv'
  BY NextFInv DEF OInv
<1>2. ASSUME NEW s \in Senders,
             NewSender(s) \/ RemoveSender(s) \/ SenderCloses(s) \/ CloseSender(s)
      PROVE  OInv'
  BY <1>1, <1>2, SendersOrder
<1>3. ASSUME NEW n \in Backlogs, SetBacklog(n) PROVE OInv'
  BY <1>1, <1>3, OrderGoesOn DEF SetBacklog
<1>4. ASSUME NEW t \in Loggers, Log(t) PROVE OInv'
  <2>1. CASE GiveAndGoOn(t)
    BY <1>1, <2>1, GiveOrder DEF GiveAndGoOn
  <2>2. CASE Begin(t) \/ LoadIndex(t) \/ StoreIndex(t) \/ Finish(t)
    BY <1>1, <2>2, BeginOrder, IndexOrder, FinishOrder
  <2>3. QED
    BY <1>4, <2>1, <2>2 DEF Log
<1>5. CASE GiveAndClose
  BY <1>1, <1>5, GiveAndCloseOrder
<1>6. CASE HandlersReturn \/ UNCHANGED vars
  BY <1>1, <1>6, OrderGoesOn DEF HandlersReturn, vars
<1>7. CASE Dispose
  <2>1. Elements(senders') = {}
    BY <1>1, <1>7, DisposeIs DEF Elements
  <2>2. QED
    BY <1>1, <1>7, <2>1, DisposeIs, OrderGoesOn
<1>8. QED
  BY <1>2, <1>3, <1>4, <1>5, <1>6, <1>7 DEF Next

(* The invariant holds of every behaviour: who is in the array is open or    *)
(* closing and listened to, and each thread in dbus_log_core_log has given   *)
(* its message to the part of its snapshot which it has passed.              *)
THEOREM FanoutInvariance == Spec => []FInv
<1>1. Init => FInv
  BY InitFInv
<1>2. FInv /\ [Next]_vars => FInv'
  BY NextFInv
<1>3. QED
  BY <1>1, <1>2, PTL DEF Spec

(* For any number of senders, the array and the connected handlers agree, a  *)
(* closed sender is in neither and all have the limit of the core            *)
(* (dbus_log_core_remove_sender, dbus_log_core_set_backlog).                 *)
THEOREM SendersOfCore == Spec => []SendersMatch
<1>1. FInv => SendersMatch
  BY DEF FInv
<1>2. QED
  BY <1>1, FanoutInvariance, PTL

(* For any number of threads and senders, every message reaches all those    *)
(* which were there when it was logged and are still open, once              *)
(* (dbus_log_core_send goes through the array it took a reference to).       *)
THEOREM EveryoneGets == Spec => []Broadcast
<1>1. FInv => Broadcast
  <2> SUFFICES ASSUME FInv PROVE Broadcast
    OBVIOUS
  <2>1. Typed /\ History /\ Complete
    BY DEF FInv, Sending
  <2>2. ASSUME NEW s \in Senders
        PROVE  IsInjective(CallsOf(s)) /\ Elements(CallsOf(s)) = CallsIn(got[s])
    <3>1. PICK q : q = CallsOf(s)
      OBVIOUS
    <3>2. /\ Len(got[s]) \in Nat /\ DOMAIN q = 1..Len(got[s])
          /\ \A i \in 1..Len(got[s]) : q[i] = got[s][i].call
      BY <2>1, <3>1 DEF CallsOf, Typed
    <3>3. q \in Seq(Nat) /\ Len(q) = Len(got[s])
      <4>1. PICK n \in Nat : n = Len(got[s])
        BY <3>2
      <4>2. got[s] \in Seq(Given)
        BY <2>1 DEF Typed
      <4>3. ASSUME NEW i \in 1..n PROVE got[s][i].call \in Nat
        <5>1. got[s][i] \in Given
          BY <4>1, <4>2
        <5>2. QED
          BY <5>1 DEF Given
      <4>4. q \in [1..n -> Nat]
        BY <3>1, <4>1, <4>3 DEF CallsOf
      <4>5. QED
        BY <4>1, <4>4
    <3>4. IsInjective(q)
      BY <2>1, <3>2 DEF IsInjective, History, Once
    <3>5. Elements(q) = CallsIn(got[s])
      BY <3>2, <3>3 DEF Elements, CallsIn
    <3>6. QED
      BY <3>1, <3>4, <3>5
  <2>3. ASSUME NEW k \in 1..Len(audience), Finished(k), NEW s \in audience[k], status[s] = "open"
        PROVE  k \in Elements(CallsOf(s))
    <3>1. s \in Senders
      BY <2>1, <2>3 DEF Typed
    <3>2. k \in CallsIn(got[s])
      BY <2>1, <2>3 DEF Complete
    <3>3. QED
      BY <2>2, <3>1, <3>2
  <2>4. QED
    BY <2>2, <2>3 DEF Broadcast
<1>2. QED
  BY <1>1, FanoutInvariance, PTL

(* For any number of senders and any modulus, the indices a sender is given  *)
(* are consecutive as long as no two threads have been logging at once       *)
(* (message->index = self->next_msg_index++ in dbus_log_core_log).           *)
THEOREM IndicesOfSenders == Spec => []Consecutive
<1>1. Init => OInv
  BY InitOInv
<1>2. OInv /\ [Next]_vars => OInv'
  BY NextOInv
<1>3. OInv => Consecutive
  BY DEF OInv
<1>4. QED
  BY <1>1, <1>2, <1>3, PTL DEF Spec
=============================================================================
