---------------------------- MODULE SendQProofs ----------------------------
(***************************************************************************)
(* TLAPS proofs about SendQ, for every set of lines, every queue size and  *)
(* all limits: the queue is bounded, the link is paced, nothing is         *)
(* queued while the link is down and no protocol line is given up.         *)
(***************************************************************************)
EXTENDS SendQ, TLAPS

(***************************************************************************)
(* Paced is not inductive.  The bucket explains it: what the window has    *)
(* spent plus what is left in the bucket never exceeds a full bucket plus  *)
(* the time credited since the window began.                               *)
(***************************************************************************)
Credited == IF elapsed <= welapsed THEN welapsed - elapsed ELSE 0
Bucket == /\ credit <= Cap
          /\ pc # "idle" => elapsed = 0
          /\ wcount > 0 => elapsed <= welapsed
          /\ wcount * interval + credit <= Cap + Credited

IInv == TypeOK /\ QueueBounded /\ Bucket /\ NothingQueuedOffline

---------------------------------------------------------------------------
\* The limits in force are numbers, and so is the bucket they make.
LEMMA LimitsAreNumbers ==
    ASSUME NEW b, NEW i, <<b, i>> \in Limits
    PROVE  b \in Nat \ {0} /\ i \in Nat /\ b * i \in Nat
  <1>1. <<b, i>> \in (Nat \ {0}) \X Nat
    BY SendQAssumption
  <1>2. b \in Nat \ {0} /\ i \in Nat
    BY <1>1
  <1> QED
    BY <1>2

\* Every line has one of the three lanes.
LEMMA LaneOfLine == \A l \in Line : lane_of(l) \in Lanes
  BY DEF lane_of, Lanes, PROTO, PROT, REST

\* Appending to a lane adds one line, popping a non-empty lane removes one.
LEMMA PushPop ==
    ASSUME NEW s \in Seq(Line), NEW l \in Line
    PROVE  /\ Append(s, l) \in Seq(Line) /\ Len(Append(s, l)) = Len(s) + 1
           /\ s # <<>> => Tail(s) \in Seq(Line) /\ Len(Tail(s)) = Len(s) - 1
  OBVIOUS

\* SendQ::default, connected or not, satisfies the inductive invariant.
LEMMA InitIInv == Init => IInv
  <1> SUFFICES ASSUME Init PROVE IInv
    OBVIOUS
  <1>1. PICK p \in Limits : burst = p[1] /\ interval = p[2] /\ credit = p[1] * p[2]
    BY DEF Init
  <1>2. <<burst, interval>> \in Limits
    BY <1>1, SendQAssumption
  <1>3. Cap \in Nat /\ credit = Cap /\ interval \in Nat
    BY <1>1, <1>2, LimitsAreNumbers DEF Cap
  <1>4. TypeOK
    <2>1. q \in [Lanes -> Seq(Line)]
      BY DEF Init, EmptyLanes
    <2>2. connected \in BOOLEAN /\ quiet \in BOOLEAN
      BY Zenon DEF Init
    <2> QED
      BY <1>2, <1>3, <2>1, <2>2, SendQAssumption DEF Init, TypeOK
  <1>5. QueueBounded
    BY SendQAssumption DEF Init, QueueBounded, Held, Waiting, EmptyLanes, Lanes, PROTO, PROT, REST
  <1>6. Bucket
    BY <1>3 DEF Init, Bucket, Credited
  <1>7. NothingQueuedOffline
    BY DEF Init, NothingQueuedOffline
  <1> QED
    BY <1>4, <1>5, <1>6, <1>7 DEF IInv

---------------------------------------------------------------------------
\* One more line costs one more interval.
LEMMA OneMoreLine ==
    ASSUME NEW w \in Nat, NEW i \in Nat
    PROVE  (w + 1) * i = w * i + i /\ w * i \in Nat
  OBVIOUS

\* A window in which nothing was spent fits any bucket the credit fits.
LEMMA NothingSpent ==
    \A w, d : \A c, k \in Nat : w = 0 /\ d = 0 /\ c <= k => w + c <= k + d
  OBVIOUS

\* What the bucket invariant needs to know about the numbers in a state.
LEMMA Numbers ==
    ASSUME TypeOK
    PROVE  /\ burst \in Nat \ {0} /\ interval \in Nat /\ Cap \in Nat
           /\ wcount \in Nat /\ welapsed \in Nat /\ elapsed \in Nat /\ credit \in Nat
           /\ total \in Nat /\ Credited \in Nat /\ wcount * interval \in Nat
           /\ MaxElapsed \in Nat /\ MaxWindow \in Nat /\ MaxHold \in Nat
  <1>1. burst \in Nat \ {0} /\ interval \in Nat /\ Cap \in Nat
    BY LimitsAreNumbers DEF TypeOK, Cap
  <1>2. wcount * interval \in Nat
    BY <1>1, OneMoreLine DEF TypeOK
  <1> QED
    BY <1>1, <1>2, SendQAssumption DEF TypeOK, Credited

\* refill keeps the bucket invariant: what is credited has elapsed.
LEMMA RefillBucket ==
    ASSUME TypeOK, Bucket, refill, UNCHANGED <<limitVars, windowVars>>
    PROVE  Bucket' /\ credit' \in Nat /\ elapsed' \in 0..MaxElapsed
  <1>1. burst' = burst /\ interval' = interval /\ wcount' = wcount /\ welapsed' = welapsed
    BY DEF limitVars, windowVars
  <1>2. Cap' = Cap /\ wcount' * interval' = wcount * interval
    BY <1>1 DEF Cap
  <1>3. credit' \in Nat /\ credit' <= credit + elapsed /\ credit' <= Cap /\ elapsed' = 0
    BY Numbers DEF refill, Refilled, Least
  <1>4. Credited' = welapsed
    BY <1>1, <1>3, Numbers DEF Credited
  <1>5. wcount * interval + credit' <= Cap + welapsed
    <2>1. CASE elapsed <= welapsed
      BY <2>1, <1>3, Numbers DEF Bucket, Credited
    <2>2. CASE ~(elapsed <= welapsed)
      <3>1. wcount = 0
        BY <2>2, Numbers DEF Bucket
      <3>2. wcount * interval = 0
        BY <3>1, Numbers
      <3> QED
        BY <3>2, <1>3, Numbers
    <2> QED
      BY <2>1, <2>2
  <1> QED
    BY <1>1, <1>2, <1>3, <1>4, <1>5, Numbers DEF Bucket

\* clear, with a fresh window, makes the bucket full.
LEMMA ClearBucket ==
    ASSUME TypeOK, clear, UNCHANGED limitVars, wcount' = 0, welapsed' = 0
    PROVE  /\ Bucket' /\ credit' \in Nat /\ elapsed' \in 0..MaxElapsed
           /\ q' \in [Lanes -> Seq(Line)] /\ total' = 0 /\ QueueBounded'
  <1>1. burst' = burst /\ interval' = interval
    BY DEF limitVars
  <1>2. Cap' = Cap /\ wcount' * interval' = 0 /\ credit' = Cap /\ elapsed' = 0
    BY <1>1, Numbers DEF Cap, clear
  <1>3. Bucket'
    BY <1>2, Numbers DEF Bucket, Credited
  <1>4. q' \in [Lanes -> Seq(Line)] /\ total' = 0
    BY DEF clear, EmptyLanes
  <1>5. QueueBounded'
    BY SendQAssumption DEF clear, EmptyLanes, QueueBounded, Held, Waiting, Lanes,
       PROTO, PROT, REST
  <1> QED
    BY <1>2, <1>3, <1>4, <1>5, Numbers

\* The lines in all lanes, after one lane has gained or lost n lines.
LEMMA LaneCount ==
    ASSUME NEW a \in [Lanes -> Seq(Line)], NEW b \in [Lanes -> Seq(Line)],
           NEW k \in Lanes, \A j \in Lanes \ {k} : b[j] = a[j]
    PROVE  /\ Held(a) \in Nat /\ Waiting(a, k) \in Nat /\ Waiting(b, k) \in Nat
           /\ Held(b) = Held(a) + Waiting(b, k) - Waiting(a, k)
  <1>1. /\ PROTO \in Lanes /\ PROT \in Lanes /\ REST \in Lanes
        /\ PROTO # PROT /\ PROTO # REST /\ PROT # REST
    BY DEF Lanes, PROTO, PROT, REST
  <1>2. \A j \in Lanes : Waiting(a, j) \in Nat /\ Waiting(b, j) \in Nat
    BY DEF Waiting
  <1>3. \A j \in Lanes \ {k} : Waiting(b, j) = Waiting(a, j)
    BY DEF Waiting
  <1>4. CASE k = PROTO
    BY <1>1, <1>2, <1>3, <1>4 DEF Held
  <1>5. CASE k = PROT
    BY <1>1, <1>2, <1>3, <1>5 DEF Held
  <1>6. CASE k = REST
    BY <1>1, <1>2, <1>3, <1>6 DEF Held
  <1> QED
    BY <1>4, <1>5, <1>6 DEF Lanes

\* Taking the oldest line of a lane removes one line.
LEMMA PopLane ==
    ASSUME q \in [Lanes -> Seq(Line)], NEW v \in Lanes, q[v] # <<>>
    PROVE  Pop(v) \in [Lanes -> Seq(Line)] /\ Held(Pop(v)) = Held(q) - 1
  <1> DEFINE b == Pop(v)
  <1>1. Tail(q[v]) \in Seq(Line) /\ Len(Tail(q[v])) = Len(q[v]) - 1
    OBVIOUS
  <1>2. b \in [Lanes -> Seq(Line)]
    BY <1>1 DEF Pop
  <1>3. Waiting(b, v) = Waiting(q, v) - 1 /\ \A j \in Lanes \ {v} : b[j] = q[j]
    BY <1>1 DEF Pop, Waiting
  <1> HIDE DEF b
  <1>4. /\ Held(q) \in Nat /\ Waiting(q, v) \in Nat /\ Waiting(b, v) \in Nat
        /\ Held(b) = Held(q) + Waiting(b, v) - Waiting(q, v)
    BY <1>2, <1>3, LaneCount, Zenon
  <1>5. Held(b) = Held(q) - 1
    BY <1>3, <1>4
  <1> QED
    BY <1>2, <1>5 DEF b

\* Queueing a line, with or without an eviction, keeps count and bound.
LEMMA QueueStep ==
    ASSUME TypeOK, QueueBounded, NEW l \in Line, Queue(l)
    PROVE  q' \in [Lanes -> Seq(Line)] /\ total' \in Nat /\ QueueBounded'
  <1> DEFINE k == lane_of(l)
  <1>1. k \in Lanes /\ q \in [Lanes -> Seq(Line)]
    BY LaneOfLine DEF TypeOK
  <1>2. total = Held(q) /\ total \in Nat /\ total <= MAX_SENDQ
    BY DEF QueueBounded, TypeOK
  <1>3. \A a \in [Lanes -> Seq(Line)] :
            Push(a, l) \in [Lanes -> Seq(Line)] /\ Held(Push(a, l)) = Held(a) + 1
    <2> TAKE a \in [Lanes -> Seq(Line)]
    <2> DEFINE b == Push(a, l)
    <2>1. b = [a EXCEPT ![k] = Append(a[k], l)]
      BY DEF Push
    <2>2. Append(a[k], l) \in Seq(Line) /\ Len(Append(a[k], l)) = Len(a[k]) + 1
      BY <1>1, PushPop
    <2> HIDE DEF b, k
    <2>3. b \in [Lanes -> Seq(Line)]
      BY <2>1, <2>2, <1>1
    <2>4. Waiting(b, k) = Waiting(a, k) + 1 /\ \A j \in Lanes \ {k} : b[j] = a[j]
      BY <2>1, <2>2, <1>1 DEF Waiting
    <2>5. /\ Held(a) \in Nat /\ Waiting(a, k) \in Nat /\ Waiting(b, k) \in Nat
          /\ Held(b) = Held(a) + Waiting(b, k) - Waiting(a, k)
      BY <2>3, <2>4, <1>1, LaneCount, Zenon
    <2>6. Held(b) = Held(a) + 1
      BY <2>4, <2>5
    <2> QED
      BY <2>3, <2>6 DEF b
  <1>4. CASE total < MAX_SENDQ /\ q' = Push(q, l) /\ total' = total + 1
    <2>1. q' \in [Lanes -> Seq(Line)] /\ Held(q') = total'
      BY <1>1, <1>2, <1>3, <1>4
    <2> QED
      BY <2>1, <1>2, <1>4, SendQAssumption DEF QueueBounded
  <1>5. CASE /\ total >= MAX_SENDQ
             /\ \E v \in Victims(lane_of(l)) : q' = Push(Pop(v), l)
             /\ total' = total
    <2>1. PICK v \in Victims(k) : q' = Push(Pop(v), l)
      BY <1>5
    <2>2. v \in Lanes /\ q[v] # <<>>
      BY <2>1 DEF Victims, Lanes, PROT, REST
    <2>3. Pop(v) \in [Lanes -> Seq(Line)] /\ Held(Pop(v)) = Held(q) - 1
      BY <2>2, <1>1, PopLane
    <2>4. q' \in [Lanes -> Seq(Line)] /\ Held(q') = Held(q)
      BY <2>1, <2>3, <1>1, <1>2, <1>3
    <2> QED
      BY <2>4, <1>2, <1>5 DEF QueueBounded
  <1> QED
    BY <1>4, <1>5 DEF Queue

\* A write takes lines from the head of one lane and keeps the count right.
LEMMA WriteStep ==
    ASSUME TypeOK, QueueBounded, DrainWrite
    PROVE  q' \in [Lanes -> Seq(Line)] /\ total' \in Nat /\ QueueBounded'
  <1>1. /\ q \in [Lanes -> Seq(Line)] /\ total \in Nat /\ total = Held(q)
        /\ total > 0 /\ total <= MAX_SENDQ /\ MAX_SENDQ \in Nat
    BY SendQAssumption DEF TypeOK, QueueBounded, DrainWrite, MayWrite
  <1>2. ASSUME NEW v \in Lanes, q[v] # <<>>, q' = Pop(v), total' = total - 1
        PROVE  q' \in [Lanes -> Seq(Line)] /\ total' \in Nat /\ QueueBounded'
    <2>1. q' \in [Lanes -> Seq(Line)] /\ Held(q') = Held(q) - 1
      BY <1>1, <1>2, PopLane
    <2> QED
      BY <2>1, <1>1, <1>2 DEF QueueBounded
  <1>3. CASE q[PROTO] # <<>> /\ q' = Pop(PROTO) /\ total' = total - 1
    BY <1>2, <1>3 DEF Lanes
  <1>4. CASE /\ q[PROTO] = <<>> /\ q[PROT] # <<>>
             /\ \E n \in 1..Len(q[PROT]) :
                   /\ TakesPack(q[PROT], n)
                   /\ q' = [q EXCEPT ![PROT] = SubSeq(@, n + 1, Len(@))]
                   /\ total' = total - n
    <2>1. PICK n \in 1..Len(q[PROT]) :
             /\ q' = [q EXCEPT ![PROT] = SubSeq(q[PROT], n + 1, Len(q[PROT]))]
             /\ total' = total - n
      BY <1>4
    <2>2. PROT \in Lanes /\ q[PROT] \in Seq(Line) /\ Len(q[PROT]) \in Nat
      BY <1>1 DEF Lanes
    <2>3. /\ SubSeq(q[PROT], n + 1, Len(q[PROT])) \in Seq(Line)
          /\ Len(SubSeq(q[PROT], n + 1, Len(q[PROT]))) = Len(q[PROT]) - n
      BY <2>1, <2>2
    <2>4. q' \in [Lanes -> Seq(Line)]
      BY <2>1, <2>2, <2>3, <1>1
    <2>5. Waiting(q', PROT) = Waiting(q, PROT) - n /\ n <= Waiting(q, PROT)
      BY <2>1, <2>2, <2>3, <1>1 DEF Waiting
    <2>6. \A j \in Lanes \ {PROT} : q'[j] = q[j]
      BY <2>1, <2>2, <1>1
    <2>7. /\ Held(q) \in Nat /\ Waiting(q, PROT) \in Nat /\ Waiting(q', PROT) \in Nat
          /\ Held(q') = Held(q) + Waiting(q', PROT) - Waiting(q, PROT)
      BY <2>2, <2>4, <2>6, <1>1, LaneCount, Zenon
    <2>8. Waiting(q, PROT) <= Held(q)
      <3>1. \A j \in Lanes : Waiting(q, j) \in Nat
        BY <1>1 DEF Waiting
      <3> QED
        BY <3>1 DEF Held, Lanes
    <2> QED
      BY <2>1, <2>4, <2>5, <2>7, <2>8, <1>1 DEF QueueBounded
  <1>5. CASE /\ q[PROTO] = <<>> /\ q[PROT] = <<>>
             /\ q' = Pop(REST) /\ total' = total - 1
    <2>1. q[REST] # <<>>
      <3>1. Waiting(q, PROTO) = 0 /\ Waiting(q, PROT) = 0
        BY <1>5 DEF Waiting
      <3>2. REST \in Lanes /\ q[REST] \in Seq(Line)
        BY <1>1 DEF Lanes
      <3>3. Waiting(q, REST) \in Nat /\ Waiting(q, REST) # 0
        <4>1. Waiting(q, REST) \in Nat
          BY <3>2 DEF Waiting
        <4> QED
          BY <4>1, <3>1, <1>1 DEF Held
      <3> QED
        BY <3>3 DEF Waiting
    <2> QED
      BY <2>1, <1>2, <1>5 DEF Lanes
  <1> QED
    BY <1>3, <1>4, <1>5 DEF DrainWrite

---------------------------------------------------------------------------
\* A drain starts: credit is refilled unless there is nothing to send.
LEMMA StartDrainBucket ==
    ASSUME IInv, NEW t \in Nat, NEW next \in {"return", "disconnect"},
           StartDrain(t, next), UNCHANGED <<limitVars, windowVars>>, pc = "idle"
    PROVE  /\ Bucket' /\ credit' \in Nat /\ elapsed' \in 0..MaxElapsed
           /\ pc' \in {"idle", "return", "disconnect"}
           /\ t = 0 => pc' = "idle"
  <1>1. CASE t = 0
    <2>1. pc' = "idle" /\ UNCHANGED creditVars
      BY <1>1 DEF StartDrain
    <2>2. /\ credit' = credit /\ elapsed' = elapsed /\ burst' = burst
          /\ interval' = interval /\ wcount' = wcount /\ welapsed' = welapsed
      BY <2>1 DEF creditVars, limitVars, windowVars
    <2> QED
      BY <1>1, <2>1, <2>2, Numbers DEF IInv, TypeOK, Bucket, Credited, Cap
  <1>2. CASE t # 0
    <2>1. pc' = next /\ refill
      BY <1>2 DEF StartDrain
    <2> QED
      BY <1>2, <2>1, RefillBucket DEF IInv
  <1> QED
    BY <1>1, <1>2

\* What is left of the link after LinkGone satisfies the invariant.
LEMMA LinkGoneIInv ==
    ASSUME IInv, LinkGone, UNCHANGED <<limitVars, hold, quiet>>
    PROVE  IInv'
  <1>1. /\ Bucket' /\ credit' \in Nat /\ elapsed' \in 0..MaxElapsed
        /\ q' \in [Lanes -> Seq(Line)] /\ total' = 0 /\ QueueBounded'
    BY ClearBucket DEF IInv, LinkGone
  <1>2. connected' \in BOOLEAN /\ quiet' \in BOOLEAN
    BY Zenon DEF IInv, TypeOK, LinkGone
  <1>3. TypeOK'
    BY <1>1, <1>2, Numbers DEF IInv, TypeOK, LinkGone, limitVars
  <1>4. NothingQueuedOffline'
    BY <1>1 DEF NothingQueuedOffline, LinkGone
  <1> QED
    BY <1>1, <1>3, <1>4 DEF IInv

\* Every call on the queue, every round of the loop in drain, every loss of the
\* link and every tick preserves the inductive invariant.
LEMMA NextIInv == IInv /\ [Next]_vars => IInv'
  <1> SUFFICES ASSUME IInv, [Next]_vars PROVE IInv'
    OBVIOUS
  <1> USE DEF queueVars, limitVars, creditVars, windowVars
  <1>0. TypeOK /\ QueueBounded /\ Bucket /\ NothingQueuedOffline
    BY DEF IInv
  <1>1. ASSUME NEW l \in Line, enqueue(l) PROVE IInv'
    <2>1. CASE /\ Duplicate(l) \/ Refused(l)
               /\ UNCHANGED <<queueVars, creditVars, pc>>
      <3>1. connected' \in BOOLEAN /\ quiet' \in BOOLEAN
        BY <1>0, <1>1, Zenon DEF TypeOK, enqueue
      <3> QED
        BY <1>0, <1>1, <2>1, <3>1
        DEF enqueue, IInv, TypeOK, QueueBounded, Bucket, Credited, Cap, NothingQueuedOffline
    <2>2. CASE /\ ~Duplicate(l) /\ Queue(l)
               /\ IF hold = 0 THEN StartDrain(total', "return")
                              ELSE UNCHANGED <<creditVars, pc>>
      <3>1. connected' = connected /\ connected /\ pc = "idle"
        BY <1>1 DEF enqueue
      <3>2. connected' \in BOOLEAN /\ quiet' \in BOOLEAN
        BY <1>0, <1>1, Zenon DEF TypeOK, enqueue
      <3>4. q' \in [Lanes -> Seq(Line)] /\ total' \in Nat /\ QueueBounded'
        BY <1>0, <2>2, QueueStep
      <3>5. /\ Bucket' /\ credit' \in Nat /\ elapsed' \in 0..MaxElapsed
            /\ pc' \in {"idle", "return", "disconnect"}
        <4>1. UNCHANGED <<limitVars, windowVars>>
          BY <1>1 DEF enqueue
        <4>2. CASE hold = 0
          BY <4>1, <4>2, <2>2, <3>1, <3>4, StartDrainBucket
        <4>3. CASE hold # 0
          BY <4>1, <4>3, <1>0, <2>2 DEF TypeOK, Bucket, Credited, Cap
        <4> QED
          BY <4>2, <4>3
      <3>6. TypeOK'
        BY <1>0, <1>1, <3>2, <3>4, <3>5 DEF TypeOK, enqueue
      <3>7. NothingQueuedOffline'
        BY <3>1 DEF NothingQueuedOffline
      <3> QED
        BY <3>4, <3>5, <3>6, <3>7 DEF IInv
    <2> QED
      BY <1>1, <2>1, <2>2 DEF enqueue
  <1>2. CASE Hold
    <2>1. connected' \in BOOLEAN /\ quiet' \in BOOLEAN
      BY <1>0, <1>2, Zenon DEF TypeOK, Hold
    <2>2. hold' \in 0..MaxHold
      BY <1>0, <1>2, SendQAssumption DEF TypeOK, Hold
    <2> QED
      BY <1>0, <1>2, <2>1, <2>2
      DEF Hold, IInv, TypeOK, QueueBounded, Bucket, Credited, Cap, NothingQueuedOffline
  <1>3. CASE release
    <2>1. connected' \in BOOLEAN /\ quiet' \in BOOLEAN
      BY <1>0, <1>3, Zenon DEF TypeOK, release
    <2>2. hold' \in 0..MaxHold
      BY <1>0, <1>3, SendQAssumption DEF TypeOK, release
    <2>3. /\ Bucket' /\ credit' \in Nat /\ elapsed' \in 0..MaxElapsed
          /\ pc' \in {"idle", "return", "disconnect"}
          /\ total = 0 => pc' = "idle"
      <3>1. UNCHANGED <<limitVars, windowVars>> /\ pc = "idle"
        BY <1>3 DEF release
      <3>2. CASE hold = 1
        BY <3>1, <3>2, <1>0, <1>3, StartDrainBucket DEF release, TypeOK
      <3>3. CASE hold # 1
        BY <3>1, <3>3, <1>0, <1>3 DEF release, TypeOK, Bucket, Credited, Cap
      <3> QED
        BY <3>2, <3>3
    <2> QED
      BY <1>0, <1>3, <2>1, <2>2, <2>3
      DEF release, IInv, TypeOK, QueueBounded, NothingQueuedOffline
  <1>4. CASE PollDrain
    <2>1. connected' \in BOOLEAN /\ quiet' \in BOOLEAN
      BY <1>0, <1>4, Zenon DEF TypeOK, PollDrain
    <2>2. /\ Bucket' /\ credit' \in Nat /\ elapsed' \in 0..MaxElapsed
          /\ pc' \in {"idle", "return", "disconnect"}
      BY <1>0, <1>4, StartDrainBucket DEF PollDrain, TypeOK
    <2> QED
      BY <1>0, <1>4, <2>1, <2>2
      DEF PollDrain, IInv, TypeOK, QueueBounded, NothingQueuedOffline
  <1>5. CASE next_ms
    <2>1. connected' \in BOOLEAN /\ quiet' \in BOOLEAN
      BY <1>0, <1>5, Zenon DEF TypeOK, next_ms
    <2>2. Bucket' /\ credit' \in Nat /\ elapsed' \in 0..MaxElapsed
      BY <1>0, <1>5, RefillBucket DEF next_ms
    <2> QED
      BY <1>0, <1>5, <2>1, <2>2
      DEF next_ms, IInv, TypeOK, QueueBounded, NothingQueuedOffline
  <1>6. CASE DrainWrite
    <2>1. connected' \in BOOLEAN /\ quiet' \in BOOLEAN
      BY <1>0, <1>6, Zenon DEF TypeOK, DrainWrite
    <2>2. q' \in [Lanes -> Seq(Line)] /\ total' \in Nat /\ QueueBounded'
      BY <1>0, <1>6, WriteStep
    <2>3. credit' \in Nat /\ wcount' \in Nat
      <3>1. /\ credit >= interval /\ credit' = credit - interval
            /\ wcount' = IF interval = 0 THEN wcount ELSE wcount + 1
        BY <1>6 DEF DrainWrite, MayWrite
      <3>2. credit \in Nat /\ interval \in Nat /\ wcount \in Nat
        BY <1>0, Numbers
      <3> QED
        BY <3>1, <3>2
    <2>4. /\ credit >= interval /\ credit' = credit - interval /\ elapsed' = elapsed
          /\ welapsed' = welapsed /\ Cap' = Cap /\ interval' = interval
          /\ pc # "idle" /\ pc' = pc
      BY <1>6 DEF DrainWrite, MayWrite, Cap
    <2>5. wcount' * interval' = wcount * interval + interval
      <3>1. CASE interval = 0
        BY <3>1, <2>4, Numbers, <1>0, <1>6 DEF DrainWrite
      <3>2. CASE interval # 0
        BY <3>2, <2>4, Numbers, OneMoreLine, <1>0, <1>6 DEF DrainWrite
      <3> QED
        BY <3>1, <3>2
    <2>6. Bucket'
      <3>1. elapsed = 0 /\ elapsed <= welapsed
        BY <2>4, <1>0, Numbers DEF Bucket
      <3>2. credit' <= Cap' /\ elapsed' <= welapsed'
        BY <3>1, <2>4, <1>0, Numbers DEF Bucket
      <3>3. wcount' * interval' + credit' <= Cap' + Credited'
        BY <2>4, <2>5, <1>0, Numbers DEF Bucket, Credited
      <3> QED
        BY <3>1, <3>2, <3>3, <2>4 DEF Bucket
    <2>7. TypeOK'
      BY <1>0, <1>6, <2>1, <2>2, <2>3 DEF TypeOK, DrainWrite
    <2>8. NothingQueuedOffline'
      BY <1>0, <1>6, <2>4 DEF NothingQueuedOffline, DrainWrite
    <2> QED
      BY <2>2, <2>6, <2>7, <2>8 DEF IInv
  <1>7. CASE DrainFail
    BY <1>7, LinkGoneIInv DEF DrainFail
  <1>8. CASE DrainEnd
    <2>1. CASE LinkGone
      BY <1>8, <2>1, LinkGoneIInv DEF DrainEnd
    <2>2. CASE /\ pc = "return" /\ pc' = "idle"
               /\ UNCHANGED <<queueVars, creditVars, modes, connected, windowVars>>
      <3>1. connected' \in BOOLEAN /\ quiet' \in BOOLEAN
        BY <1>0, <1>8, <2>2, Zenon DEF TypeOK, DrainEnd
      <3> QED
        BY <1>0, <1>8, <2>2, <3>1
        DEF DrainEnd, IInv, TypeOK, QueueBounded, Bucket, Credited, Cap, NothingQueuedOffline
    <2> QED
      BY <1>8, <2>1, <2>2 DEF DrainEnd
  <1>9. CASE disconnect
    <2>1. CASE total = 0
      BY <1>9, <2>1, LinkGoneIInv DEF disconnect
    <2>2. CASE total # 0
      <3>1. connected' \in BOOLEAN /\ quiet' \in BOOLEAN
        BY <1>0, <1>9, <2>2, Zenon DEF TypeOK, disconnect
      <3>2. /\ Bucket' /\ credit' \in Nat /\ elapsed' \in 0..MaxElapsed
            /\ pc' \in {"idle", "return", "disconnect"}
        BY <1>0, <1>9, <2>2, StartDrainBucket DEF disconnect, TypeOK
      <3> QED
        BY <1>0, <1>9, <2>2, <3>1, <3>2
        DEF disconnect, IInv, TypeOK, QueueBounded, NothingQueuedOffline
    <2> QED
      BY <2>1, <2>2
  <1>10. CASE connect
    <2>1. connected' \in BOOLEAN /\ quiet' \in BOOLEAN
      BY <1>0, <1>10, Zenon DEF TypeOK, connect
    <2>2. /\ Bucket' /\ credit' \in Nat /\ elapsed' \in 0..MaxElapsed
          /\ q' \in [Lanes -> Seq(Line)] /\ total' = 0 /\ QueueBounded'
      BY <1>0, <1>10, ClearBucket DEF connect
    <2> QED
      BY <1>0, <1>10, <2>1, <2>2, Numbers DEF connect, IInv, TypeOK, NothingQueuedOffline
  <1>11. CASE isupport
    <2>1. connected' \in BOOLEAN /\ quiet' \in BOOLEAN
      BY <1>0, <1>11, Zenon DEF TypeOK, isupport
    <2> QED
      BY <1>0, <1>11, <2>1
      DEF isupport, IInv, TypeOK, QueueBounded, Bucket, Credited, Cap, NothingQueuedOffline
  <1>12. ASSUME NEW p \in Limits, set_limits(p[1], p[2]) PROVE IInv'
    <2>1. connected' \in BOOLEAN /\ quiet' \in BOOLEAN
      BY <1>0, <1>12, Zenon DEF TypeOK, set_limits
    <2>2. <<burst', interval'>> \in Limits
      BY <1>12, SendQAssumption DEF set_limits
    <2>3. burst' \in Nat /\ interval' \in Nat /\ Cap' \in Nat
      BY <2>2, LimitsAreNumbers DEF Cap
    <2>4. credit' = Least(credit, Cap')
      BY <1>12 DEF set_limits, Cap
    <2>5. credit' \in Nat /\ credit' <= Cap'
      BY <2>3, <2>4, <1>0 DEF Least, TypeOK
    <2>6. wcount' * interval' = 0 /\ wcount' = 0 /\ welapsed' = 0 /\ elapsed' = elapsed
      BY <2>3, <1>12 DEF set_limits
    <2>7. Bucket'
      <3>1. Credited' = 0
        BY <2>6, <1>0, Numbers DEF Credited
      <3>2. wcount' * interval' + credit' <= Cap' + Credited'
        BY <3>1, <2>3, <2>5, <2>6, NothingSpent, Zenon
      <3>3. pc' = "idle"
        BY <1>12 DEF set_limits
      <3> QED
        BY <3>2, <3>3, <2>5, <2>6 DEF Bucket
    <2>8. TypeOK'
      BY <1>0, <1>12, <2>1, <2>2, <2>5, Numbers DEF TypeOK, set_limits
    <2> QED
      BY <1>0, <1>12, <2>7, <2>8 DEF set_limits, IInv, QueueBounded, NothingQueuedOffline
  <1>13. CASE Tick
    <2>1. connected' \in BOOLEAN /\ quiet' \in BOOLEAN
      BY <1>0, <1>13, Zenon DEF TypeOK, Tick
    <2>2. /\ elapsed' = elapsed + 1 /\ elapsed < MaxElapsed /\ credit' = credit
          /\ interval' = interval /\ Cap' = Cap /\ pc = "idle" /\ pc' = pc
      BY <1>13 DEF Tick, Cap
    <2>3. elapsed' \in 0..MaxElapsed
      BY <2>2, <1>0, Numbers DEF TypeOK
    <2>4. wcount' \in Nat /\ welapsed' \in 0..MaxWindow /\ Bucket'
      <3>1. CASE welapsed < MaxWindow /\ welapsed' = welapsed + 1 /\ wcount' = wcount
        <4>1. wcount' * interval' = wcount * interval
          BY <2>2, <3>1
        <4>2. Credited' = Credited
          BY <2>2, <3>1, <1>0, Numbers DEF Credited
        <4> QED
          BY <2>2, <3>1, <4>1, <4>2, <1>0, Numbers DEF Bucket, TypeOK
      <3>2. CASE welapsed' = 0 /\ wcount' = 0
        <4>1. wcount' * interval' = 0
          BY <2>2, <3>2, <1>0, Numbers
        <4> QED
          BY <2>2, <3>2, <4>1, <1>0, Numbers DEF Bucket, Credited, TypeOK
      <3> QED
        BY <1>13, <3>1, <3>2 DEF Tick
    <2> QED
      BY <1>0, <1>13, <2>1, <2>3, <2>4
      DEF Tick, IInv, TypeOK, QueueBounded, NothingQueuedOffline
  <1>14. CASE Quiesce
    <2>1. connected' \in BOOLEAN /\ quiet' \in BOOLEAN
      BY <1>0, <1>14, Zenon DEF TypeOK, Quiesce
    <2> QED
      BY <1>0, <1>14, <2>1
      DEF Quiesce, IInv, TypeOK, QueueBounded, Bucket, Credited, Cap, NothingQueuedOffline
  <1>15. CASE UNCHANGED vars
    <2>1. connected' \in BOOLEAN /\ quiet' \in BOOLEAN
      BY <1>0, <1>15, Zenon DEF TypeOK, vars
    <2> QED
      BY <1>0, <1>15, <2>1
      DEF vars, IInv, TypeOK, QueueBounded, Bucket, Credited, Cap, NothingQueuedOffline
  <1> QED
    BY <1>1, <1>2, <1>3, <1>4, <1>5, <1>6, <1>7, <1>8, <1>9, <1>10, <1>11, <1>12,
       <1>13, <1>14, <1>15 DEF Next

---------------------------------------------------------------------------
\* So the inductive invariant holds in every reachable state.
LEMMA AlwaysIInv == Spec => []IInv
  BY InitIInv, NextIInv, PTL DEF Spec

\* The variables keep their types in every behaviour of the queue.
THEOREM TypeCorrect == Spec => []TypeOK
  <1>1. IInv => TypeOK
    BY DEF IInv
  <1> QED
    BY AlwaysIInv, <1>1, PTL

\* sendq.rs: q.total counts the lines in the lanes and make_room keeps it
\* within MAX_SENDQ, for every set of lines and every queue size.
THEOREM Bounded == Spec => []QueueBounded
  <1>1. IInv => QueueBounded
    BY DEF IInv
  <1> QED
    BY AlwaysIInv, <1>1, PTL

\* sendq.rs: in no window of time does the bot write more lines than the burst
\* and the time since the window began pay for, whichever of enqueue, release,
\* the main loop and disconnect drained the queue.
THEOREM PacedAlways == Spec => []Paced
  <1>1. IInv => Paced
    <2> SUFFICES ASSUME IInv PROVE Paced
      OBVIOUS
    <2>1. TypeOK /\ wcount * interval + credit <= Cap + Credited
      BY DEF IInv, Bucket
    <2>2. Credited <= welapsed
      BY <2>1, Numbers DEF Credited
    <2> QED
      BY <2>1, <2>2, Numbers DEF Paced
  <1> QED
    BY AlwaysIInv, <1>1, PTL

\* irc_client.rs: no line queued on one connection is left for the next.
THEOREM NothingLeftOver == Spec => []NothingQueuedOffline
  <1>1. IInv => NothingQueuedOffline
    BY DEF IInv
  <1> QED
    BY AlwaysIInv, <1>1, PTL

\* What a sequence starts with, it still starts with after an Append.
LEMMA Prefix ==
    ASSUME NEW s \in Seq(Line), NEW l \in Line
    PROVE  /\ Len(s) <= Len(s) /\ SubSeq(s, 1, Len(s)) = s
           /\ Len(s) <= Len(Append(s, l)) /\ SubSeq(Append(s, l), 1, Len(s)) = s
  <1>1. Len(s) \in Nat /\ Append(s, l) \in Seq(Line) /\ Len(Append(s, l)) = Len(s) + 1
    OBVIOUS
  <1>2. SubSeq(s, 1, Len(s)) = s
    OBVIOUS
  <1>3. SubSeq(Append(s, l), 1, Len(s)) = s
    OBVIOUS
  <1> QED
    BY <1>1, <1>2, <1>3

\* make_room: a line of lane 0 that was accepted is never given up, however
\* full the queue is; outside a drain lane 0 only grows.
THEOREM ProtocolLaneKept == Spec => ProtocolNeverEvicted
  <1> DEFINE Grows == /\ Len(q[PROTO]) <= Len(q'[PROTO])
                      /\ SubSeq(q'[PROTO], 1, Len(q[PROTO])) = q[PROTO]
  <1>1. ASSUME IInv, [Next]_vars, pc = "idle", connected, connected' PROVE Grows
    <2>1. q \in [Lanes -> Seq(Line)] /\ PROTO \in Lanes
      BY <1>1 DEF IInv, TypeOK, Lanes
    <2>2. ASSUME q'[PROTO] = q[PROTO] PROVE Grows
      <3>1. q[PROTO] \in Seq(Line)
        BY <2>1
      <3>2. Len(q[PROTO]) \in Nat /\ SubSeq(q[PROTO], 1, Len(q[PROTO])) = q[PROTO]
        BY <3>1
      <3> QED
        BY <2>2, <3>2
    <2>3. ASSUME NEW l \in Line, enqueue(l) PROVE Grows
      <3>1. CASE UNCHANGED q
        BY <2>2, <3>1
      <3>2. CASE Queue(l)
        <4>1. PICK a \in [Lanes -> Seq(Line)] : q' = Push(a, l) /\ a[PROTO] = q[PROTO]
          <5>1. CASE q' = Push(q, l)
            BY <2>1, <5>1
          <5>2. CASE \E v \in Victims(lane_of(l)) : q' = Push(Pop(v), l)
            <6>1. PICK v \in Victims(lane_of(l)) : q' = Push(Pop(v), l)
              BY <5>2
            <6>2. v \in Lanes /\ q[v] # <<>> /\ v # PROTO
              BY <6>1 DEF Victims, Lanes, PROTO, PROT, REST
            <6>3. Pop(v) \in [Lanes -> Seq(Line)]
              BY <2>1, <6>2, PopLane
            <6>4. Pop(v)[PROTO] = q[PROTO]
              BY <2>1, <6>2 DEF Pop
            <6> QED
              BY <6>1, <6>3, <6>4
          <5> QED
            BY <3>2, <5>1, <5>2 DEF Queue
        <4>2. q'[PROTO] = a[PROTO] \/ q'[PROTO] = Append(a[PROTO], l)
          BY <2>1, <4>1 DEF Push
        <4>3. a[PROTO] \in Seq(Line)
          BY <2>1, <4>1
        <4>4. CASE q'[PROTO] = Append(q[PROTO], l)
          BY <4>1, <4>3, <4>4, Prefix
        <4> QED
          BY <2>2, <4>1, <4>2, <4>4
      <3> QED
        BY <2>3, <3>1, <3>2 DEF enqueue, queueVars
    <2>4. CASE UNCHANGED q
      BY <2>2, <2>4
    <2>5. disconnect => UNCHANGED q
      BY <1>1 DEF disconnect, LinkGone, queueVars
    <2>6. Hold \/ release \/ PollDrain \/ next_ms \/ isupport \/ Tick \/ Quiesce => UNCHANGED q
      BY DEF Hold, release, PollDrain, next_ms, isupport, Tick, Quiesce, queueVars
    <2>7. ~DrainWrite /\ ~DrainFail /\ ~DrainEnd /\ ~connect
      BY <1>1 DEF DrainWrite, DrainFail, DrainEnd, connect
    <2>8. \A p \in Limits : set_limits(p[1], p[2]) => UNCHANGED q
      BY DEF set_limits, queueVars
    <2>9. UNCHANGED vars => UNCHANGED q
      BY DEF vars
    <2> HIDE DEF Grows
    <2> QED
      BY <1>1, <2>3, <2>4, <2>5, <2>6, <2>7, <2>8, <2>9 DEF Next
  <1>2. IInv /\ [Next]_vars => [pc = "idle" /\ connected /\ connected' => Grows]_vars
    BY <1>1
  <1> QED
    BY AlwaysIInv, <1>2, PTL DEF Spec, ProtocolNeverEvicted
=============================================================================
