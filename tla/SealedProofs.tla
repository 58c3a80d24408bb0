---------------------------- MODULE SealedProofs ----------------------------
(***************************************************************************)
(* Sealed implements AtMostOnce, for every number of frames, senders and   *)
(* ring slots and every window and TTL that satisfy WindowAssumption.      *)
(*                                                                         *)
(* The invariant: a frame that ran is in its ring with an entry that       *)
(* outlives the frame's window, or its window is over, or its entry was    *)
(* pushed out and it is in spilled.                                        *)
(***************************************************************************)
EXTENDS Sealed, TLAPS

\* Every frame has a ring.
LEMMA CacheType == CacheOf \in [Frame -> Cache]
BY DEF CacheOf, Cache

\* What Record writes, and that it only adds to spilled.
LEMMA RecordFacts ==
    ASSUME TypeOK, NEW f \in Frame, Record(f)
    PROVE  /\ DOMAIN ring' = Cache /\ \A k \in Cache : ring'[k] \in [Slots(k) -> Entry]'
           /\ DOMAIN idx' = Cache /\ \A k \in Cache : idx'[k] \in Slots(k)
           /\ now \in Nat
           /\ spilled' \subseteq Frame /\ spilled \subseteq spilled'
<1> DEFINE k == CacheOf[f]
<1>1. k \in Cache /\ Size[k] \in Nat \ {0} /\ idx[k] \in Slots(k) /\ now \in Nat
  BY SealedAssumption, CacheType DEF TypeOK
<1>2. ring[k] \in [Slots(k) -> Entry] /\ ring[k][idx[k]] \in Entry
  BY <1>1 DEF TypeOK
<1>3. [nonce |-> f, at |-> now] \in Entry
  BY <1>1 DEF Entry
<1>4. DOMAIN ring' = Cache /\ \A c \in Cache : ring'[c] \in [Slots(c) -> Entry]
  <2>1. ring' = [ring EXCEPT ![k][idx[k]] = [nonce |-> f, at |-> now]]
    BY DEF Record
  <2>2. DOMAIN ring' = Cache
    BY <2>1 DEF TypeOK
  <2>3. ASSUME NEW c \in Cache PROVE ring'[c] \in [Slots(c) -> Entry]
    <3>1. CASE c = k
      BY <3>1, <2>1, <1>1, <1>2, <1>3 DEF TypeOK
    <3>2. CASE c # k
      BY <3>2, <2>1, <1>1 DEF TypeOK
    <3> QED BY <3>1, <3>2
  <2> QED BY <2>2, <2>3
<1>5. DOMAIN idx' = Cache /\ \A c \in Cache : idx'[c] \in Slots(c)
  <2>1. idx' = [idx EXCEPT ![k] = (idx[k] + 1) % Size[k]]
    BY DEF Record
  <2>2. (idx[k] + 1) % Size[k] \in 0..Size[k] - 1
    BY <1>1 DEF Slots
  <2> QED BY <2>1, <2>2, <1>1 DEF TypeOK, Slots
<1>6. spilled' \subseteq Frame /\ spilled \subseteq spilled'
  <2>1. CASE Live(ring[k][idx[k]])
    <3>1. ring[k][idx[k]].nonce \in Frame
      BY <2>1, <1>2 DEF Live, Entry
    <3>2. spilled' = spilled \cup {ring[k][idx[k]].nonce}
      BY <2>1 DEF Record
    <3> QED BY <3>1, <3>2 DEF TypeOK
  <2>2. CASE ~Live(ring[k][idx[k]])
    <3>1. spilled' = spilled
      BY <2>2 DEF Record
    <3> QED BY <3>1 DEF TypeOK
  <2> QED BY <2>1, <2>2
<1> QED BY <1>1, <1>4, <1>5, <1>6 DEF Slots, Entry

\* Init and every step keep the types.
LEMMA TypeStep == TypeOK /\ [Next]_vars => TypeOK'
<1> SUFFICES ASSUME TypeOK, [Next]_vars PROVE TypeOK'
  OBVIOUS
<1>1. ASSUME NEW f \in Frame, Run(f) PROVE TypeOK'
  <2>1. Record(f) /\ UNCHANGED <<now, out, ts, known>>
    BY <1>1 DEF Run
  <2>2. ran' \in [Frame -> 0..2]
    BY <1>1 DEF Run, TypeOK
  <2> QED BY <2>1, <2>2, RecordFacts DEF TypeOK, Slots, Entry
<1>2. ASSUME NEW f \in Frame, Dropped(f) PROVE TypeOK'
  <2>1. Record(f) /\ UNCHANGED <<now, out, ts, known, ran>>
    BY <1>2 DEF Dropped
  <2> QED BY <2>1, RecordFacts DEF TypeOK, Slots, Entry
<1>3. ASSUME NEW f \in Frame, NEW d \in -Behind..Ahead[CacheOf[f]], Send(f, d) PROVE TypeOK'
  <2>1. now + d \in Int
    BY SealedAssumption, CacheType DEF TypeOK
  <2> QED BY <1>3, <2>1 DEF Send, TypeOK, Slots, Entry
<1>4. ASSUME NEW s \in Sender, Records(s) PROVE TypeOK'
  BY <1>4 DEF Records, TypeOK, Slots, Entry
<1>5. CASE Restart
  <2>1. \A k \in Cache : Size[k] \in Nat \ {0}
    BY SealedAssumption, CacheType
  <2>2. DOMAIN ring' = Cache /\ \A k \in Cache : ring'[k] \in [Slots(k) -> Entry]
    BY <1>5 DEF Restart, EmptyRings, Entry
  <2>3. DOMAIN idx' = Cache /\ \A k \in Cache : idx'[k] \in Slots(k)
    BY <1>5, <2>1 DEF Restart, Slots
  <2>4. spilled' \subseteq Frame
    BY <1>5 DEF Restart, TypeOK
  <2> QED BY <1>5, <2>2, <2>3, <2>4 DEF Restart, TypeOK, Slots, Entry
<1>6. CASE Tick
  BY <1>6 DEF Tick, TypeOK, Slots, Entry
<1>7. CASE UNCHANGED vars
  BY <1>7 DEF vars, TypeOK, Slots, Entry
<1> QED BY <1>1, <1>2, <1>3, <1>4, <1>5, <1>6, <1>7 DEF Next, DispatchB2, HandleAuth, OpenCommand

\* A frame that is accepted has not run yet, or was forgotten.
LEMMA AcceptedIsNew ==
    ASSUME Inv, NEW f \in Frame, Accepts(f)
    PROVE  ran[f] = 0 \/ f \in spilled
<1> DEFINE k == CacheOf[f]
<1>1. k \in Cache /\ Skew[k] \in Nat /\ TTL \in Nat /\ ts[f] \in Int /\ now \in Nat
  BY SealedAssumption, CacheType DEF Inv, TypeOK
<1>2. ran[f] \in 0..2
  BY DEF Inv, TypeOK
<1> SUFFICES ASSUME ran[f] > 0, f \notin spilled PROVE FALSE
  BY <1>2
<1>3. Cached(f) \/ Over(f)
  BY DEF Inv, Remembered
<1>4. now - ts[f] <= Skew[k] /\ ~Seen(f)
  BY DEF Accepts, InWindow
<1>5. ~Over(f)
  BY <1>1, <1>4 DEF Over
<1>6. PICK i \in Slots(k) : ring[k][i].nonce = f /\ ts[f] + Skew[k] - ring[k][i].at <= TTL
  BY <1>3, <1>5 DEF Cached
<1>7. ring[k][i].at \in Nat
  BY <1>1, <1>6 DEF Inv, TypeOK, Entry
<1>8. now - ring[k][i].at <= TTL
  BY <1>1, <1>4, <1>6, <1>7
<1> QED BY <1>4, <1>6, <1>8 DEF Seen

\* Recording an accepted frame forgets no other one silently.
LEMMA RecordRemembers ==
    ASSUME Inv, NEW f \in Frame, Accepts(f), Record(f), now' = now, ts' = ts,
           NEW g \in Frame, ran[g] > 0 \/ g = f, g \notin spilled'
    PROVE  (Cached(g) \/ Over(g))'
<1> DEFINE k == CacheOf[f]  c == CacheOf[g]
<1>1. /\ k \in Cache /\ c \in Cache /\ Skew[k] \in Nat /\ Skew[c] \in Nat
      /\ TTL \in Nat /\ Ahead[k] \in Nat /\ ts[f] \in Int /\ ts[g] \in Int /\ now \in Nat
      /\ idx[k] \in Slots(k) /\ ring[k] \in [Slots(k) -> Entry] /\ ring[c] \in [Slots(c) -> Entry]
  BY SealedAssumption, CacheType DEF Inv, TypeOK
<1>2. ring' = [ring EXCEPT ![k][idx[k]] = [nonce |-> f, at |-> now]]
  BY DEF Record
<1>3. DOMAIN ring = Cache
  BY DEF Inv, TypeOK
<1>4. ring'[k] = [ring[k] EXCEPT ![idx[k]] = [nonce |-> f, at |-> now]]
  BY <1>1, <1>2, <1>3
<1>5. CASE g = f
  <2>1. ring'[k][idx[k]].nonce = f /\ ring'[k][idx[k]].at = now
    BY <1>1, <1>4
  <2>2. ts[f] - now <= Skew[k] /\ ts[f] <= now + Ahead[k]
    BY DEF Accepts, Opens, InWindow, Inv, SentBefore
  <2>3. ts[f] + Skew[k] - now <= TTL
    BY <1>1, <2>2, WindowAssumption
  <2> QED BY <1>1, <1>5, <2>1, <2>3 DEF Cached
<1>6. CASE g # f
  <2>1. g \notin spilled
    BY <1>1, RecordFacts DEF Inv
  <2>2. Cached(g) \/ Over(g)
    BY <1>6, <2>1 DEF Inv, Remembered
  <2>3. CASE Over(g)
    BY <2>3 DEF Over
  <2>4. CASE Cached(g)
    <3>1. PICK i \in Slots(c) : ring[c][i].nonce = g /\ ts[g] + Skew[c] - ring[c][i].at <= TTL
      BY <2>4 DEF Cached
    <3>2. CASE c # k
      <4>1. ring'[c] = ring[c]
        BY <1>1, <1>2, <1>3, <3>2
      <4> QED BY <3>1, <4>1 DEF Cached
    <3>3. CASE c = k /\ i # idx[k]
      <4>1. ring'[c][i] = ring[c][i]
        BY <1>1, <1>4, <3>1, <3>3
      <4> QED BY <3>1, <4>1 DEF Cached
    <3>4. CASE c = k /\ i = idx[k]
      <4>1. ~Live(ring[k][idx[k]])
        BY <3>1, <3>4 DEF Record
      <4>2. ring[k][idx[k]].nonce # NoFrame
        BY <3>1, <3>4, SealedAssumption, CacheType
      <4>3. ring[k][idx[k]].at \in Nat
        BY <1>1 DEF Entry
      <4>4. now - ring[k][idx[k]].at > TTL
        BY <1>1, <4>1, <4>2, <4>3 DEF Live
      <4>5. now > ts[g] + Skew[c]
        BY <1>1, <3>1, <3>4, <4>3, <4>4
      <4> QED BY <4>5 DEF Over
    <3> QED BY <3>2, <3>3, <3>4
  <2> QED BY <2>2, <2>3, <2>4
<1> QED BY <1>5, <1>6

LEMMA InvInit == Init => Inv
<1> SUFFICES ASSUME Init PROVE Inv
  OBVIOUS
<1>1. \A k \in Cache : Size[k] \in Nat \ {0}
  BY SealedAssumption, CacheType
<1>2. DOMAIN ring = Cache /\ \A k \in Cache : ring[k] \in [Slots(k) -> Entry]
  BY DEF Init, EmptyRings, Entry
<1>3. DOMAIN idx = Cache /\ \A k \in Cache : idx[k] \in Slots(k)
  BY <1>1 DEF Init, Slots
<1>4. TypeOK
  BY <1>2, <1>3 DEF Init, TypeOK
<1> QED BY <1>4 DEF Init, Inv, SentBefore, RanWasSent, Remembered

LEMMA InvStep == Inv /\ [Next]_vars => Inv'
<1> SUFFICES ASSUME Inv, [Next]_vars PROVE Inv'
  OBVIOUS
<1>0. TypeOK' /\ TypeOK /\ now \in Nat
  BY TypeStep, SealedAssumption DEF Inv, TypeOK
<1>1. ASSUME NEW f \in Frame, Run(f) PROVE (SentBefore /\ RanWasSent /\ Remembered)'
  <2>1. Accepts(f) /\ Record(f) /\ now' = now /\ ts' = ts /\ out' = out /\ f \in out
    BY <1>1 DEF Run, Accepts, Opens
  <2>2. ran' = [ran EXCEPT ![f] = IF ran[f] < 2 THEN ran[f] + 1 ELSE ran[f]]
    BY <1>1 DEF Run
  <2>3. SentBefore'
    BY <2>1 DEF Inv, SentBefore
  <2>4. \A g \in Frame : ran'[g] > 0 => ran[g] > 0 \/ g = f
    BY <1>0, <2>2 DEF TypeOK
  <2>5. RanWasSent'
    BY <2>1, <2>4 DEF Inv, RanWasSent
  <2>6. Remembered'
    BY <2>1, <2>4, RecordRemembers DEF Remembered
  <2> QED BY <2>3, <2>5, <2>6
<1>2. ASSUME NEW f \in Frame, Dropped(f) PROVE (SentBefore /\ RanWasSent /\ Remembered)'
  <2>1. Accepts(f) /\ Record(f) /\ now' = now /\ ts' = ts /\ out' = out /\ ran' = ran
    BY <1>2 DEF Dropped
  <2>2. SentBefore' /\ RanWasSent'
    BY <2>1 DEF Inv, SentBefore, RanWasSent
  <2>3. Remembered'
    BY <2>1, RecordRemembers DEF Remembered
  <2> QED BY <2>2, <2>3
<1>3. ASSUME NEW f \in Frame, NEW d \in -Behind..Ahead[CacheOf[f]], Send(f, d)
      PROVE  (SentBefore /\ RanWasSent /\ Remembered)'
  <2>1. /\ f \notin out /\ out' = out \cup {f} /\ ts' = [ts EXCEPT ![f] = now + d]
        /\ now' = now /\ ring' = ring /\ ran' = ran /\ spilled' = spilled
    BY <1>3 DEF Send
  <2>2. d \in Int /\ d <= Ahead[CacheOf[f]] /\ \A g \in Frame : Ahead[CacheOf[g]] \in Nat
    BY CacheType, SealedAssumption
  <2>3. SentBefore'
    BY <1>0, <2>1, <2>2 DEF Inv, SentBefore, TypeOK
  <2>4. RanWasSent'
    BY <2>1 DEF Inv, RanWasSent
  <2>5. ASSUME NEW g \in Frame, ran[g] > 0, g \notin spilled PROVE (Cached(g) \/ Over(g))'
    <3>1. g \in out /\ g # f
      BY <2>1, <2>5 DEF Inv, RanWasSent
    <3>2. ts'[g] = ts[g]
      BY <1>0, <2>1, <3>1 DEF TypeOK
    <3>3. Cached(g) \/ Over(g)
      BY <2>5 DEF Inv, Remembered
    <3> QED BY <2>1, <3>2, <3>3 DEF Cached, Over
  <2>6. Remembered'
    BY <2>1, <2>5 DEF Remembered
  <2> QED BY <2>3, <2>4, <2>6
<1>4. ASSUME NEW s \in Sender, Records(s) PROVE (SentBefore /\ RanWasSent /\ Remembered)'
  BY <1>4 DEF Records, Inv, SentBefore, RanWasSent, Remembered, Cached, Over
<1>5. ASSUME Restart PROVE (SentBefore /\ RanWasSent /\ Remembered)'
  <2>1. now' = now /\ out' = out /\ ts' = ts /\ ran' = ran
    BY <1>5 DEF Restart
  <2>2. ASSUME NEW g \in Frame, ran[g] > 0, g \notin spilled' PROVE Over(g)
    <3> DEFINE c == CacheOf[g]
    <3>1. c \in Cache /\ Skew[c] \in Nat /\ TTL \in Nat /\ ts[g] \in Int
      BY <1>0, SealedAssumption, CacheType DEF TypeOK
    <3>2. Cached(g) \/ Over(g)
      BY <1>5, <2>2 DEF Restart, Inv, Remembered
    <3>3. ASSUME NEW i \in Slots(c), ring[c][i].nonce = g,
                 ts[g] + Skew[c] - ring[c][i].at <= TTL
          PROVE  Over(g)
      <4>1. ~Live(ring[c][i])
        BY <1>5, <2>2, <3>1, <3>3 DEF Restart
      <4>2. g # NoFrame
        BY SealedAssumption, CacheType
      <4>3. ring[c][i].at \in Nat
        BY <1>0, <3>1, <3>3 DEF TypeOK, Entry
      <4>4. now - ring[c][i].at > TTL
        BY <1>0, <3>1, <3>3, <4>1, <4>2, <4>3 DEF Live
      <4> QED BY <1>0, <3>1, <3>3, <4>3, <4>4 DEF Over
    <3> QED BY <3>2, <3>3 DEF Cached
  <2>3. Remembered'
    BY <2>1, <2>2 DEF Remembered, Over
  <2> QED BY <2>1, <2>3 DEF Inv, SentBefore, RanWasSent
<1>6. ASSUME Tick PROVE (SentBefore /\ RanWasSent /\ Remembered)'
  <2>1. /\ now' = now + 1 /\ out' = out /\ ts' = ts /\ ran' = ran /\ ring' = ring
        /\ spilled' = spilled
    BY <1>6 DEF Tick
  <2>2. SentBefore'
    <3>1. \A g \in Frame : Ahead[CacheOf[g]] \in Nat
      BY CacheType, SealedAssumption
    <3> QED BY <1>0, <2>1, <3>1 DEF Inv, SentBefore, TypeOK
  <2>3. RanWasSent'
    BY <2>1 DEF Inv, RanWasSent
  <2>4. ASSUME NEW g \in Frame, Over(g) PROVE Over(g)'
    <3>1. ts[g] \in Int /\ Skew[CacheOf[g]] \in Nat
      BY <1>0, SealedAssumption, CacheType DEF TypeOK
    <3> QED BY <1>0, <2>1, <2>4, <3>1 DEF Over
  <2>5. \A g \in Frame : Cached(g) => Cached(g)'
    BY <2>1 DEF Cached
  <2>6. Remembered'
    BY <2>1, <2>4, <2>5 DEF Inv, Remembered
  <2> QED BY <2>2, <2>3, <2>6
<1>7. CASE UNCHANGED vars
  BY <1>0, <1>7 DEF vars, Inv, SentBefore, RanWasSent, Remembered, Cached, Over
<1> QED BY <1>0, <1>1, <1>2, <1>3, <1>4, <1>5, <1>6, <1>7
       DEF Next, DispatchB2, HandleAuth, OpenCommand, Inv

\* The rings, their indices and the history keep their types.
THEOREM TypeCorrect == Spec => []TypeOK
<1>1. Init => TypeOK
  BY InvInit DEF Inv
<1> QED BY <1>1, TypeStep, PTL DEF Spec

\* NonceCache: a frame that ran stays remembered for as long as it would be
\* accepted, for every ring size, window and TTL.
THEOREM RememberedAlways == Spec => []Remembered
<1>1. Inv => Remembered
  BY DEF Inv
<1> QED BY <1>1, InvInit, InvStep, PTL DEF Spec

\* Every step of the bot is a step of AtMostOnce or changes nothing of it.
LEMMA StepKeepsPromise == Inv /\ [Next]_vars => [Promise!Next]_(Promise!vars)
<1> SUFFICES ASSUME Inv, [Next]_vars PROVE [Promise!Next]_(Promise!vars)
  OBVIOUS
<1>0. TypeOK
  BY DEF Inv
<1>1. ASSUME NEW f \in Frame, Run(f) PROVE Promise!Do(f)
  <2>1. Accepts(f) /\ Record(f) /\ ran' = [ran EXCEPT ![f] = IF @ < 2 THEN @ + 1 ELSE @]
    BY <1>1 DEF Run
  <2>2. ran[f] = 0 \/ f \in spilled
    BY <2>1, AcceptedIsNew
  <2>3. spilled' \subseteq Frame /\ spilled \subseteq spilled'
    BY <1>0, <2>1, RecordFacts
  <2> QED BY <2>1, <2>2, <2>3 DEF Promise!Do
<1>2. ASSUME NEW f \in Frame, Dropped(f) PROVE Promise!Forget
  <2>1. Record(f) /\ UNCHANGED ran
    BY <1>2 DEF Dropped
  <2>2. spilled' \subseteq Frame /\ spilled \subseteq spilled'
    BY <1>0, <2>1, RecordFacts
  <2> QED BY <2>1, <2>2 DEF Promise!Forget
<1>3. ASSUME NEW f \in Frame, NEW d \in -Behind..Ahead[CacheOf[f]], Send(f, d)
      PROVE  UNCHANGED Promise!vars
  BY <1>3 DEF Send, Promise!vars
<1>4. ASSUME NEW s \in Sender, Records(s) PROVE UNCHANGED Promise!vars
  BY <1>4 DEF Records, Promise!vars
<1>5. ASSUME Restart PROVE Promise!Forget
  BY <1>0, <1>5 DEF Restart, TypeOK, Promise!Forget
<1>6. CASE Tick
  BY <1>6 DEF Tick, Promise!vars
<1>7. CASE UNCHANGED vars
  BY <1>7 DEF vars, Promise!vars
<1> QED BY <1>1, <1>2, <1>3, <1>4, <1>5, <1>6, <1>7
       DEF Next, DispatchB2, HandleAuth, OpenCommand, Promise!Next

\* Sealed frames run at most once, unless they were forgotten: the bot
\* implements AtMostOnce, for every instance of the constants.
THEOREM PromiseKept == Spec => KeepsPromise
<1>1. Init => Promise!Init
  BY DEF Init, Promise!Init
<1> QED BY <1>1, InvInit, InvStep, StepKeepsPromise, PTL DEF Spec, KeepsPromise, Promise!Spec
=============================================================================
