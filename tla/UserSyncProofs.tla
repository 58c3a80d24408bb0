--------------------------- MODULE UserSyncProofs ---------------------------
(***************************************************************************)
(* No change an admin was told is made gets lost unnoticed, for every set  *)
(* of records and values, every bound on stamps and frames and every       *)
(* order of commands, pushes, tables, links and restarts.                  *)
(***************************************************************************)
EXTENDS UserSync, FiniteSetTheorems, SequenceTheorems, TLAPS

Typed == /\ users \in Table /\ hub \in Table /\ made \in Table
         /\ toHub \in Seq(Id \X Rec) /\ toBot \in Seq(Table)
         /\ pc \in Id \cup {"idle"} /\ waiting \subseteq Id
         /\ issued \in [Id -> Nat] /\ clock \in Nat

LEMMA RecFacts ==
    /\ None \in Rec /\ None.ts = 0 /\ None.val = "none"
    /\ \A r \in Rec : r.ts \in Nat
    /\ \A r \in Rec : r # None => r.ts > 0 /\ r.val \in Val \cup HubVal
BY UserSyncAssumption DEF Rec, None

\* push_admin_delta sends exactly the records the bot has, each as it is.
LEMMA FramesCarryUsers ==
    ASSUME users \in Table
    PROVE  /\ Frames \in Seq(Id \X Rec)
           /\ \A k \in 1..Len(Frames) : Frames[k][1] \in Id /\ Frames[k][2] = users[Frames[k][1]]
           /\ \A i \in Known(users) : \E k \in 1..Len(Frames) :
                  Frames[k][1] = i /\ Frames[k][2] = users[i]
<1> DEFINE K == Known(users)
           S == {<<i, users[i]>> : i \in K}
           n == Cardinality(S)
           f == [i \in K |-> <<i, users[i]>>]
<1>1. IsFiniteSet(K)
  BY UserSyncAssumption, FS_Subset DEF Known
<1>2. f \in Surjection(K, S)
  BY DEF Surjection
<1>3. IsFiniteSet(S)
  BY <1>1, <1>2, FS_Surjection
<1>4. S \subseteq Id \X Rec /\ \A x \in S : x[1] \in Id /\ x[2] = users[x[1]]
  BY DEF Known, Table
<1>5. Frames = CHOOSE g \in [1..n -> S] : IsInjective(g)
  BY Zenon DEF Frames, SetToSeq
<1>6. \A i \in K : <<i, users[i]>> \in S
  OBVIOUS
<1> HIDE DEF f, S, n
<1>7. n \in Nat /\ ExistsBijection(1..n, S)
  BY <1>3, FS_CardinalityType DEF n
<1>8. \E g \in [1..n -> S] : IsInjective(g)
  BY <1>7 DEF ExistsBijection, Bijection, Injection
<1>9. Frames \in [1..n -> S] /\ IsInjective(Frames)
  BY <1>5, <1>8
<1>10. Frames \in Injection(1..n, S)
  BY <1>9 DEF Injection
<1>11. Cardinality(1..n) = n
  BY <1>7, FS_Interval
<1>12. Frames \in Surjection(1..n, S)
  BY <1>3, <1>10, <1>11, FS_Injection DEF n
<1>13. Frames \in Seq(S) /\ Len(Frames) = n
  BY <1>7, <1>9
<1>14. \A x \in S : \E k \in 1..n : Frames[k] = x
  BY <1>12 DEF Surjection
<1>15. Frames \in Seq(Id \X Rec)
  BY <1>4, <1>13, SeqMonotonic
<1>16. \A k \in 1..n : Frames[k] \in S
  BY <1>9
<1>17. \A k \in 1..n : Frames[k][1] \in Id /\ Frames[k][2] = users[Frames[k][1]]
  BY <1>4, <1>16
<1>18. ASSUME NEW i \in K
       PROVE  \E k \in 1..n : Frames[k][1] = i /\ Frames[k][2] = users[i]
  <2>1. PICK k \in 1..n : Frames[k] = <<i, users[i]>>
    BY <1>6, <1>14
  <2> QED BY <2>1
<1> QED BY <1>13, <1>15, <1>17, <1>18

---------------------------------------------------------------------------
(* Records and links                                                       *)

\* Memory and file hold the same records; what waits for a push is only
\* remembered while there is no link, and between the two writes of a
\* command the file knows of it too.
Links == /\ disk.users = users
         /\ pc # "idle" /\ pending => disk.pending
         /\ linked => waiting = {} /\ ~pending
         /\ ~linked => toHub = <<>>

Remembered == \A i \in waiting : users[i].ts >= made[i].ts /\ pending /\ disk.pending

\* What admins are told is made are this bot's records.
Own == /\ \A i \in Id : made[i] # None => made[i].val \in Val
       /\ pc # "idle" => users[pc] # None /\ users[pc].val \in Val

LocalInv == Typed /\ Links /\ Remembered /\ Own

LEMMA NewRecordFacts ==
    ASSUME Typed, NEW i \in Id, NEW a \in BOOLEAN, NEW v \in Val, AdminChange(i, a, v)
    PROVE  /\ NewRecord(i, a, v) \in Rec /\ NewRecord(i, a, v).ts > users[i].ts
           /\ NewRecord(i, a, v).val = v /\ NewRecord(i, a, v) # None
<1>1. users[i].ts \in Nat /\ clock \in Nat /\ MaxTs \in Nat
  BY RecFacts, UserSyncAssumption DEF Typed, Table
<1>2. /\ lww_next_ts(clock, users[i].ts) \in Nat
      /\ lww_next_ts(clock, users[i].ts) > users[i].ts
  BY <1>1 DEF lww_next_ts
<1>3. lww_next_ts(clock, users[i].ts) <= MaxTs
  BY DEF AdminChange, NewRecord
<1>4. NewRecord(i, a, v) \in [ts : 1..MaxTs, active : BOOLEAN, val : Val \cup HubVal]
  BY <1>1, <1>2, <1>3 DEF NewRecord
<1>5. NewRecord(i, a, v).ts > users[i].ts /\ NewRecord(i, a, v).val = v
  BY <1>2 DEF NewRecord
<1>6. NewRecord(i, a, v) # None
  BY <1>1, <1>5, RecFacts
<1> QED BY <1>4, <1>5, <1>6 DEF Rec

LEMMA LocalInit == Init => LocalInv
<1> SUFFICES ASSUME Init PROVE LocalInv
  OBVIOUS
<1>1. users \in Table /\ made = [i \in Id |-> None] /\ hub = users
  <2> DEFINE First == [ts : {1}, active : {TRUE}, val : HubVal]
  <2>1. 1 \in 1..MaxTs
    BY UserSyncAssumption
  <2>2. First \subseteq [ts : 1..MaxTs, active : BOOLEAN, val : Val \cup HubVal]
    BY <2>1, Zenon
  <2>3. users \in [Id -> {None} \cup First]
    BY DEF Init
  <2> HIDE DEF First
  <2>4. \A i \in Id : users[i] \in Rec
    BY <2>2, <2>3 DEF Rec
  <2>5. users \in Table
    BY <2>3, <2>4 DEF Table
  <2> QED BY <2>5 DEF Init
<1>2. Typed
  BY <1>1, RecFacts DEF Init, Typed, Table
<1> QED BY <1>1, <1>2 DEF Init, LocalInv, Links, Remembered, Own

---------------------------------------------------------------------------
\* The hub keeps what it has or takes a frame that arrived, and no frame that
\* arrived wins over it.
LEMMA ArrivedFacts ==
    ASSUME NEW fs, NEW n, NEW t \in Arrived(fs, n), NEW i \in Id
    PROVE  /\ \/ t[i] = hub[i]
              \/ /\ Beats(t[i], hub[i])
                 /\ \E k \in 1..n : fs[k][1] = i /\ fs[k][2] = t[i]
           /\ \A k \in 1..n : fs[k][1] = i => ~Beats(fs[k][2], t[i])
<1> DEFINE A == {k \in 1..n : fs[k][1] = i}
           best == {k \in A : /\ Beats(fs[k][2], hub[i])
                              /\ \A m \in A : ~Beats(fs[m][2], fs[k][2])}
<1>1. t[i] \in Winner(fs, n, i)
  BY DEF Arrived
<1>2. Winner(fs, n, i) = IF \E k \in A : Beats(fs[k][2], hub[i])
                         THEN {fs[k][2] : k \in {x \in best : \A m \in best : x <= m}}
                         ELSE {hub[i]}
  BY Zenon DEF Winner
<1>3. CASE \E k \in A : Beats(fs[k][2], hub[i])
  <2>1. \E k \in best : t[i] = fs[k][2]
    BY <1>1, <1>2, <1>3
  <2> QED BY <2>1
<1>4. CASE ~\E k \in A : Beats(fs[k][2], hub[i])
  BY <1>1, <1>2, <1>4
<1> QED BY <1>3, <1>4

\* A record that wins or stays still covers what the old one covered.
LEMMA CoversKept ==
    ASSUME NEW h \in Rec, NEW t \in Rec, NEW r \in Rec, Covers(h, r),
           t = h \/ Beats(t, h)
    PROVE  Covers(t, r)
BY RecFacts DEF Covers, Beats, lww_accepts

\* What is not beaten by a record that covers r covers r too, if r is the
\* only own record of its second.
LEMMA CoversTaken ==
    ASSUME NEW f \in Rec, NEW t \in Rec, NEW r \in Rec, r # None, Covers(f, r), ~Beats(f, t),
           t.val \in Val /\ r.val \in Val /\ t.ts = r.ts => t = r, r.val \in Val
    PROVE  Covers(t, r)
<1>1. t.ts \in Nat /\ f.ts \in Nat /\ r.ts \in Nat /\ r.ts > 0
  BY RecFacts
<1>2. t.ts >= f.ts /\ (t.ts = f.ts => ~t.active \/ f.active)
  BY <1>1 DEF Beats, lww_accepts
<1>3. f.ts >= r.ts
  BY <1>1 DEF Covers
<1>4. CASE t.ts > r.ts
  BY <1>4 DEF Covers
<1>5. CASE t.ts = r.ts
  <2>1. t # None
    BY <1>1, <1>5, RecFacts
  <2>2. t.val \in Val \/ t.val \in HubVal
    BY <2>1, RecFacts
  <2> QED BY <1>5, <2>2 DEF Covers
<1> QED BY <1>1, <1>2, <1>3, <1>4, <1>5
---------------------------------------------------------------------------
LEMMA LocalStep == LocalInv /\ [Next]_vars => LocalInv'
<1> SUFFICES ASSUME LocalInv, [Next]_vars PROVE LocalInv'
  OBVIOUS
<1> USE DEF LocalInv
<1>0. /\ users \in Table /\ hub \in Table /\ made \in Table
      /\ toHub \in Seq(Id \X Rec) /\ toBot \in Seq(Table)
      /\ \A i \in Id : users[i] \in Rec /\ hub[i] \in Rec /\ made[i] \in Rec
      /\ \A i \in Id : users[i].ts \in Nat /\ hub[i].ts \in Nat /\ made[i].ts \in Nat
  BY RecFacts DEF Typed, Table
<1>f. Frames \in Seq(Id \X Rec)
  BY <1>0, FramesCarryUsers
<1>1. ASSUME NEW i \in Id, NEW a \in BOOLEAN, NEW v \in Val, AdminChange(i, a, v)
      PROVE  LocalInv'
  <2> DEFINE r == NewRecord(i, a, v)
  <2>1. r \in Rec /\ r.ts > users[i].ts /\ r.val = v /\ r # None
    BY <1>1, NewRecordFacts
  <2>2. /\ users' = [users EXCEPT ![i] = r] /\ pc' = i
        /\ disk' = [users |-> users', pending |-> pending]
        /\ issued' = [issued EXCEPT ![i] = IF @ > users'[i].ts THEN @ ELSE users'[i].ts]
        /\ UNCHANGED <<pending, linked, toHub, toBot, hub, clock, made, waiting>>
    BY <1>1, Zenon DEF AdminChange, write_file
  <2> HIDE DEF r
  <2>3. r.ts \in Nat
    BY <2>1, RecFacts
  <2>4. /\ users' \in Table /\ users'[i] = r /\ \A j \in Id : j # i => users'[j] = users[j]
    BY <1>0, <2>1, <2>2 DEF Table
  <2>5. issued' \in [Id -> Nat]
    BY <2>2, <2>3, <2>4 DEF Typed
  <2>6. Typed'
    BY <2>2, <2>4, <2>5 DEF Typed
  <2>7. Links'
    BY <2>2 DEF Links
  <2>8. Remembered'
    <3>1. \A j \in Id : users'[j].ts >= users[j].ts
      BY <1>0, <2>1, <2>3, <2>4
    <3>2. disk'.pending = pending
      BY <2>2
    <3>3. \A j \in Id : users'[j].ts \in Nat
      BY <2>4, RecFacts DEF Table
    <3> QED BY <1>0, <2>2, <3>1, <3>2, <3>3 DEF Remembered, Typed
  <2>9. Own'
    BY <2>1, <2>2, <2>4 DEF Own
  <2> QED BY <2>6, <2>7, <2>8, <2>9
<1>2. CASE AdminPushOffline
  <2>1. /\ pc \in Id /\ pc' = "idle" /\ ~linked /\ pending' = TRUE
        /\ disk' = disk \/ disk' = [users |-> users, pending |-> TRUE]
        /\ pending => disk' = disk
        /\ ~pending => disk' = [users |-> users, pending |-> TRUE]
        /\ waiting' = waiting \cup {pc} /\ made' = [made EXCEPT ![pc] = users[pc]]
        /\ UNCHANGED <<users, linked, toHub, toBot, hub, clock, issued>>
    BY <1>2 DEF AdminPushOffline, write_file, Typed
  <2>2. disk'.pending
    BY <2>1, UserSyncAssumption DEF Links
  <2>3. /\ made' \in Table /\ made'[pc] = users[pc]
        /\ \A j \in Id : j # pc => made'[j] = made[j]
    BY <1>0, <2>1 DEF Table
  <2>4. Typed'
    BY <2>1, <2>3 DEF Typed
  <2>5. Links'
    BY <2>1 DEF Links
  <2>6. Remembered'
    BY <1>0, <2>1, <2>2, <2>3 DEF Remembered, Typed
  <2>7. Own'
    BY <2>1, <2>3, UserSyncAssumption DEF Own
  <2> QED BY <2>4, <2>5, <2>6, <2>7
<1>3. CASE AdminPush
  <2>1. /\ pc \in Id /\ pc' = "idle" /\ linked /\ ~pending'
        /\ toHub' = toHub \o Frames /\ made' = [made EXCEPT ![pc] = users[pc]]
        /\ UNCHANGED <<users, disk, linked, toBot, hub, clock, waiting, issued>>
    BY <1>3 DEF AdminPush, Typed
  <2>2. toHub' \in Seq(Id \X Rec)
    BY <1>0, <1>f, <2>1, ConcatProperties
  <2>3. /\ made' \in Table /\ made'[pc] = users[pc]
        /\ \A j \in Id : j # pc => made'[j] = made[j]
    BY <1>0, <2>1 DEF Table
  <2>4. Typed'
    BY <2>1, <2>2, <2>3 DEF Typed
  <2>5. Links' /\ Remembered'
    BY <2>1 DEF Links, Remembered
  <2>6. Own'
    BY <2>1, <2>3, UserSyncAssumption DEF Own
  <2> QED BY <2>4, <2>5, <2>6
<1>4. ASSUME PushFails PROVE /\ hub' \in Table
                             /\ ~linked' /\ pending' /\ toHub' = <<>> /\ toBot' = <<>>
                             /\ UNCHANGED <<users, disk, clock, waiting, issued>>
  <2> DEFINE fs == toHub \o Frames
  <2>1. PICK n \in 0..Len(fs) : hub' \in Arrived(fs, n)
    BY <1>4, Zenon DEF PushFails
  <2>2. fs \in Seq(Id \X Rec)
    BY <1>0, <1>f, ConcatProperties
  <2> HIDE DEF fs
  <2>3. \A k \in 1..n : fs[k][2] \in Rec
    BY <2>1, <2>2
  <2>4. ASSUME NEW i \in Id PROVE hub'[i] \in Rec
    BY <1>0, <2>1, <2>3, ArrivedFacts
  <2>5. hub' \in Table
    BY <2>1, <2>4 DEF Arrived, Table
  <2> QED BY <1>4, <2>5 DEF PushFails
<1>5. CASE AdminPushFail
  <2>1. /\ pc \in Id /\ pc' = "idle" /\ linked /\ PushFails
        /\ made' = [made EXCEPT ![pc] = users[pc]]
    BY <1>5 DEF AdminPushFail, Typed
  <2>2. /\ made' \in Table /\ made'[pc] = users[pc]
        /\ \A j \in Id : j # pc => made'[j] = made[j]
    BY <1>0, <2>1 DEF Table
  <2>3. Typed'
    BY <1>4, <2>1, <2>2, EmptySeq DEF Typed
  <2>4. Links' /\ Remembered'
    BY <1>4, <2>1 DEF Links, Remembered
  <2>5. Own'
    BY <1>4, <2>1, <2>2, UserSyncAssumption DEF Own
  <2> QED BY <2>3, <2>4, <2>5
<1>6. CASE AckPushFail
  <2>1. /\ ~linked /\ PushFails /\ UNCHANGED <<pc, made>>
    BY <1>6 DEF AckPushFail
  <2>2. Typed'
    BY <1>4, <2>1, EmptySeq DEF Typed
  <2>3. Links' /\ Remembered' /\ Own'
    BY <1>4, <1>6, <2>1 DEF AckPushFail, Links, Remembered, Own
  <2> QED BY <2>2, <2>3
<1>7. CASE handle_ack
  <2>1. /\ pc = "idle" /\ linked' /\ ~pending' /\ waiting' = {}
        /\ toHub' = Frames \/ toHub' = <<>>
        /\ UNCHANGED <<users, disk, toBot, hub, clock, pc, made, issued>>
    BY <1>7 DEF handle_ack
  <2>2. Typed'
    BY <1>f, <2>1, EmptySeq DEF Typed
  <2>3. Links' /\ Remembered' /\ Own'
    BY <2>1 DEF Links, Remembered, Own
  <2> QED BY <2>2, <2>3
<1>8. CASE Drop
  <2>1. /\ ~linked' /\ toHub' = <<>> /\ toBot' = <<>>
        /\ UNCHANGED <<users, pending, disk, hub, clock, pc, made, waiting, issued>>
    BY <1>8 DEF Drop
  <2>2. Typed'
    BY <2>1, EmptySeq DEF Typed
  <2> QED BY <2>1, <2>2 DEF Links, Remembered, Own
<1>9. CASE process_config_data
  <2>1. /\ pc = "idle" /\ linked /\ toBot # <<>> /\ toBot' = Tail(toBot)
        /\ users' = users \/ users' = Head(toBot)
        /\ disk'.users = users'
        /\ UNCHANGED <<pending, linked, toHub, hub, clock, pc, made, waiting, issued>>
    BY <1>9 DEF process_config_data, write_file, Links
  <2>2. Head(toBot) \in Table /\ Tail(toBot) \in Seq(Table)
    BY <1>0, <2>1, HeadTailProperties
  <2>3. Typed'
    BY <1>0, <2>1, <2>2 DEF Typed
  <2> QED BY <2>1, <2>3 DEF Links, Remembered, Own
<1>10. CASE FlushConfig
  <2>1. /\ pc = "idle" /\ disk' = [users |-> users, pending |-> pending]
        /\ UNCHANGED <<users, pending, linked, toHub, toBot, hub, clock, pc, made, waiting, issued>>
    BY <1>10 DEF FlushConfig, write_file
  <2> QED BY <2>1 DEF Typed, Links, Remembered, Own
<1>11. CASE Restart
  <2>1. /\ users' = users /\ pending' = disk.pending /\ ~linked'
        /\ toHub' = <<>> /\ toBot' = <<>> /\ pc' = "idle"
        /\ UNCHANGED <<disk, hub, clock, made, waiting, issued>>
    BY <1>11 DEF Restart, Links
  <2>2. Typed'
    BY <2>1, EmptySeq DEF Typed
  <2> QED BY <2>1, <2>2 DEF Links, Remembered, Own
<1>12. CASE Tick
  <2>1. /\ clock' \in Nat
        /\ UNCHANGED <<users, pending, disk, linked, toHub, toBot, hub, pc, made, waiting, issued>>
    BY <1>12 DEF Tick, Typed
  <2> QED BY <2>1 DEF Typed, Links, Remembered, Own
<1>13. CASE HubReceive
  <2>1. /\ toHub # <<>> /\ toHub' = Tail(toHub)
        /\ hub' = [hub EXCEPT ![Head(toHub)[1]] = Merge(@, Head(toHub)[2])]
        /\ UNCHANGED <<users, pending, disk, linked, toBot, clock, pc, made, waiting, issued>>
    BY <1>13, Zenon DEF HubReceive
  <2>2. Head(toHub) \in Id \X Rec /\ Tail(toHub) \in Seq(Id \X Rec)
    BY <1>0, <2>1, HeadTailProperties
  <2>3. hub' \in Table
    BY <1>0, <2>1, <2>2 DEF Table, Merge
  <2>4. Typed' /\ linked
    BY <2>1, <2>2, <2>3 DEF Typed, Links
  <2> QED BY <2>1, <2>4 DEF Links, Remembered, Own
<1>14. CASE HubSend
  <2>1. /\ toBot' = Append(toBot, hub)
        /\ UNCHANGED <<users, pending, disk, linked, toHub, hub, clock, pc, made, waiting, issued>>
    BY <1>14 DEF HubSend
  <2>2. Typed'
    BY <1>0, <2>1, AppendProperties DEF Typed
  <2> QED BY <2>1, <2>2 DEF Links, Remembered, Own
<1>15. ASSUME NEW i \in Id, NEW a \in BOOLEAN, NEW v \in HubVal, HubChange(i, a, v)
       PROVE  LocalInv'
  <2> DEFINE t == lww_next_ts(clock, hub[i].ts)
  <2>1. /\ t <= MaxTs /\ hub' = [hub EXCEPT ![i] = [ts |-> t, active |-> a, val |-> v]]
        /\ UNCHANGED <<users, pending, disk, linked, toHub, toBot, clock, pc, made, waiting, issued>>
    BY <1>15, Zenon DEF HubChange
  <2>2. t \in Nat /\ t > hub[i].ts
    BY <1>0 DEF lww_next_ts, Typed
  <2> HIDE DEF t
  <2>3. [ts |-> t, active |-> a, val |-> v] \in Rec
    BY <1>0, <2>1, <2>2, UserSyncAssumption DEF Rec
  <2>4. hub' \in Table
    BY <1>0, <2>1, <2>3 DEF Table
  <2>5. Typed'
    BY <2>1, <2>4 DEF Typed
  <2> QED BY <2>1, <2>5 DEF Links, Remembered, Own
<1>16. CASE UNCHANGED vars
  BY <1>16 DEF vars, Typed, Links, Remembered, Own
<1> QED BY <1>1, <1>2, <1>3, <1>5, <1>6, <1>7, <1>8, <1>9, <1>10, <1>11, <1>12, <1>13,
       <1>14, <1>15, <1>16 DEF Next

\* A change made without a link is remembered, in memory and in the file,
\* until it has been pushed (push_admin_delta, config::load).
THEOREM OfflineRemembered == Spec => []OfflineChangeRemembered
<1>1. LocalInv => OfflineChangeRemembered
  BY DEF LocalInv, Links, Remembered, OfflineChangeRemembered
<1> QED BY <1>1, LocalInit, LocalStep, PTL DEF Spec
---------------------------------------------------------------------------
(***************************************************************************)
(* A change an admin was told is made is with the hub, on its way or       *)
(* marked for the next push.  The hub keeps it, or what wins over it, as   *)
(* long as no other record of this bot has the same stamp: every stamp it  *)
(* gives is above all it gave the record before, or the record is excused. *)
(***************************************************************************)

\* Record r of i is with the bot, with the hub or under way.
At(i, r) == \/ r = users[i] \/ r = hub[i] \/ r = made[i]
            \/ \E k \in 1..Len(toHub) : toHub[k][1] = i /\ toHub[k][2] = r
            \/ \E k \in 1..Len(toBot) : toBot[k][i] = r

Stamps == \A i \in Id : \A r \in Rec : At(i, r) /\ r.val \in Val => r.ts <= issued[i]

Unique == \A i \in Id \ excused : \A r, s \in Rec :
    At(i, r) /\ At(i, s) /\ r.val \in Val /\ s.val \in Val /\ r.ts = s.ts => r = s

OnTheWay(i) == \E k \in 1..Len(toHub) : toHub[k][1] = i /\ Covers(toHub[k][2], made[i])

Held(i) == \/ made[i] = None \/ Covers(hub[i], made[i]) \/ OnTheWay(i)
           \/ pending /\ Covers(users[i], made[i])

ChangeInv == Stamps /\ Unique /\ \A i \in Id \ excused : Held(i)

\* Steps that write no record of this bot.
LEMMA Spread ==
    ASSUME Stamps, Unique, UNCHANGED issued, excused \subseteq excused',
           \A i \in Id : \A r \in Rec : At(i, r)' /\ r.val \in Val => At(i, r)
    PROVE  Stamps' /\ Unique'
<1>1. Stamps'
  BY DEF Stamps
<1>2. Unique'
  BY DEF Unique
<1> QED BY <1>1, <1>2

\* What was not beaten by a frame that covers a change covers it as well.
LEMMA Taken ==
    ASSUME LocalInv, Unique, NEW i \in Id \ excused, made[i] # None, NEW t \in Rec, At(i, t),
           NEW f \in Rec, Covers(f, made[i]), ~Beats(f, t)
    PROVE  Covers(t, made[i])
<1>1. made[i] \in Rec /\ made[i].val \in Val
  BY DEF LocalInv, Typed, Table, Own
<1>2. At(i, made[i])
  BY DEF At
<1>3. t.val \in Val /\ made[i].val \in Val /\ t.ts = made[i].ts => t = made[i]
  BY <1>1, <1>2 DEF Unique
<1> QED BY <1>1, <1>3, CoversTaken

\* A record that covers a change is one the bot pushes.
LEMMA CoveringIsPushed ==
    ASSUME LocalInv, NEW i \in Id, NEW r \in Rec, r # None, Covers(users[i], r)
    PROVE  \E k \in 1..Len(Frames) : Frames[k][1] = i /\ Frames[k][2] = users[i]
<1>1. users[i] \in Rec /\ users \in Table
  BY DEF LocalInv, Typed, Table
<1>2. users[i] # None
  BY <1>1, RecFacts DEF Covers
<1>3. i \in Known(users)
  BY <1>2 DEF Known
<1> QED BY <1>1, <1>3, FramesCarryUsers

LEMMA ChangeInit == Init => ChangeInv
<1> SUFFICES ASSUME Init PROVE ChangeInv
  OBVIOUS
<1>1. LocalInv
  BY LocalInit
<1>2. /\ users \in [Id -> {None} \cup [ts : {1}, active : {TRUE}, val : HubVal]]
      /\ hub = users /\ made = [i \in Id |-> None] /\ toHub = <<>> /\ toBot = <<>>
  BY DEF Init
<1>3. None.val = "none"
  BY DEF None
<1>4. ASSUME NEW i \in Id PROVE users[i].val \notin Val /\ made[i].val \notin Val
  <2>1. users[i] = None \/ users[i].val \in HubVal
    BY <1>2
  <2> QED BY <1>2, <1>3, <2>1, UserSyncAssumption
<1>5. \A i \in Id : \A r : At(i, r) => r.val \notin Val
  BY <1>2, <1>4 DEF At
<1>6. Stamps /\ Unique
  BY <1>5 DEF Stamps, Unique
<1> QED BY <1>2, <1>6 DEF ChangeInv, Held

\* An admin command gives its record a stamp above all others of its own.
LEMMA ChangeAdmin ==
    ASSUME LocalInv, ChangeInv, NEW i \in Id, NEW a \in BOOLEAN, NEW v \in Val,
           AdminChange(i, a, v)
    PROVE  ChangeInv'
<1> DEFINE r == NewRecord(i, a, v)
<1>1. r \in Rec /\ r.ts > users[i].ts /\ r.val = v /\ r # None
  BY NewRecordFacts DEF LocalInv
<1>2. /\ users' = [users EXCEPT ![i] = r]
      /\ issued' = [issued EXCEPT ![i] = IF @ > users'[i].ts THEN @ ELSE users'[i].ts]
      /\ excused' = (IF Repeats(i) THEN excused \cup {i} ELSE excused)
      /\ UNCHANGED <<pending, toHub, toBot, hub, made>>
  BY Zenon DEF AdminChange
<1>3. r.ts = lww_next_ts(clock, users[i].ts)
  BY DEF NewRecord
<1> HIDE DEF r
<1>4. /\ users \in Table /\ issued \in [Id -> Nat] /\ \A j \in Id : made[j].ts \in Nat
      /\ users[i].ts \in Nat /\ r.ts \in Nat
  BY <1>1, RecFacts DEF LocalInv, Typed, Table
<1>5. users'[i] = r /\ \A j \in Id : j # i => users'[j] = users[j]
  BY <1>2, <1>4 DEF Table
<1>6. /\ issued'[i] >= r.ts /\ issued'[i] \in Nat
      /\ \A j \in Id : issued'[j] >= issued[j] /\ (j # i => issued'[j] = issued[j])
  BY <1>2, <1>4, <1>5
<1>7. \A j \in Id : \A q \in Rec : At(j, q)' => At(j, q) \/ (j = i /\ q = r)
  BY <1>2, <1>5 DEF At
<1>8. excused \subseteq excused' /\ (i \notin excused' => r.ts > issued[i])
  BY <1>2, <1>3, <1>4 DEF Repeats
<1>9. \A q \in Rec : q.ts \in Nat
  BY RecFacts
<1>10. Stamps'
  <2> SUFFICES ASSUME NEW j \in Id, NEW q \in Rec, At(j, q)', q.val \in Val
               PROVE  q.ts <= issued'[j]
    BY DEF Stamps
  <2>1. CASE j = i /\ q = r
    BY <1>4, <1>6, <2>1
  <2>2. CASE At(j, q)
    <3>1. q.ts <= issued[j]
      BY <2>2 DEF ChangeInv, Stamps
    <3> QED BY <1>4, <1>6, <1>9, <3>1
  <2> QED BY <1>7, <2>1, <2>2
<1>11. Unique'
  <2> SUFFICES ASSUME NEW j \in Id \ excused', NEW q \in Rec, NEW s \in Rec, At(j, q)', At(j, s)',
                      q.val \in Val, s.val \in Val, q.ts = s.ts
               PROVE  q = s
    BY DEF Unique
  <2>1. CASE At(j, q) /\ At(j, s)
    BY <1>8, <2>1 DEF ChangeInv, Unique
  <2>2. ASSUME NEW x \in Rec, At(j, x), x.val \in Val, j = i PROVE x.ts < r.ts
    <3>1. x.ts <= issued[i]
      BY <2>2 DEF ChangeInv, Stamps
    <3> QED BY <1>4, <1>8, <1>9, <2>2, <3>1
  <2> QED BY <1>4, <1>7, <1>9, <2>1, <2>2
<1>12. ASSUME NEW j \in Id \ excused' PROVE Held(j)'
  <2>1. Held(j)
    BY <1>8 DEF ChangeInv
  <2>2. CASE j = i
    <3>1. made[i] # None /\ Covers(users[i], made[i]) => Covers(users'[i], made[i])
      BY <1>1, <1>4, <1>5 DEF Covers
    <3> QED BY <1>2, <2>1, <2>2, <3>1 DEF Held, OnTheWay
  <2>3. CASE j # i
    BY <1>2, <1>5, <2>1, <2>3 DEF Held, OnTheWay
  <2> QED BY <2>2, <2>3
<1> QED BY <1>10, <1>11, <1>12 DEF ChangeInv

\* The records as the steps below find them.
LEMMA Shapes ==
    ASSUME LocalInv
    PROVE  /\ users \in Table /\ hub \in Table /\ made \in Table
           /\ toHub \in Seq(Id \X Rec) /\ toBot \in Seq(Table) /\ Frames \in Seq(Id \X Rec)
           /\ \A i \in Id : users[i] \in Rec /\ hub[i] \in Rec /\ made[i] \in Rec
           /\ \A k \in 1..Len(toHub) : toHub[k][1] \in Id /\ toHub[k][2] \in Rec
           /\ \A k \in 1..Len(Frames) : Frames[k][1] \in Id /\ Frames[k][2] = users[Frames[k][1]]
<1>1. /\ users \in Table /\ hub \in Table /\ made \in Table
      /\ toHub \in Seq(Id \X Rec) /\ toBot \in Seq(Table)
  BY DEF LocalInv, Typed
<1>2. \A k \in 1..Len(toHub) : toHub[k] \in Id \X Rec
  BY <1>1, ElementOfSeq
<1> QED BY <1>1, <1>2, FramesCarryUsers DEF Table

\* The frames of a push, after those under way, carry records that are
\* there already.
LEMMA Joined ==
    ASSUME LocalInv
    PROVE  LET fs == toHub \o Frames
           IN  /\ fs \in Seq(Id \X Rec) /\ Len(fs) = Len(toHub) + Len(Frames)
               /\ \A k \in 1..Len(toHub) : fs[k] = toHub[k]
               /\ \A k \in 1..Len(Frames) : fs[Len(toHub) + k] = Frames[k]
               /\ \A k \in 1..Len(fs) : \/ k \in 1..Len(toHub) /\ fs[k] = toHub[k]
                                        \/ fs[k][2] = users[fs[k][1]]
               /\ \A k \in 1..Len(fs) : fs[k][1] \in Id /\ fs[k][2] \in Rec
               /\ \A k \in 1..Len(fs) : At(fs[k][1], fs[k][2])
<1> DEFINE fs == toHub \o Frames
<1>1. /\ toHub \in Seq(Id \X Rec) /\ Frames \in Seq(Id \X Rec)
      /\ Len(toHub) \in Nat /\ Len(Frames) \in Nat
  BY Shapes
<1>2. /\ fs \in Seq(Id \X Rec) /\ Len(fs) = Len(toHub) + Len(Frames)
      /\ \A k \in 1 .. Len(toHub) + Len(Frames) :
            fs[k] = IF k <= Len(toHub) THEN toHub[k] ELSE Frames[k - Len(toHub)]
  BY <1>1, ConcatProperties
<1> HIDE DEF fs
<1>3. ASSUME NEW k \in 1..Len(toHub) PROVE fs[k] = toHub[k]
  <2>1. k \in 1 .. Len(toHub) + Len(Frames) /\ k <= Len(toHub)
    BY <1>1
  <2> QED BY <1>2, <2>1
<1>4. ASSUME NEW k \in 1..Len(Frames) PROVE fs[Len(toHub) + k] = Frames[k]
  <2>1. /\ Len(toHub) + k \in 1 .. Len(toHub) + Len(Frames) /\ ~(Len(toHub) + k <= Len(toHub))
        /\ Len(toHub) + k - Len(toHub) = k
    BY <1>1
  <2> QED BY <1>2, <2>1
<1>5. ASSUME NEW k \in 1..Len(fs)
      PROVE  \/ k \in 1..Len(toHub) /\ fs[k] = toHub[k]
             \/ fs[k][2] = users[fs[k][1]]
  <2>1. CASE k <= Len(toHub)
    BY <1>1, <1>2, <2>1
  <2>2. CASE ~(k <= Len(toHub))
    <3>1. k - Len(toHub) \in 1..Len(Frames) /\ fs[k] = Frames[k - Len(toHub)]
      BY <1>1, <1>2, <2>2
    <3> QED BY <3>1, Shapes
  <2> QED BY <2>1, <2>2
<1>6. \A k \in 1..Len(fs) : fs[k] \in Id \X Rec
  BY <1>2, ElementOfSeq
<1>7. \A k \in 1..Len(fs) : At(fs[k][1], fs[k][2])
  BY <1>5 DEF At
<1>8. \A k \in 1..Len(fs) : fs[k][1] \in Id /\ fs[k][2] \in Rec
  BY <1>6
<1> QED BY <1>2, <1>3, <1>4, <1>5, <1>7, <1>8 DEF fs

\* A push that fails: what the hub takes of it was there before, and what it
\* does not get is pending.
LEMMA ChangePushFails ==
    ASSUME LocalInv, ChangeInv, PushFails, \A j \in Id : made'[j] = made[j] \/ made'[j] = users[j]
    PROVE  ChangeInv'
<1> DEFINE fs == toHub \o Frames
<1>1. PICK n \in 0..Len(fs) : hub' \in Arrived(fs, n) /\ excused' = excused \cup UnderWay(n)
  BY Zenon DEF PushFails
<1>2. /\ toHub' = <<>> /\ toBot' = <<>> /\ pending' /\ UNCHANGED <<users, issued>>
  BY DEF PushFails
<1>3. /\ fs \in Seq(Id \X Rec) /\ Len(fs) = Len(toHub) + Len(Frames)
      /\ Len(toHub) \in Nat /\ Len(Frames) \in Nat
      /\ \A k \in 1..Len(toHub) : fs[k] = toHub[k]
      /\ \A k \in 1..Len(fs) : fs[k][1] \in Id /\ fs[k][2] \in Rec /\ At(fs[k][1], fs[k][2])
  BY Joined, Shapes
<1> HIDE DEF fs
<1>4. n \in Nat /\ n <= Len(fs) /\ \A k \in 1..n : k \in 1..Len(fs)
  BY <1>1, <1>3
<1>5. ASSUME NEW i \in Id
      PROVE  /\ hub'[i] \in Rec /\ At(i, hub'[i])
             /\ hub'[i] = hub[i] \/ Beats(hub'[i], hub[i])
             /\ \A k \in 1..n : fs[k][1] = i => ~Beats(fs[k][2], hub'[i])
  <2>1. /\ \/ hub'[i] = hub[i]
           \/ /\ Beats(hub'[i], hub[i])
              /\ \E k \in 1..n : fs[k][1] = i /\ fs[k][2] = hub'[i]
        /\ \A k \in 1..n : fs[k][1] = i => ~Beats(fs[k][2], hub'[i])
    BY <1>1, ArrivedFacts
  <2>2. hub'[i] = hub[i] => hub'[i] \in Rec /\ At(i, hub'[i])
    BY Shapes DEF At
  <2>3. (\E k \in 1..n : fs[k][1] = i /\ fs[k][2] = hub'[i]) => hub'[i] \in Rec /\ At(i, hub'[i])
    BY <1>3, <1>4
  <2> QED BY <2>1, <2>2, <2>3
<1>6. ASSUME NEW i \in Id, NEW r \in Rec, At(i, r)' PROVE At(i, r)
  <2>1. r = users[i] \/ r = hub'[i] \/ r = made'[i]
    BY <1>2, <1>6 DEF At
  <2>2. r = hub'[i] => At(i, r)
    BY <1>5
  <2>3. r = users[i] \/ r = made[i] => At(i, r)
    BY DEF At
  <2> QED BY <2>1, <2>2, <2>3
<1>7. Stamps' /\ Unique'
  <2>1. Stamps /\ Unique /\ excused \subseteq excused'
    BY <1>1 DEF ChangeInv
  <2> QED BY <1>2, <1>6, <2>1, Spread
<1>8. ASSUME NEW i \in Id \ excused' PROVE Held(i)'
  <2>1. i \notin excused /\ i \notin UnderWay(n) /\ Held(i)
    BY <1>1 DEF ChangeInv
  <2>2. CASE made'[i] = users[i]
    BY <1>2, <2>2 DEF Held, Covers
  <2>3. CASE made'[i] = made[i] /\ made[i] = None
    BY <2>3 DEF Held
  <2>4. CASE made'[i] = made[i] /\ Covers(hub[i], made[i])
    <3>1. Covers(hub'[i], made[i])
      BY <1>5, <2>4, CoversKept, Shapes
    <3> QED BY <2>4, <3>1 DEF Held
  <2>5. CASE made'[i] = made[i] /\ made[i] # None /\ OnTheWay(i)
    <3>1. PICK k \in 1..Len(toHub) : toHub[k][1] = i /\ Covers(toHub[k][2], made[i])
      BY <2>5 DEF OnTheWay
    <3>2. k \in 1..n
      BY <1>3, <1>4, <2>1, <3>1 DEF UnderWay
    <3>3. fs[k][1] = i /\ Covers(fs[k][2], made[i]) /\ fs[k][2] \in Rec
      BY <1>3, <1>4, <3>1, <3>2
    <3>4. ~Beats(fs[k][2], hub'[i]) /\ hub'[i] \in Rec /\ At(i, hub'[i])
      BY <1>5, <3>2, <3>3
    <3>5. Covers(hub'[i], made[i])
      BY <2>1, <2>5, <3>3, <3>4, Taken DEF ChangeInv
    <3> QED BY <2>5, <3>5 DEF Held
  <2>6. CASE made'[i] = made[i] /\ Covers(users[i], made[i])
    BY <1>2, <2>6 DEF Held
  <2> QED BY <2>1, <2>2, <2>3, <2>4, <2>5, <2>6 DEF Held
<1> QED BY <1>7, <1>8 DEF ChangeInv

LEMMA ChangeStep == LocalInv /\ ChangeInv /\ [Next]_vars => ChangeInv'
<1> SUFFICES ASSUME LocalInv, ChangeInv, [Next]_vars PROVE ChangeInv'
  OBVIOUS
<1>0. Stamps /\ Unique /\ \A i \in Id \ excused : Held(i)
  BY DEF ChangeInv
<1>1. ASSUME UNCHANGED <<users, pending, hub, made, toHub, toBot, issued>>,
             excused \subseteq excused'
      PROVE  ChangeInv'
  <2>1. \A i \in Id : \A r \in Rec : At(i, r)' => At(i, r)
    BY <1>1 DEF At
  <2>2. Stamps' /\ Unique'
    BY <1>0, <1>1, <2>1, Spread
  <2>3. \A i \in Id \ excused' : Held(i)'
    BY <1>0, <1>1 DEF Held, OnTheWay
  <2> QED BY <2>2, <2>3 DEF ChangeInv
<1>2. CASE AdminPushOffline
  <2>1. /\ pc \in Id /\ pending' /\ made' = [made EXCEPT ![pc] = users[pc]]
        /\ UNCHANGED <<users, hub, toHub, toBot, issued, excused>>
    BY <1>2 DEF AdminPushOffline, LocalInv, Typed
  <2>2. made'[pc] = users[pc] /\ \A j \in Id : j # pc => made'[j] = made[j]
    BY <2>1, Shapes DEF Table
  <2>3. \A i \in Id : \A r \in Rec : At(i, r)' => At(i, r)
    BY <2>1, <2>2 DEF At
  <2>4. Stamps' /\ Unique'
    BY <1>0, <2>1, <2>3, Spread
  <2>5. ASSUME NEW i \in Id \ excused' PROVE Held(i)'
    <3>1. CASE i = pc
      BY <2>1, <2>2, <3>1 DEF Held, Covers
    <3>2. CASE i # pc
      BY <1>0, <2>1, <2>2, <3>2 DEF Held, OnTheWay
    <3> QED BY <3>1, <3>2
  <2> QED BY <2>4, <2>5 DEF ChangeInv
<1>3. CASE AdminPush
  <2> DEFINE fs == toHub \o Frames
  <2>1. /\ pc \in Id /\ toHub' = fs /\ made' = [made EXCEPT ![pc] = users[pc]]
        /\ UNCHANGED <<users, hub, toBot, issued, excused>>
    BY <1>3 DEF AdminPush, LocalInv, Typed
  <2>2. made'[pc] = users[pc] /\ \A j \in Id : j # pc => made'[j] = made[j]
    BY <2>1, Shapes DEF Table
  <2>3. /\ Len(fs) = Len(toHub) + Len(Frames) /\ Len(toHub) \in Nat /\ Len(Frames) \in Nat
        /\ \A k \in 1..Len(toHub) : fs[k] = toHub[k]
        /\ \A k \in 1..Len(Frames) : fs[Len(toHub) + k] = Frames[k]
        /\ \A k \in 1..Len(fs) : At(fs[k][1], fs[k][2])
    BY Joined, Shapes
  <2> HIDE DEF fs
  <2>4. ASSUME NEW i \in Id, NEW r \in Rec, At(i, r)' PROVE At(i, r)
    <3>1. CASE \E k \in 1..Len(fs) : fs[k][1] = i /\ fs[k][2] = r
      BY <2>3, <3>1
    <3>2. CASE r = users[i] \/ r = hub[i] \/ r = made'[i] \/ \E k \in 1..Len(toBot) : toBot[k][i] = r
      BY <2>2, <3>2 DEF At
    <3> QED BY <2>1, <2>4, <3>1, <3>2 DEF At
  <2>5. Stamps' /\ Unique'
    BY <1>0, <2>1, <2>4, Spread
  <2>6. ASSUME NEW i \in Id, made'[i] # None, Covers(users[i], made'[i]), made'[i] \in Rec
        PROVE  OnTheWay(i)'
    <3>1. PICK k \in 1..Len(Frames) : Frames[k][1] = i /\ Frames[k][2] = users[i]
      BY <2>6, CoveringIsPushed
    <3>2. Len(toHub) + k \in 1..Len(fs) /\ fs[Len(toHub) + k] = Frames[k]
      BY <2>3
    <3> QED BY <2>1, <2>6, <3>1, <3>2 DEF OnTheWay
  <2>7. ASSUME NEW i \in Id \ excused' PROVE Held(i)'
    <3>0. Held(i) /\ made'[i] \in Rec
      BY <1>0, <2>1, <2>2, Shapes
    <3>1. CASE i = pc
      <4>1. Covers(users[i], made'[i])
        BY <2>2, <3>1 DEF Covers
      <4> QED BY <2>6, <3>0, <4>1 DEF Held
    <3>2. CASE i # pc /\ OnTheWay(i)
      <4>1. PICK k \in 1..Len(toHub) : toHub[k][1] = i /\ Covers(toHub[k][2], made[i])
        BY <3>2 DEF OnTheWay
      <4>2. k \in 1..Len(fs) /\ fs[k] = toHub[k]
        BY <2>3
      <4>3. OnTheWay(i)'
        BY <2>1, <2>2, <3>2, <4>1, <4>2 DEF OnTheWay
      <4> QED BY <4>3 DEF Held
    <3>3. CASE i # pc /\ ~OnTheWay(i)
      BY <2>1, <2>2, <2>6, <3>0, <3>3 DEF Held
    <3> QED BY <3>1, <3>2, <3>3
  <2> QED BY <2>5, <2>7 DEF ChangeInv
<1>4. CASE AdminPushFail
  <2>1. PushFails /\ pc \in Id /\ made' = [made EXCEPT ![pc] = users[pc]]
    BY <1>4 DEF AdminPushFail, LocalInv, Typed
  <2>2. \A j \in Id : made'[j] = made[j] \/ made'[j] = users[j]
    BY <2>1, Shapes DEF Table
  <2> QED BY <2>1, <2>2, ChangePushFails
<1>5. CASE AckPushFail
  <2>1. PushFails /\ UNCHANGED made
    BY <1>5 DEF AckPushFail
  <2> QED BY <2>1, ChangePushFails
<1>6. CASE handle_ack
  <2>1. /\ ~linked /\ toHub' = (IF pending THEN Frames ELSE <<>>)
        /\ UNCHANGED <<users, toBot, hub, made, issued, excused>>
    BY <1>6 DEF handle_ack
  <2>2. toHub = <<>>
    BY <2>1 DEF LocalInv, Links
  <2>3. ASSUME NEW i \in Id, NEW r \in Rec, At(i, r)' PROVE At(i, r)
    <3>1. CASE \E k \in 1..Len(toHub') : toHub'[k][1] = i /\ toHub'[k][2] = r
      <4>1. PICK k \in 1..Len(toHub') : toHub'[k][1] = i /\ toHub'[k][2] = r
        BY <3>1
      <4>2. toHub' = Frames
        BY <2>1, <4>1
      <4> QED BY <4>1, <4>2, Shapes DEF At
    <3>2. CASE r = users[i] \/ r = hub[i] \/ r = made[i] \/ \E k \in 1..Len(toBot) : toBot[k][i] = r
      BY <3>2 DEF At
    <3> QED BY <2>1, <2>3, <3>1, <3>2 DEF At
  <2>4. Stamps' /\ Unique'
    BY <1>0, <2>1, <2>3, Spread
  <2>5. ASSUME NEW i \in Id \ excused' PROVE Held(i)'
    <3>1. Held(i) /\ ~OnTheWay(i) /\ made[i] \in Rec
      BY <1>0, <2>1, <2>2, Shapes DEF OnTheWay
    <3>2. CASE made[i] # None /\ pending /\ Covers(users[i], made[i])
      <4>1. PICK k \in 1..Len(Frames) : Frames[k][1] = i /\ Frames[k][2] = users[i]
        BY <3>1, <3>2, CoveringIsPushed
      <4>2. OnTheWay(i)'
        BY <2>1, <3>2, <4>1 DEF OnTheWay
      <4> QED BY <4>2 DEF Held
    <3> QED BY <2>1, <3>1, <3>2 DEF Held
  <2> QED BY <2>4, <2>5 DEF ChangeInv
<1>7. ASSUME toHub' = <<>>, toBot' = <<>>, UNCHANGED <<users, hub, made, issued>>,
             excused \cup UnderWay(0) \subseteq excused',
             \A i \in Id \ excused' : pending => pending'
      PROVE  ChangeInv'
  <2>1. \A i \in Id : \A r \in Rec : At(i, r)' => At(i, r)
    BY <1>7 DEF At
  <2>2. Stamps' /\ Unique'
    BY <1>0, <1>7, <2>1, Spread
  <2>3. ASSUME NEW i \in Id \ excused' PROVE Held(i)'
    <3>1. Held(i) /\ i \notin UnderWay(0)
      BY <1>0, <1>7
    <3>2. \A k \in 1..Len(toHub) : k \in 0 + 1 .. Len(toHub)
      OBVIOUS
    <3>3. ~OnTheWay(i)
      BY <3>1, <3>2 DEF OnTheWay, UnderWay
    <3> QED BY <1>7, <3>1, <3>3 DEF Held
  <2> QED BY <2>2, <2>3 DEF ChangeInv
<1>8. CASE Drop
  BY <1>7, <1>8 DEF Drop
<1>9. CASE Restart
  <2>1. /\ users' = users /\ pending' = disk.pending
        /\ toHub' = <<>> /\ toBot' = <<>> /\ UNCHANGED <<hub, made, issued>>
        /\ excused' = excused \cup UnderWay(0) \cup (IF pending /\ ~disk.pending THEN Id ELSE {})
    BY <1>9 DEF Restart, LocalInv, Links
  <2>2. \A i \in Id \ excused' : pending => pending'
    BY <2>1
  <2> QED BY <1>7, <2>1, <2>2
<1>10. CASE process_config_data
  <2>1. /\ linked /\ toBot # <<>> /\ toBot' = Tail(toBot)
        /\ users' = users \/ users' = Head(toBot)
        /\ UNCHANGED <<pending, toHub, hub, made, issued, excused>>
    BY <1>10 DEF process_config_data
  <2>2. /\ Len(toBot) \in Nat /\ Len(toBot) > 0 /\ Len(Tail(toBot)) = Len(toBot) - 1
        /\ Head(toBot) = toBot[1]
        /\ \A k \in 1..Len(Tail(toBot)) : Tail(toBot)[k] = toBot[k + 1]
    BY <2>1, Shapes
  <2>3. ASSUME NEW i \in Id, NEW r \in Rec, At(i, r)' PROVE At(i, r)
    <3>1. CASE r = users'[i]
      <4>1. r = users[i] \/ (1 \in 1..Len(toBot) /\ toBot[1][i] = r)
        BY <2>1, <2>2, <3>1
      <4> QED BY <4>1 DEF At
    <3>2. CASE \E k \in 1..Len(toBot') : toBot'[k][i] = r
      <4>1. PICK k \in 1..Len(toBot') : toBot'[k][i] = r
        BY <3>2
      <4>2. k + 1 \in 1..Len(toBot) /\ toBot[k + 1][i] = r
        BY <2>1, <2>2, <4>1
      <4> QED BY <4>2 DEF At
    <3> QED BY <2>1, <2>3, <3>1, <3>2 DEF At
  <2>4. Stamps' /\ Unique'
    BY <1>0, <2>1, <2>3, Spread
  <2>5. ~pending
    BY <2>1 DEF LocalInv, Links
  <2>6. \A i \in Id \ excused' : Held(i)'
    BY <1>0, <2>1, <2>5 DEF Held, OnTheWay
  <2> QED BY <2>4, <2>6 DEF ChangeInv
<1>11. CASE FlushConfig \/ Tick
  BY <1>1, <1>11 DEF FlushConfig, Tick
<1>12. CASE HubReceive
  <2> DEFINE f == Head(toHub)
  <2>1. /\ toHub # <<>> /\ toHub' = Tail(toHub)
        /\ hub' = [hub EXCEPT ![f[1]] = Merge(@, f[2])]
        /\ UNCHANGED <<users, pending, toBot, made, issued, excused>>
    BY <1>12, Zenon DEF HubReceive
  <2>2. /\ Len(toHub) \in Nat /\ Len(toHub) > 0 /\ Len(Tail(toHub)) = Len(toHub) - 1
        /\ f = toHub[1] /\ 1 \in 1..Len(toHub)
        /\ \A k \in 1..Len(Tail(toHub)) : Tail(toHub)[k] = toHub[k + 1]
    BY <2>1, Shapes
  <2>3. f[1] \in Id /\ f[2] \in Rec /\ At(f[1], f[2])
    BY <2>2, Shapes DEF At
  <2> HIDE DEF f
  <2>4. /\ hub'[f[1]] = Merge(hub[f[1]], f[2])
        /\ \A i \in Id : i # f[1] => hub'[i] = hub[i]
    BY <2>1, <2>3, Shapes DEF Table
  <2>5. ASSUME NEW i \in Id
        PROVE  /\ hub'[i] = hub[i] \/ (Beats(hub'[i], hub[i]) /\ i = f[1] /\ hub'[i] = f[2])
               /\ i = f[1] => ~Beats(f[2], hub'[i])
    <3>1. CASE i # f[1]
      BY <2>4, <3>1
    <3>2. CASE i = f[1]
      <4>1. f[2].ts \in Nat /\ hub[i].ts \in Nat
        BY <2>3, RecFacts, Shapes
      <4> QED BY <2>4, <3>2, <4>1 DEF Merge, Beats, lww_accepts
    <3> QED BY <3>1, <3>2
  <2>6. \A i \in Id : hub'[i] \in Rec /\ At(i, hub'[i])
    BY <2>3, <2>5, Shapes DEF At
  <2>7. ASSUME NEW i \in Id, NEW r \in Rec, At(i, r)' PROVE At(i, r)
    <3>1. CASE \E k \in 1..Len(toHub') : toHub'[k][1] = i /\ toHub'[k][2] = r
      <4>1. PICK k \in 1..Len(toHub') : toHub'[k][1] = i /\ toHub'[k][2] = r
        BY <3>1
      <4>2. k + 1 \in 1..Len(toHub) /\ toHub[k + 1] = toHub'[k]
        BY <2>1, <2>2, <4>1
      <4> QED BY <4>1, <4>2 DEF At
    <3>2. CASE r = hub'[i]
      BY <2>6, <3>2
    <3>3. CASE r = users[i] \/ r = made[i] \/ \E k \in 1..Len(toBot) : toBot[k][i] = r
      BY <3>3 DEF At
    <3> QED BY <2>1, <2>7, <3>1, <3>2, <3>3 DEF At
  <2>8. Stamps' /\ Unique'
    BY <1>0, <2>1, <2>7, Spread
  <2>9. ASSUME NEW i \in Id \ excused' PROVE Held(i)'
    <3>0. Held(i) /\ i \notin excused
      BY <1>0, <2>1
    <3>1. CASE Covers(hub[i], made[i])
      <4>1. Covers(hub'[i], made[i])
        BY <2>5, <2>6, <3>1, CoversKept, Shapes
      <4> QED BY <2>1, <4>1 DEF Held
    <3>2. CASE made[i] # None /\ OnTheWay(i)
      <4>1. PICK k \in 1..Len(toHub) : toHub[k][1] = i /\ Covers(toHub[k][2], made[i])
        BY <3>2 DEF OnTheWay
      <4>2. CASE k = 1
        <5>1. i = f[1] /\ Covers(f[2], made[i])
          BY <2>2, <4>1, <4>2
        <5>2. Covers(hub'[i], made[i])
          BY <1>0, <2>3, <2>5, <2>6, <3>0, <3>2, <5>1, Taken
        <5> QED BY <2>1, <5>2 DEF Held
      <4>3. CASE k # 1
        <5>1. k - 1 \in 1..Len(toHub') /\ toHub'[k - 1] = toHub[k - 1 + 1] /\ k - 1 + 1 = k
          BY <2>1, <2>2, <4>3
        <5>2. OnTheWay(i)'
          BY <2>1, <4>1, <5>1 DEF OnTheWay
        <5> QED BY <5>2 DEF Held
      <4> QED BY <4>2, <4>3
    <3>3. CASE made[i] = None \/ (pending /\ Covers(users[i], made[i]))
      BY <2>1, <3>3 DEF Held
    <3> QED BY <3>0, <3>1, <3>2, <3>3 DEF Held
  <2> QED BY <2>8, <2>9 DEF ChangeInv
<1>13. CASE HubSend
  <2>1. /\ toBot' = Append(toBot, hub)
        /\ UNCHANGED <<users, pending, toHub, hub, made, issued, excused>>
    BY <1>13 DEF HubSend
  <2>2. /\ Len(toBot) \in Nat /\ Len(toBot') = Len(toBot) + 1
        /\ \A k \in 1..Len(toBot) : toBot'[k] = toBot[k]
        /\ toBot'[Len(toBot) + 1] = hub
    BY <2>1, Shapes
  <2>3. ASSUME NEW i \in Id, NEW r \in Rec, At(i, r)' PROVE At(i, r)
    <3>1. CASE \E k \in 1..Len(toBot') : toBot'[k][i] = r
      <4>1. PICK k \in 1..Len(toBot') : toBot'[k][i] = r
        BY <3>1
      <4>2. k \in 1..Len(toBot) \/ k = Len(toBot) + 1
        BY <2>2
      <4> QED BY <2>2, <4>1, <4>2 DEF At
    <3> QED BY <2>1, <2>3, <3>1 DEF At
  <2>4. Stamps' /\ Unique'
    BY <1>0, <2>1, <2>3, Spread
  <2>5. \A i \in Id \ excused' : Held(i)'
    BY <1>0, <2>1 DEF Held, OnTheWay
  <2> QED BY <2>4, <2>5 DEF ChangeInv
<1>14. ASSUME NEW i \in Id, NEW a \in BOOLEAN, NEW v \in HubVal, HubChange(i, a, v)
       PROVE  ChangeInv'
  <2> DEFINE t == lww_next_ts(clock, hub[i].ts)
             h == [ts |-> t, active |-> a, val |-> v]
  <2>1. /\ hub' = [hub EXCEPT ![i] = h]
        /\ UNCHANGED <<users, pending, toHub, toBot, made, issued, excused>>
    BY <1>14, Zenon DEF HubChange
  <2>2. t \in Nat /\ t > hub[i].ts /\ hub[i].ts \in Nat /\ made[i].ts \in Nat
    BY RecFacts, Shapes DEF lww_next_ts, LocalInv, Typed
  <2>3. h.val \notin Val /\ h.ts = t
    BY UserSyncAssumption
  <2> HIDE DEF h, t
  <2>4. hub'[i] = h /\ \A j \in Id : j # i => hub'[j] = hub[j]
    BY <2>1, Shapes DEF Table
  <2>5. \A j \in Id : \A r \in Rec : At(j, r)' /\ r.val \in Val => At(j, r)
    BY <2>1, <2>3, <2>4 DEF At
  <2>6. Stamps' /\ Unique'
    BY <1>0, <2>1, <2>5, Spread
  <2>7. ASSUME NEW j \in Id \ excused' PROVE Held(j)'
    <3>1. Covers(hub[j], made[j]) => Covers(hub'[j], made[j])
      BY <2>2, <2>3, <2>4 DEF Covers
    <3> QED BY <1>0, <2>1, <3>1 DEF Held, OnTheWay
  <2> QED BY <2>6, <2>7 DEF ChangeInv
<1>15. CASE UNCHANGED vars
  BY <1>1, <1>15 DEF vars
<1> QED BY <1>2, <1>3, <1>4, <1>5, <1>6, <1>8, <1>9, <1>10, <1>11, <1>12, <1>13, <1>14,
       <1>15, ChangeAdmin DEF Next

\* A change an admin was told is made stays: with the hub, on its way or
\* marked for the next push, or something won over it (push_admin_delta,
\* handle_ack, lww_accepts); excused are the records the code does lose.
THEOREM ChangeKept == Spec => []ConfirmedChangeKept
<1>1. ChangeInv => ConfirmedChangeKept
  BY DEF ChangeInv, Held, OnTheWay, ConfirmedChangeKept, Kept
<1> QED BY <1>1, LocalInit, LocalStep, ChangeInit, ChangeStep, PTL DEF Spec

\* handle_ack: what waits for a push is pushed before a table of the hub is
\* read, so none replaces a change that was never sent.
THEOREM PushedBeforeRead == Spec => []NothingPendingOnline
<1>1. LocalInv => NothingPendingOnline
  BY DEF LocalInv, Links, NothingPendingOnline
<1> QED BY <1>1, LocalInit, LocalStep, PTL DEF Spec
=============================================================================
