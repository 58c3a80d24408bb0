--------------------------- MODULE BanSyncProofs ---------------------------
(***************************************************************************)
(* The ban table keeps its limits, no record gives way to an older one and *)
(* what the bot banned is at the hub, under way or marked for the next     *)
(* push: for any masks, limits, stamps and queues, whatever links, pushes, *)
(* evictions, purges and restarts come between.                            *)
(***************************************************************************)
EXTENDS BanSync, SequenceTheorems, FiniteSetTheorems, TLAPS

\* Only a ban the bot itself wrote is ever marked for a push.
Marked(r) == r.pend => r.setter = "me"
Lines == {r \in Stored : Marked(r)}
Records == Lines \cup {NoBan}
Tables == [Mask -> Records]
Debts == {"none", "bot", "admin", "cut"}
FromHub == {<<"PURGE">>} \cup (Mask \X Lines)

Typed == /\ bans \in Tables /\ disk \in Tables /\ hub \in Tables
         /\ toHub \in Seq(SUBSET (Mask \X Lines)) /\ toBot \in Seq(FromHub)
         /\ owed \in [Mask -> Debts]
         /\ clock \in 1..MaxTs

AsLines(t) == [m \in Mask |-> Line(t[m])]
\* The file holds lines; when nothing waits for the debounced write, those of
\* what is in memory.
Saved == disk = AsLines(disk) /\ (~dirty => disk = AsLines(bans))

---------------------------------------------------------------------------
LEMMA Consts ==
    /\ IsFiniteSet(Mask) /\ CFG_MAX_BANS \in Nat /\ MAX_BANS_PER_CHAN \in Nat /\ PushCap \in Nat
    /\ AdminMask \subseteq Mask /\ HubMask \subseteq Mask /\ MaxTs \in Nat \ {0}
    /\ MaxFrames \in Nat
BY BanSyncAssumption DEF BanSyncAssumption

LEMMA NoBanRecord == /\ NoBan \notin Stored /\ NoBan.ts = 0 /\ NoBan.active = FALSE
                     /\ NoBan.pend = FALSE /\ NoBan.setter = "none" /\ NoBan \in Records
                     /\ Line(NoBan) = NoBan
<1>1. NoBan.ts = 0 /\ NoBan.active = FALSE /\ NoBan.pend = FALSE /\ NoBan.setter = "none"
  BY Zenon DEF NoBan
<1>2. \A r \in Stored : r.ts \in 1..MaxTs
  BY Zenon DEF Stored
<1>3. NoBan \notin Stored
  BY <1>1, <1>2, Consts
<1>4. Line(NoBan) = NoBan
  <2>1. NoBan \in [ts : {0}, active : BOOLEAN, setter : {"none"}, pend : BOOLEAN]
    BY Zenon DEF NoBan
  <2>2. \A r \in [ts : {0}, active : BOOLEAN, setter : {"none"}, pend : BOOLEAN] :
           r.pend = FALSE => [r EXCEPT !.pend = FALSE] = r
    OBVIOUS
  <2> QED BY <1>1, <2>1, <2>2, Zenon DEF Line
<1> QED BY <1>1, <1>3, <1>4 DEF Records

\* A line keeps all of a record but the mark.
LEMMA LineRecord ==
    ASSUME NEW r \in Records
    PROVE  /\ Line(r) \in Records /\ Line(r).ts = r.ts /\ Line(r).active = r.active
           /\ Line(r).setter = r.setter /\ Line(r).pend = FALSE /\ Line(Line(r)) = Line(r)
           /\ (Line(r) = NoBan) <=> (r = NoBan)
           /\ r.ts \in Nat /\ r.active \in BOOLEAN
<1>1. CASE r = NoBan
  <2>1. NoBan.ts \in Nat
    BY NoBanRecord
  <2> QED BY <1>1, <2>1, NoBanRecord, Zenon
<1>2. CASE r \in Lines
  <2>1. r \in Stored
    BY <1>2 DEF Lines
  <2>2. /\ Line(r) \in Stored /\ Line(r).ts = r.ts /\ Line(r).active = r.active
        /\ Line(r).setter = r.setter /\ Line(r).pend = FALSE
    BY <2>1, Zenon DEF Line, Stored
  <2>3. Line(Line(r)) = Line(r)
    BY <2>1 DEF Line, Stored
  <2>4. r.ts \in 1..MaxTs /\ r.active \in BOOLEAN
    BY <2>1, Zenon DEF Stored
  <2>5. Line(r) \in Records
    BY <2>2, Zenon DEF Records, Lines, Marked
  <2>6. r # NoBan /\ Line(r) # NoBan
    BY <2>1, <2>2, NoBanRecord
  <2>7. r.ts \in Nat
    BY <2>4, Consts
  <2> QED BY <2>2, <2>3, <2>4, <2>5, <2>6, <2>7
<1> QED BY <1>1, <1>2 DEF Records

LEMMA MadeRecord ==
    ASSUME NEW s \in 1..MaxTs, NEW a \in BOOLEAN, NEW w \in Setter, NEW p \in BOOLEAN
    PROVE  LET r == [ts |-> s, active |-> a, setter |-> w, pend |-> p]
           IN  r \in Stored /\ r.ts = s /\ r.active = a /\ r.setter = w /\ r.pend = p
BY Zenon DEF Stored

---------------------------------------------------------------------------
\* What ban_store does to the table.
LEMMA Stores ==
    ASSUME NEW t \in Tables, NEW m \in Mask, NEW r \in Lines, NEW u \in ban_store(t, m, r)
    PROVE  /\ u \in Tables /\ u[m] = r
           /\ \A k \in Mask \ {m} : u[k] = t[k] \/ u[k] = NoBan
           /\ t[m] = NoBan \/ lww_accepts(r.ts, r.active, t[m].ts, t[m].active)
<1>0. r \in Records
  BY DEF Records
<1>1. CASE m \in Known(t)
  <2>1. u = [t EXCEPT ![m] = r] /\ lww_accepts(r.ts, r.active, t[m].ts, t[m].active)
    BY <1>1, Zenon DEF ban_store
  <2> QED BY <1>0, <2>1 DEF Tables
<1>2. CASE m \notin Known(t)
  <2>1. PICK v \in ban_slot(t) : u = [v EXCEPT ![m] = r]
    BY <1>2, Zenon DEF ban_store
  <2>2. v = t \/ \E o \in Mask : v = [t EXCEPT ![o] = NoBan]
    BY <2>1 DEF ban_slot, Known
  <2>3. v \in Tables /\ \A k \in Mask : v[k] = t[k] \/ v[k] = NoBan
    BY <2>2, NoBanRecord DEF Tables
  <2>4. t[m] = NoBan
    BY <1>2 DEF Known
  <2> QED BY <1>0, <2>1, <2>3, <2>4 DEF Tables
<1> QED BY <1>1, <1>2

Limits(t) == /\ Cardinality(Known(t)) <= CFG_MAX_BANS
             /\ Cardinality(Active(t)) <= MAX_BANS_PER_CHAN

LEMMA Finite ==
    ASSUME NEW S, S \subseteq Mask
    PROVE  /\ IsFiniteSet(S) /\ Cardinality(S) \in Nat
           /\ \A T \in SUBSET S : Cardinality(T) <= Cardinality(S)
           /\ \A T \in SUBSET S : Cardinality(T) = Cardinality(S) => T = S
           /\ \A x \in S : Cardinality(S \ {x}) = Cardinality(S) - 1
           /\ \A x \in Mask : Cardinality(S \cup {x}) <= Cardinality(S) + 1
<1>1. IsFiniteSet(S)
  BY Consts, FS_Subset
<1>2. Cardinality(S) \in Nat
  BY <1>1, FS_CardinalityType
<1>3. \A T \in SUBSET S :
         Cardinality(T) <= Cardinality(S) /\ (Cardinality(T) = Cardinality(S) => T = S)
  BY <1>1, FS_Subset
<1>4. \A x \in S : Cardinality(S \ {x}) = Cardinality(S) - 1
  BY <1>1, FS_RemoveElement
<1>5. \A x \in Mask : Cardinality(S \cup {x}) <= Cardinality(S) + 1
  <2> TAKE x \in Mask
  <2> QED BY <1>1, <1>2, FS_AddElement
<1> QED BY <1>1, <1>2, <1>3, <1>4, <1>5

\* Storing makes room first, or refuses: both limits are kept.
LEMMA StoreLimits ==
    ASSUME NEW t \in Tables, NEW m \in Mask, NEW r \in Lines, NEW u \in ban_store(t, m, r),
           Limits(t)
    PROVE  Limits(u)
<1>0. /\ Known(t) \subseteq Mask /\ Active(t) \subseteq Mask
      /\ Known(u) \subseteq Mask /\ Active(u) \subseteq Mask
  BY DEF Known, Active
<1>1. \A k \in Mask \ {m} : u[k] = t[k] \/ u[k] = NoBan
  BY Stores
<1>2. u[m] = r
  BY Stores
<1>3. Active(u) \subseteq Active(t) \cup {m} /\ (r.active \/ Active(u) \subseteq Active(t))
  BY <1>1, <1>2, NoBanRecord, Zenon DEF Active
<1>4. Cardinality(Active(u)) <= MAX_BANS_PER_CHAN
  <2>1. CASE Active(u) \subseteq Active(t)
    BY <1>0, <2>1, Finite, Consts DEF Limits
  <2>2. CASE ban_active_room(t)
    <3>1. /\ Cardinality(Active(t)) \in Nat
          /\ Cardinality(Active(t) \cup {m}) <= Cardinality(Active(t)) + 1
      BY <1>0, Finite
    <3>2. Cardinality(Active(u)) <= Cardinality(Active(t) \cup {m})
      BY <1>0, <1>3, Finite
    <3>3. Cardinality(Active(u)) \in Nat /\ Cardinality(Active(t) \cup {m}) \in Nat
      BY <1>0, Finite
    <3> QED BY <2>2, <3>1, <3>2, <3>3, Consts DEF ban_active_room
  <2>3. CASE r.active /\ ~ban_active_room(t)
    <3>1. m \in Known(t) /\ t[m].active
      BY <2>3, Zenon DEF ban_store
    <3>2. m \in Active(t)
      BY <3>1, Zenon DEF Active
    <3>3. Active(u) \subseteq Active(t)
      BY <1>3, <3>2
    <3> QED BY <2>1, <3>3
  <2> QED BY <1>3, <2>1, <2>2, <2>3
<1>5. Cardinality(Known(u)) <= CFG_MAX_BANS
  <2>1. Known(u) \subseteq Known(t) \cup {m}
    BY <1>1 DEF Known
  <2>2. CASE m \in Known(t)
    <3>1. Known(u) \subseteq Known(t)
      BY <2>1, <2>2
    <3> QED BY <1>0, <3>1, Finite, Consts DEF Limits
  <2>3. CASE m \notin Known(t) /\ Cardinality(Known(t)) < CFG_MAX_BANS
    <3>1. /\ Cardinality(Known(t)) \in Nat
          /\ Cardinality(Known(t) \cup {m}) <= Cardinality(Known(t)) + 1
          /\ Cardinality(Known(t) \cup {m}) \in Nat /\ Cardinality(Known(u)) \in Nat
      BY <1>0, Finite
    <3>2. Cardinality(Known(u)) <= Cardinality(Known(t) \cup {m})
      BY <1>0, <2>1, Finite
    <3> QED BY <2>3, <3>1, <3>2, Consts
  <2>4. CASE m \notin Known(t) /\ ~(Cardinality(Known(t)) < CFG_MAX_BANS)
    <3>1. PICK v \in ban_slot(t) : u = [v EXCEPT ![m] = r]
      BY <2>4, Zenon DEF ban_store
    <3>2. PICK o \in Known(t) : v = [t EXCEPT ![o] = NoBan]
      BY <2>4, <3>1 DEF ban_slot
    <3>3. o # m /\ u[o] = NoBan
      BY <1>0, <2>4, <3>1, <3>2 DEF Tables
    <3>4. Known(u) \subseteq (Known(t) \ {o}) \cup {m}
      BY <2>1, <3>3 DEF Known
    <3>5. /\ Cardinality(Known(t) \ {o}) = Cardinality(Known(t)) - 1
          /\ Cardinality(Known(t)) \in Nat /\ Cardinality(Known(t) \ {o}) \in Nat
          /\ Cardinality(Known(u)) \in Nat
      BY <1>0, Finite
    <3>6. /\ Cardinality((Known(t) \ {o}) \cup {m}) <= Cardinality(Known(t) \ {o}) + 1
          /\ Cardinality((Known(t) \ {o}) \cup {m}) \in Nat
          /\ Cardinality(Known(u)) <= Cardinality((Known(t) \ {o}) \cup {m})
      BY <1>0, <3>4, Finite
    <3> QED BY <3>5, <3>6, Consts DEF Limits
  <2> QED BY <2>2, <2>3, <2>4
<1> QED BY <1>4, <1>5 DEF Limits

\* The lines of a table name the same bans; a purge names fewer.
LEMMA LineLimits ==
    ASSUME NEW t \in Tables, Limits(t)
    PROVE  AsLines(t) \in Tables /\ Limits(AsLines(t))
<1>1. AsLines(t) \in Tables
  BY LineRecord DEF AsLines, Tables
<1>2. Known(AsLines(t)) = Known(t)
  BY LineRecord DEF AsLines, Tables, Known
<1>3. Active(AsLines(t)) = Active(t)
  <2>1. \A m \in Mask : AsLines(t)[m] = Line(t[m]) /\ t[m] \in Records
    BY DEF AsLines, Tables
  <2>2. \A m \in Mask : Line(t[m]).active = t[m].active
    BY <2>1, LineRecord, Zenon
  <2> QED BY <2>1, <2>2, Zenon DEF Active
<1> QED BY <1>1, <1>2, <1>3 DEF Limits

LEMMA LinesTwice == ASSUME NEW t \in Tables PROVE AsLines(AsLines(t)) = AsLines(t)
<1>1. \A m \in Mask : Line(Line(t[m])) = Line(t[m])
  BY LineRecord DEF Tables
<1> QED BY <1>1 DEF AsLines

Purged(t) == [m \in Mask |-> IF t[m].active THEN t[m] ELSE NoBan]
LEMMA PurgeLimits ==
    ASSUME NEW t \in Tables, Limits(t)
    PROVE  Purged(t) \in Tables /\ Limits(Purged(t))
<1>1. Purged(t) \in Tables
  BY NoBanRecord DEF Purged, Tables
<1>2. Known(Purged(t)) \subseteq Known(t) /\ Known(t) \subseteq Mask
  BY DEF Purged, Known
<1>3. Active(Purged(t)) \subseteq Active(t) /\ Active(t) \subseteq Mask
  <2>1. \A m \in Mask : Purged(t)[m] = t[m] \/ Purged(t)[m] = NoBan
    BY DEF Purged
  <2> QED BY <2>1, NoBanRecord, Zenon DEF Active
<1> QED BY <1>1, <1>2, <1>3, Finite, Consts DEF Limits

---------------------------------------------------------------------------
Inv == Typed /\ Limits(bans) /\ Limits(disk) /\ Saved

\* The records bot_ban and local_ban write.
LEMMA StampRange ==
    ASSUME Typed, NEW m \in Mask, Stamp(m) <= MaxTs
    PROVE  Stamp(m) \in 1..MaxTs
<1>1. bans[m].ts \in Nat
  BY LineRecord DEF Typed, Tables
<1> QED BY <1>1, Consts DEF Typed, Stamp, lww_next_ts

LEMMA BotLine ==
    ASSUME Typed, NEW m \in Mask, NEW del \in BOOLEAN, BotRecord(m, del).ts <= MaxTs
    PROVE  /\ BotRecord(m, del) \in Lines /\ BotRecord(m, del).pend = TRUE
           /\ BotRecord(m, del).setter = "me"
<1>1. Stamp(m) <= MaxTs
  BY DEF BotRecord
<1>2. Stamp(m) \in 1..MaxTs
  BY <1>1, StampRange
<1>3. (~del) \in BOOLEAN /\ TRUE \in BOOLEAN /\ "me" \in Setter
  BY DEF Setter
<1>4. /\ BotRecord(m, del) \in Stored /\ BotRecord(m, del).pend = TRUE
      /\ BotRecord(m, del).setter = "me"
  BY <1>2, <1>3, MadeRecord, Zenon DEF BotRecord
<1> QED BY <1>4, Zenon DEF Lines, Marked

AdminRecord(m, del) == [ts |-> Stamp(m), active |-> ~del, pend |-> FALSE,
                        setter |-> IF del THEN bans[m].setter ELSE "admin"]
LEMMA AdminLine ==
    ASSUME Typed, NEW m \in Mask, NEW del \in BOOLEAN, AdminRecord(m, del).ts <= MaxTs,
           del => bans[m].active
    PROVE  AdminRecord(m, del) \in Lines
<1>1. Stamp(m) <= MaxTs
  BY DEF AdminRecord
<1>2. Stamp(m) \in 1..MaxTs
  BY <1>1, StampRange
<1>3. (~del) \in BOOLEAN /\ FALSE \in BOOLEAN
  OBVIOUS
<1>4. (IF del THEN bans[m].setter ELSE "admin") \in Setter
  <2>1. CASE del
    <3>1. bans[m] # NoBan
      BY <2>1, NoBanRecord, Zenon
    <3>2. bans[m] \in Stored
      BY <3>1 DEF Typed, Tables, Records, Lines
    <3>3. bans[m].setter \in Setter
      BY <3>2, Zenon DEF Stored
    <3> QED BY <2>1, <3>3
  <2>2. CASE ~del
    BY <2>2 DEF Setter
  <2> QED BY <2>1, <2>2
<1>5. AdminRecord(m, del) \in Stored /\ AdminRecord(m, del).pend = FALSE
  BY <1>2, <1>3, <1>4, MadeRecord, Zenon DEF AdminRecord
<1> QED BY <1>5, Zenon DEF Lines, Marked

\* The table after a write: as stored, the mark of the new record aside.
LEMMA Writes ==
    ASSUME Inv, NEW m \in Mask, NEW r \in Lines, NEW by \in {"bot", "admin"}, Write(m, r, by)
    PROVE  /\ Inv'
           /\ \E t \in ban_store(bans, m, r) :
                 bans' = t \/ bans' = [t EXCEPT ![m] = Line(r)]
<1>1. PICK t \in ban_store(bans, m, r) :
         \/ /\ linked /\ bans' = [t EXCEPT ![m].pend = FALSE]
            /\ toHub' = Append(toHub, {<<m, Line(r)>>})
            /\ owed' = Held([owed EXCEPT ![m] = by], t) /\ UNCHANGED toBot
         \/ /\ ~linked /\ bans' = t
            /\ owed' = Held([owed EXCEPT ![m] = by], t) /\ UNCHANGED <<toHub, toBot>>
         \/ /\ linked /\ bans' = t /\ toHub' = <<>> /\ toBot' = <<>>
            /\ owed' = Held([Lost(owed) EXCEPT ![m] = by], t)
  BY Zenon DEF Write
<1>2. dirty' = TRUE /\ UNCHANGED <<disk, hub, clock>>
  BY Zenon DEF Write
<1>3. t \in Tables /\ t[m] = r /\ Limits(t)
  BY Stores, StoreLimits DEF Inv, Typed
<1>4. r \in Records /\ Line(r) \in Records /\ Line(r) \in Lines
  <2>1. r \in Records /\ r # NoBan
    BY NoBanRecord DEF Records, Lines
  <2> QED BY <2>1, LineRecord DEF Records
<1>5. [t EXCEPT ![m].pend = FALSE] = [t EXCEPT ![m] = Line(r)]
  BY <1>3, Zenon DEF Line
<1>6. [t EXCEPT ![m] = Line(r)] \in Tables /\ Limits([t EXCEPT ![m] = Line(r)])
  <2>1. [t EXCEPT ![m] = Line(r)] \in Tables
    BY <1>3, <1>4 DEF Tables
  <2>2. Known([t EXCEPT ![m] = Line(r)]) = Known(t)
    BY <1>3, <1>4, LineRecord DEF Known, Tables
  <2>3. Active([t EXCEPT ![m] = Line(r)]) = Active(t)
    <3>1. Line(r).active = r.active
      BY <1>4, LineRecord, Zenon
    <3>2. \A k \in Mask : [t EXCEPT ![m] = Line(r)][k] = IF k = m THEN Line(r) ELSE t[k]
      BY <1>3 DEF Tables
    <3>3. \A k \in Mask : [t EXCEPT ![m] = Line(r)][k].active = t[k].active
      BY <1>3, <3>1, <3>2, Zenon
    <3> QED BY <3>3, Zenon DEF Active
  <2> QED BY <1>3, <2>1, <2>2, <2>3 DEF Limits
<1>7. bans' \in Tables /\ Limits(bans') /\ (bans' = t \/ bans' = [t EXCEPT ![m] = Line(r)])
  BY <1>1, <1>3, <1>5, <1>6
<1>8. toHub' \in Seq(SUBSET (Mask \X Lines)) /\ toBot' \in Seq(FromHub)
  <2>1. {<<m, Line(r)>>} \in SUBSET (Mask \X Lines)
    BY <1>4
  <2>2. toHub \in Seq(SUBSET (Mask \X Lines)) /\ toBot \in Seq(FromHub)
    BY DEF Inv, Typed
  <2>3. Append(toHub, {<<m, Line(r)>>}) \in Seq(SUBSET (Mask \X Lines))
    BY <2>1, <2>2, AppendProperties
  <2> QED BY <1>1, <2>2, <2>3, EmptySeq
<1>9. owed' \in [Mask -> Debts]
  <2>1. \A o \in [Mask -> Debts] :
          /\ Held([o EXCEPT ![m] = by], t) \in [Mask -> Debts]
          /\ Lost(o) \in [Mask -> Debts]
    BY DEF Held, Lost, Debts
  <2>2. owed \in [Mask -> Debts]
    BY DEF Inv, Typed
  <2> QED BY <1>1, <2>1, <2>2
<1>10. Typed'
  BY <1>2, <1>7, <1>8, <1>9 DEF Inv, Typed
<1>11. Limits(bans)' /\ Limits(disk)'
  BY <1>2, <1>7 DEF Inv, Limits, Known, Active
<1>12. Saved'
  BY <1>2 DEF Inv, Saved, AsLines
<1> QED BY <1>7, <1>10, <1>11, <1>12 DEF Inv

\* A push sends pending lines and clears every mark.
LEMMA Pushes ==
    ASSUME Inv, NEW t \in Tables, Limits(t), NEW o \in [Mask -> Debts], push_config(t, o)
    PROVE  /\ bans' = AsLines(t) /\ bans' \in Tables /\ Limits(bans')
           /\ toHub' \in Seq(SUBSET (Mask \X Lines)) /\ owed' \in [Mask -> Debts]
<1>1. bans' = AsLines(t)
  BY DEF push_config, AsLines
<1>2. PICK p \in generate_config_payload(t) :
           /\ toHub' = IF p = {} THEN toHub ELSE Append(toHub, p)
           /\ owed' = Cut(o, t, p)
  BY DEF push_config
<1>3. PICK S \in SUBSET Pending(t) : p = {<<m, Line(t[m])>> : m \in S}
  BY <1>2 DEF generate_config_payload, kSubset
<1>4. \A m \in S : m \in Mask /\ t[m] \in Records /\ t[m] # NoBan
  BY <1>3 DEF Pending, Known, Tables
<1>5. \A m \in S : Line(t[m]) \in Lines
  BY <1>4, LineRecord DEF Records
<1>6. p \in SUBSET (Mask \X Lines)
  BY <1>3, <1>4, <1>5
<1>7. toHub \in Seq(SUBSET (Mask \X Lines))
  BY DEF Inv, Typed
<1>8. Append(toHub, p) \in Seq(SUBSET (Mask \X Lines))
  BY <1>6, <1>7, AppendProperties
<1>9. toHub' \in Seq(SUBSET (Mask \X Lines))
  BY <1>2, <1>7, <1>8
<1>10. owed' \in [Mask -> Debts]
  BY <1>2, Zenon DEF Cut, Debts
<1> QED BY <1>1, <1>9, <1>10, LineLimits

LEMMA HeldType ==
    ASSUME NEW o \in [Mask -> Debts], NEW t
    PROVE  /\ Held(o, t) \in [Mask -> Debts]
           /\ Lost(o) \in [Mask -> Debts]
BY DEF Held, Lost, Debts

LEMMA InitInv == Init => Inv
<1> SUFFICES ASSUME Init PROVE Inv
  OBVIOUS
<1>1. bans = [m \in Mask |-> NoBan] /\ disk = bans
  BY DEF Init
<1>2. bans \in Tables
  BY <1>1, NoBanRecord DEF Tables
<1>3. hub \in Tables
  <2>1. hub \in [Mask -> {NoBan} \cup
                   [ts : {1}, active : {FALSE}, setter : {"other"}, pend : {FALSE}]]
    BY DEF Init
  <2>2. ASSUME NEW r \in [ts : {1}, active : {FALSE}, setter : {"other"}, pend : {FALSE}]
        PROVE  r \in Lines
    <3>1. 1 \in 1..MaxTs
      BY Consts
    <3>2. r \in Stored
      BY <3>1 DEF Stored, Setter
    <3>3. r.pend = FALSE
      BY Zenon
    <3> QED BY <3>2, <3>3, Zenon DEF Lines, Marked
  <2> QED BY <2>1, <2>2 DEF Tables, Records
<1>4. Limits(bans)
  <2>1. Known(bans) = {}
    BY <1>1 DEF Known
  <2>2. Active(bans) = {}
    BY <1>1, NoBanRecord, Zenon DEF Active
  <2> QED BY <2>1, <2>2, Consts, FS_EmptySet DEF Limits
<1>5. toHub = <<>> /\ toBot = <<>> /\ clock = 1 /\ owed = [m \in Mask |-> "none"]
  BY DEF Init
<1>6. Typed
  BY <1>1, <1>2, <1>3, <1>5, EmptySeq, Consts DEF Typed, Debts
<1>7. Saved
  <2>1. disk = AsLines(bans)
    BY <1>1, NoBanRecord DEF AsLines
  <2> QED BY <1>1, <2>1 DEF Saved
<1> QED BY <1>1, <1>4, <1>6, <1>7 DEF Inv

---------------------------------------------------------------------------
\* No record a step puts in place is one the old record would replace.
NoneOlder == \A m \in Mask : Older(bans'[m], bans[m]) => dirty /\ bans' = disk

LEMMA SameNotOlder ==
    ASSUME NEW r \in Records, NEW s \in Records, s.ts = r.ts, s.active = r.active
    PROVE  ~Older(s, r)
<1>1. r.ts \in Nat /\ r.active \in BOOLEAN
  BY LineRecord
<1> QED BY <1>1 DEF Older, lww_accepts

LEMMA NewerNotOlder ==
    ASSUME NEW r \in Records, NEW s \in Records,
           lww_accepts(s.ts, s.active, r.ts, r.active)
    PROVE  ~Older(s, r)
<1>1. r.ts \in Nat /\ r.active \in BOOLEAN /\ s.ts \in Nat /\ s.active \in BOOLEAN
  BY LineRecord
<1> QED BY <1>1 DEF Older, lww_accepts

\* A stored record is newer than the one it replaces, if there was one.
LEMMA StoreNotOlder ==
    ASSUME NEW t \in Tables, NEW m \in Mask, NEW r \in Lines, NEW u \in ban_store(t, m, r),
           NEW k \in Mask
    PROVE  ~Older(u[k], t[k])
<1>0. u \in Tables /\ t[k] \in Records /\ u[k] \in Records
  BY Stores DEF Tables
<1>1. CASE u[k] = NoBan
  BY <1>1 DEF Older
<1>2. CASE k # m /\ u[k] = t[k]
  BY <1>0, <1>2, SameNotOlder
<1>3. CASE k = m /\ t[m] # NoBan
  <2>1. lww_accepts(u[k].ts, u[k].active, t[k].ts, t[k].active)
    BY <1>3, Stores
  <2> QED BY <1>0, <2>1, NewerNotOlder
<1>4. CASE k = m /\ t[m] = NoBan
  <2>1. u[k] \in Stored /\ t[k].ts = 0
    BY <1>4, Stores, NoBanRecord DEF Lines
  <2>2. u[k].ts \in 1..MaxTs
    BY <2>1, Zenon DEF Stored
  <2> QED BY <2>1, <2>2, Consts DEF Older, lww_accepts
<1> QED BY <1>1, <1>2, <1>3, <1>4, Stores

LEMMA SameBans == ASSUME Inv, bans' = bans PROVE NoneOlder
<1>1. \A m \in Mask : bans[m] \in Records
  BY DEF Inv, Typed, Tables
<1>2. \A m \in Mask : ~Older(bans[m], bans[m])
  BY <1>1, SameNotOlder
<1> QED BY <1>2 DEF NoneOlder

LEMMA LinesNotOlder ==
    ASSUME NEW t \in Tables, NEW m \in Mask
    PROVE  ~Older(AsLines(t)[m], t[m])
<1>1. AsLines(t)[m] = Line(t[m]) /\ t[m] \in Records
  BY DEF AsLines, Tables
<1>2. /\ Line(t[m]) \in Records /\ Line(t[m]).ts = t[m].ts /\ Line(t[m]).active = t[m].active
  BY <1>1, LineRecord
<1> QED BY <1>1, <1>2, SameNotOlder

\* A step that leaves the records here alone.
LEMMA NetworkStep ==
    ASSUME Inv, UNCHANGED <<bans, dirty, disk>>, hub' \in Tables, clock' \in 1..MaxTs,
           toHub' \in Seq(SUBSET (Mask \X Lines)), toBot' \in Seq(FromHub),
           owed' \in [Mask -> Debts]
    PROVE  Inv' /\ NoneOlder
<1>1. Typed' /\ Saved'
  BY DEF Inv, Typed, Saved, AsLines
<1>2. Limits(bans)' /\ Limits(disk)'
  BY DEF Inv, Limits, Known, Active
<1> QED BY <1>1, <1>2, SameBans DEF Inv

LEMMA WriteStep ==
    ASSUME Inv, NEW m \in Mask, NEW r \in Lines, NEW by \in {"bot", "admin"}, Write(m, r, by)
    PROVE  Inv' /\ NoneOlder
<1>1. PICK t \in ban_store(bans, m, r) : bans' = t \/ bans' = [t EXCEPT ![m] = Line(r)]
  BY Writes
<1>2. bans \in Tables /\ t \in Tables /\ t[m] = r /\ r \in Records
  BY Stores DEF Inv, Typed, Records
<1>3. ASSUME NEW k \in Mask PROVE ~Older(bans'[k], bans[k])
  <2>1. ~Older(t[k], bans[k])
    BY <1>2, StoreNotOlder
  <2>2. CASE bans'[k] = t[k]
    BY <2>1, <2>2
  <2>3. CASE bans'[k] # t[k]
    <3>1. k = m /\ bans'[k] = Line(r)
      BY <1>1, <1>2, <2>3 DEF Tables
    <3>2. Line(r).ts = r.ts /\ Line(r).active = r.active /\ r # NoBan
      BY <1>2, LineRecord, NoBanRecord DEF Lines
    <3> QED BY <1>2, <2>1, <3>1, <3>2 DEF Older
  <2> QED BY <2>2, <2>3
<1> QED BY <1>3, Writes DEF NoneOlder

LEMMA StepInv == ASSUME Inv, [Next]_vars PROVE Inv' /\ NoneOlder
<1>0. /\ bans \in Tables /\ disk \in Tables /\ hub \in Tables /\ clock \in 1..MaxTs
      /\ toHub \in Seq(SUBSET (Mask \X Lines)) /\ toBot \in Seq(FromHub)
      /\ owed \in [Mask -> Debts] /\ Limits(bans) /\ Limits(disk)
  BY DEF Inv, Typed
<1>1. ASSUME NEW m \in Mask, NEW del \in BOOLEAN, bot_ban(m, del) PROVE Inv' /\ NoneOlder
  <2>1. Write(m, BotRecord(m, del), "bot")
    BY <1>1 DEF bot_ban
  <2>2. BotRecord(m, del).ts <= MaxTs
    BY <2>1 DEF Write
  <2>3. BotRecord(m, del) \in Lines
    BY <2>2, BotLine DEF Inv
  <2> QED BY <2>1, <2>3, WriteStep
<1>2. ASSUME NEW m \in Mask, NEW del \in BOOLEAN, local_ban(m, del) PROVE Inv' /\ NoneOlder
  <2>1. Write(m, AdminRecord(m, del), "admin") /\ (del => bans[m].active)
    BY <1>2, Zenon DEF local_ban, AdminRecord
  <2>2. AdminRecord(m, del).ts <= MaxTs
    BY <2>1 DEF Write
  <2>3. AdminRecord(m, del) \in Lines
    BY <2>1, <2>2, AdminLine DEF Inv
  <2> QED BY <2>1, <2>3, WriteStep
<1>3. CASE handle_ack
  <2>1. push_config(bans, owed) /\ UNCHANGED <<dirty, disk, toBot, hub, clock>>
    BY <1>3, Zenon DEF handle_ack
  <2>2. /\ bans' = AsLines(bans) /\ bans' \in Tables /\ Limits(bans')
        /\ toHub' \in Seq(SUBSET (Mask \X Lines)) /\ owed' \in [Mask -> Debts]
    BY <1>0, <2>1, Pushes
  <2>3. Typed'
    BY <1>0, <2>1, <2>2 DEF Typed
  <2>4. AsLines(bans') = AsLines(bans)
    BY <1>0, <2>2, LinesTwice
  <2>5. Saved'
    BY <2>1, <2>4 DEF Inv, Saved, AsLines
  <2>6. Limits(bans)' /\ Limits(disk)'
    BY <1>0, <2>1, <2>2 DEF Limits, Known, Active
  <2>7. NoneOlder
    BY <1>0, <2>2, LinesNotOlder DEF NoneOlder
  <2> QED BY <2>3, <2>5, <2>6, <2>7 DEF Inv
<1>4. CASE Drop
  <2>1. /\ UNCHANGED <<bans, dirty, disk, hub, clock>> /\ toHub' = <<>> /\ toBot' = <<>>
        /\ owed' = Lost(owed)
    BY <1>4, Zenon DEF Drop
  <2> QED BY <1>0, <2>1, HeldType, EmptySeq, NetworkStep
<1>5. CASE apply_b_line
  <2>1. /\ toBot # <<>> /\ Head(toBot) # <<"PURGE">> /\ toBot' = Tail(toBot)
        /\ UNCHANGED <<dirty, toHub, hub, clock>>
        /\ owed' = IF bans' = bans THEN owed
                   ELSE Held([owed EXCEPT ![Head(toBot)[1]] = "none"], bans')
        /\ \/ UNCHANGED <<bans, disk>>
           \/ /\ bans' \in ban_store(bans, Head(toBot)[1], Head(toBot)[2])
              /\ disk' = AsLines(bans')
    BY <1>5 DEF apply_b_line, AsLines
  <2>2. Head(toBot) \in FromHub /\ Tail(toBot) \in Seq(FromHub)
    BY <1>0, <2>1, HeadTailProperties
  <2>3. Head(toBot)[1] \in Mask /\ Head(toBot)[2] \in Lines
    BY <2>1, <2>2 DEF FromHub
  <2>4. owed' \in [Mask -> Debts]
    <3>1. [owed EXCEPT ![Head(toBot)[1]] = "none"] \in [Mask -> Debts]
      BY <1>0, Zenon DEF Debts
    <3> QED BY <1>0, <2>1, <3>1, HeldType
  <2>5. CASE UNCHANGED <<bans, disk>>
    BY <1>0, <2>1, <2>2, <2>4, <2>5, NetworkStep
  <2>6. CASE bans' \in ban_store(bans, Head(toBot)[1], Head(toBot)[2]) /\ disk' = AsLines(bans')
    <3>1. bans' \in Tables /\ Limits(bans')
      BY <1>0, <2>3, <2>6, Stores, StoreLimits
    <3>2. disk' \in Tables /\ Limits(disk')
      BY <2>6, <3>1, LineLimits
    <3>3. Typed'
      BY <1>0, <2>1, <2>2, <2>4, <3>1, <3>2 DEF Typed
    <3>4. Saved' /\ Limits(bans)' /\ Limits(disk)'
      <4>1. AsLines(disk') = disk'
        BY <2>6, <3>1, LinesTwice
      <4> QED BY <2>6, <3>1, <3>2, <4>1 DEF Saved, AsLines, Limits, Known, Active
    <3>5. NoneOlder
      BY <1>0, <2>3, <2>6, StoreNotOlder DEF NoneOlder
    <3> QED BY <3>3, <3>4, <3>5 DEF Inv
  <2> QED BY <2>1, <2>5, <2>6
<1>6. CASE apply_purge
  <2>1. /\ toBot # <<>> /\ toBot' = Tail(toBot)
        /\ UNCHANGED <<dirty, hub, clock>>
        /\ \/ UNCHANGED <<bans, disk, toHub, owed>>
           \/ /\ push_config(Purged(bans), Held(owed, Purged(bans)))
              /\ disk' = AsLines(Purged(bans))
    BY <1>6 DEF apply_purge, Purged, AsLines
  <2>2. Tail(toBot) \in Seq(FromHub) /\ Held(owed, Purged(bans)) \in [Mask -> Debts]
    BY <1>0, <2>1, HeadTailProperties, HeldType
  <2>3. CASE UNCHANGED <<bans, disk, toHub, owed>>
    BY <1>0, <2>1, <2>2, <2>3, NetworkStep
  <2>4. CASE /\ push_config(Purged(bans), Held(owed, Purged(bans)))
             /\ disk' = AsLines(Purged(bans))
    <3>1. Purged(bans) \in Tables /\ Limits(Purged(bans))
      BY <1>0, PurgeLimits
    <3>2. /\ bans' = AsLines(Purged(bans)) /\ bans' \in Tables /\ Limits(bans')
          /\ toHub' \in Seq(SUBSET (Mask \X Lines)) /\ owed' \in [Mask -> Debts]
      BY <2>2, <2>4, <3>1, Pushes
    <3>3. Typed'
      BY <1>0, <2>1, <2>2, <2>4, <3>2 DEF Typed
    <3>4. AsLines(bans') = bans'
      BY <3>1, <3>2, LinesTwice
    <3>5. Saved' /\ Limits(bans)' /\ Limits(disk)'
      BY <2>4, <3>2, <3>4 DEF Saved, AsLines, Limits, Known, Active
    <3>6. ASSUME NEW m \in Mask PROVE ~Older(bans'[m], bans[m])
      <4>1. ~Older(AsLines(Purged(bans))[m], Purged(bans)[m])
        BY <3>1, LinesNotOlder
      <4>2. CASE bans[m].active
        <5>1. Purged(bans)[m] = bans[m]
          BY <4>2 DEF Purged
        <5> QED BY <3>2, <4>1, <5>1
      <4>3. CASE ~bans[m].active
        <5>1. bans'[m] = NoBan
          BY <3>2, <4>3, NoBanRecord DEF Purged, AsLines
        <5> QED BY <5>1 DEF Older
      <4> QED BY <4>2, <4>3
    <3> QED BY <3>3, <3>5, <3>6 DEF Inv, NoneOlder
  <2> QED BY <2>1, <2>3, <2>4
<1>7. CASE FlushConfig
  <2>1. UNCHANGED <<bans, toHub, toBot, hub, clock, owed>> /\ disk' = AsLines(bans)
    BY <1>7 DEF FlushConfig, AsLines
  <2>2. disk' \in Tables /\ Limits(disk') /\ AsLines(disk') = disk'
    BY <1>0, <2>1, LineLimits, LinesTwice
  <2>3. Typed' /\ Saved' /\ Limits(bans)' /\ Limits(disk)'
    BY <1>0, <2>1, <2>2 DEF Typed, Saved, AsLines, Limits, Known, Active
  <2> QED BY <2>1, <2>3, SameBans DEF Inv
<1>8. CASE Restart
  <2>1. /\ bans' = disk /\ dirty' = FALSE /\ disk' = disk /\ toHub' = <<>> /\ toBot' = <<>>
        /\ owed' = [m \in Mask |-> "none"] /\ UNCHANGED <<hub, clock>>
    BY <1>8, Zenon DEF Restart
  <2>2. Typed' /\ Limits(bans)' /\ Limits(disk)'
    BY <1>0, <2>1, EmptySeq DEF Typed, Limits, Known, Active, Debts
  <2>3. Saved'
    BY <2>1 DEF Inv, Saved, AsLines
  <2>4. ASSUME NEW m \in Mask, Older(bans'[m], bans[m]) PROVE dirty
    <3>1. CASE dirty
      BY <3>1
    <3>2. CASE ~dirty
      <4>1. bans' = AsLines(bans)
        BY <2>1, <3>2 DEF Inv, Saved
      <4> QED BY <1>0, <2>4, <4>1, LinesNotOlder
    <3> QED BY <3>1, <3>2
  <2> QED BY <2>1, <2>2, <2>3, <2>4 DEF Inv, NoneOlder
<1>9. CASE Tick
  <2>1. UNCHANGED <<bans, dirty, disk, toHub, toBot, hub, owed>> /\ clock' \in 1..MaxTs
    BY <1>0, <1>9, Consts DEF Tick
  <2> QED BY <1>0, <2>1, NetworkStep
<1>10. CASE HubReceive
  <2>1. /\ toHub # <<>> /\ toHub' = Tail(toHub) /\ UNCHANGED <<bans, dirty, disk, toBot, clock>>
        /\ hub' = [m \in Mask |->
                     IF \E f \in Head(toHub) : f[1] = m /\ HubTakes(m, f[2])
                     THEN (CHOOSE f \in Head(toHub) : f[1] = m)[2] ELSE hub[m]]
        /\ owed' = [m \in Mask |-> IF <<m, Line(bans[m])>> \in Head(toHub)
                                   THEN "none" ELSE owed[m]]
    BY <1>10, Zenon DEF HubReceive
  <2>2. Head(toHub) \in SUBSET (Mask \X Lines) /\ Tail(toHub) \in Seq(SUBSET (Mask \X Lines))
    BY <1>0, <2>1, HeadTailProperties
  <2>3. ASSUME NEW m \in Mask, \E f \in Head(toHub) : f[1] = m
        PROVE  (CHOOSE f \in Head(toHub) : f[1] = m)[2] \in Records
    <3>1. (CHOOSE f \in Head(toHub) : f[1] = m) \in Head(toHub)
      BY <2>3
    <3>2. (CHOOSE f \in Head(toHub) : f[1] = m) \in Mask \X Lines
      BY <2>2, <3>1
    <3>3. \A g \in Mask \X Lines : g[2] \in Records
      BY DEF Records
    <3> QED BY <3>2, <3>3
  <2>4. \A m \in Mask : hub'[m] \in Records
    BY <1>0, <2>1, <2>3, Zenon DEF Tables
  <2>5. hub' \in Tables /\ owed' \in [Mask -> Debts]
    BY <1>0, <2>1, <2>4 DEF Tables, Debts
  <2> QED BY <1>0, <2>1, <2>2, <2>5, NetworkStep
<1>11. ASSUME NEW m \in Mask, HubSend(m) PROVE Inv' /\ NoneOlder
  <2>1. /\ UNCHANGED <<bans, dirty, disk, toHub, hub, clock, owed>> /\ hub[m] # NoBan
        /\ toBot' = Append(toBot, <<m, hub[m]>>)
    BY <1>11 DEF HubSend, Known
  <2>2. hub[m] \in Lines
    BY <1>0, <2>1 DEF Tables, Records
  <2>3. <<m, hub[m]>> \in FromHub
    BY <2>2 DEF FromHub
  <2>4. toBot' \in Seq(FromHub)
    BY <1>0, <2>1, <2>3, AppendProperties
  <2> QED BY <1>0, <2>1, <2>4, NetworkStep
<1>12. ASSUME NEW m \in Mask, NEW a \in BOOLEAN, HubChange(m, a) PROVE Inv' /\ NoneOlder
  <2> DEFINE t == IF hub[m] = NoBan THEN clock ELSE lww_next_ts(clock, hub[m].ts)
             w == IF a THEN "other" ELSE hub[m].setter
             r == [ts |-> t, active |-> a, pend |-> FALSE, setter |-> w]
  <2>1. /\ UNCHANGED <<bans, dirty, disk, toHub, toBot, clock, owed>> /\ a # hub[m].active
        /\ t <= MaxTs
        /\ hub' = [hub EXCEPT ![m] = [ts |-> t, active |-> a, pend |-> FALSE,
                                      setter |-> IF a THEN "other" ELSE @.setter]]
    BY <1>12, Zenon DEF HubChange
  <2>2. hub[m] \in Records /\ hub[m].ts \in Nat
    BY <1>0, LineRecord DEF Tables
  <2>3. t \in 1..MaxTs
    BY <1>0, <2>1, <2>2, Consts DEF lww_next_ts
  <2>4. w \in Setter
    <3>1. CASE a
      BY <3>1 DEF Setter
    <3>2. CASE ~a
      <4>1. hub[m] # NoBan
        BY <2>1, <3>2, NoBanRecord, Zenon
      <4>2. hub[m] \in Stored
        BY <2>2, <4>1 DEF Records, Lines
      <4>3. hub[m].setter \in Setter
        BY <4>2, Zenon DEF Stored
      <4> QED BY <3>2, <4>3
    <3> QED BY <3>1, <3>2
  <2>5. r \in Stored /\ r.pend = FALSE
    <3> HIDE DEF t, w
    <3> QED BY <2>3, <2>4, MadeRecord, Zenon
  <2>6. r \in Records
    BY <2>5, Zenon DEF Records, Lines, Marked
  <2>7. hub' = [hub EXCEPT ![m] = r]
    BY <1>0, <2>1 DEF Tables
  <2>8. hub' \in Tables
    <3> HIDE DEF r
    <3> QED BY <1>0, <2>6, <2>7 DEF Tables
  <2> QED BY <1>0, <2>1, <2>8, NetworkStep
<1>13. CASE HubPurge
  <2>1. /\ UNCHANGED <<bans, dirty, disk, toHub, clock, owed>> /\ hub' = Purged(hub)
        /\ toBot' = toBot \/ toBot' = Append(toBot, <<"PURGE">>)
    BY <1>13 DEF HubPurge, Purged
  <2>2. hub' \in Tables
    BY <1>0, <2>1, NoBanRecord DEF Purged, Tables
  <2>3. toBot' \in Seq(FromHub)
    <3>1. <<"PURGE">> \in FromHub
      BY DEF FromHub
    <3>2. \A e \in FromHub : Append(toBot, e) \in Seq(FromHub)
      BY <1>0, AppendProperties
    <3> QED BY <1>0, <2>1, <3>1, <3>2, Zenon
  <2> QED BY <1>0, <2>1, <2>2, <2>3, NetworkStep
<1>14. CASE UNCHANGED vars
  BY <1>0, <1>14, NetworkStep DEF vars
<1> QED BY <1>1, <1>2, <1>3, <1>4, <1>5, <1>6, <1>7, <1>8, <1>9, <1>10, <1>11, <1>12, <1>13,
           <1>14 DEF Next

LEMMA Invariant == Spec => []Inv
<1>1. Inv /\ [Next]_vars => Inv'
  BY StepInv
<1> QED BY InitInv, <1>1, PTL DEF Spec

\* The table and the active bans keep their limits, in memory and in the
\* file, whatever is stored, revived, evicted and purged (ban_store,
\* ban_slot, ban_active_room).
THEOREM LimitsKept == Spec => []WithinLimits
<1>1. Inv => WithinLimits
  BY DEF Inv, Limits, WithinLimits
<1> QED BY Invariant, <1>1, PTL

\* No record gives way to an older one, and no removal to the ban it removed,
\* but by a restart before the debounced write (lww_accepts, ban_store,
\* apply_purge, config load).
THEOREM NewestKept == Spec => NeverOlder
<1>1. Inv /\ [Next]_vars => [\A m \in Mask : Older(bans'[m], bans[m]) => dirty /\ bans' = disk]_vars
  BY StepInv DEF NoneOlder
<1> QED BY Invariant, <1>1, PTL DEF Spec, NeverOlder
---------------------------------------------------------------------------
(***************************************************************************)
(* The bans the bot wrote itself.                                          *)
(***************************************************************************)

\* A push sends every marked ban the bot owes, but those it has no room for;
\* frames under way stay so.
LEMMA PushesOwed ==
    ASSUME Inv, NEW t \in Tables, Limits(t), NEW o \in [Mask -> Debts], push_config(t, o)
    PROVE  /\ \A m \in Mask : o[m] = "bot" /\ owed'[m] = "bot" /\ t[m].pend =>
                 \E k \in 1..Len(toHub') : <<m, Line(t[m])>> \in toHub'[k]
           /\ \A m \in Mask : owed'[m] = "bot" => o[m] = "bot"
           /\ \A f : (\E k \in 1..Len(toHub) : f \in toHub[k]) =>
                     \E k \in 1..Len(toHub') : f \in toHub'[k]
<1> DEFINE P == Pending(t)
<1>1. P \subseteq Known(t) /\ Known(t) \subseteq Mask /\ P \subseteq Mask
  BY DEF Pending, Known
<1>2. Cardinality(P) \in Nat
  <2> HIDE DEF P
  <2> QED BY <1>1, Finite
<1>3. PICK p \in generate_config_payload(t) :
           /\ toHub' = IF p = {} THEN toHub ELSE Append(toHub, p)
           /\ owed' = Cut(o, t, p)
  BY DEF push_config
<1>4. ASSUME NEW m \in Mask, o[m] = "bot", owed'[m] = "bot", t[m].pend
      PROVE  <<m, Line(t[m])>> \in p
  <2>1. m \in P
    <3>1. t[m] # NoBan
      BY <1>4, NoBanRecord, Zenon
    <3>2. t[m] \in Lines
      BY <3>1 DEF Tables, Records
    <3>3. t[m].setter = "me"
      BY <1>4, <3>2, Zenon DEF Lines, Marked
    <3> QED BY <1>4, <3>1, <3>3, Zenon DEF Pending, Known
  <2>2. CASE Cardinality(P) > PushCap
    BY <1>3, <1>4, <2>1, <2>2 DEF Cut
  <2>3. CASE ~(Cardinality(P) > PushCap)
    <3>1. Min({PushCap, Cardinality(P)}) = Cardinality(P)
      <4> HIDE DEF P
      <4> QED BY <1>2, <2>3, Consts DEF Min
    <3>2. PICK S \in kSubset(Cardinality(P), P) : p = {<<k, Line(t[k])>> : k \in S}
      BY <1>3, <3>1 DEF generate_config_payload
    <3>3. S = P
      <4> HIDE DEF P
      <4> QED BY <1>1, <3>2, Finite DEF kSubset
    <3> QED BY <2>1, <3>2, <3>3
  <2> QED BY <2>2, <2>3
<1>5. ASSUME NEW m \in Mask, owed'[m] = "bot" PROVE o[m] = "bot"
  BY <1>3, <1>5 DEF Cut
<1>6. toHub \in Seq(SUBSET (Mask \X Lines))
  BY DEF Inv, Typed
<1>7. CASE p = {}
  BY <1>3, <1>4, <1>5, <1>7
<1>8. CASE p # {}
  <2>1. toHub' = Append(toHub, p)
    BY <1>3, <1>8
  <2>2. /\ Len(toHub') = Len(toHub) + 1 /\ toHub'[Len(toHub) + 1] = p /\ Len(toHub) \in Nat
        /\ \A k \in 1..Len(toHub) : toHub'[k] = toHub[k]
    BY <1>6, <2>1
  <2> QED BY <1>4, <1>5, <2>2
<1> QED BY <1>7, <1>8

\* What owed says of a mask still holds when the record and the frames that
\* carry it are still there.
LEMMA StillOwed ==
    ASSUME OwnBansReachHub, NEW m \in Mask, owed[m] = "bot",
           bans'[m] = bans[m],
           \A f : (\E k \in 1..Len(toHub) : f \in toHub[k]) =>
                  \E k \in 1..Len(toHub') : f \in toHub'[k]
    PROVE  bans'[m].pend \/ UnderWay(m)'
<1>1. bans[m].pend \/ UnderWay(m)
  BY DEF OwnBansReachHub
<1>2. CASE bans[m].pend
  BY <1>2, Zenon
<1>3. CASE UnderWay(m)
  BY <1>3 DEF UnderWay
<1> QED BY <1>1, <1>2, <1>3

\* Every step keeps OwnBansReachHub.
LEMMA StepOwed ==
    ASSUME Inv, OwnBansReachHub, [Next]_vars
    PROVE  OwnBansReachHub'
<1>0. /\ bans \in Tables /\ toHub \in Seq(SUBSET (Mask \X Lines)) /\ toBot \in Seq(FromHub)
      /\ owed \in [Mask -> Debts] /\ Limits(bans)
  BY DEF Inv, Typed
<1> SUFFICES ASSUME NEW m \in Mask, owed'[m] = "bot" PROVE bans'[m].pend \/ UnderWay(m)'
  BY DEF OwnBansReachHub
<1>1. ASSUME NEW k \in Mask, NEW r \in Lines, NEW by \in {"bot", "admin"}, Write(k, r, by),
             by = "bot" => r.pend = TRUE
      PROVE  bans'[m].pend \/ UnderWay(m)'
  <2>1. PICK t \in ban_store(bans, k, r) :
           \/ /\ bans' = [t EXCEPT ![k].pend = FALSE]
              /\ toHub' = Append(toHub, {<<k, Line(r)>>})
              /\ owed' = Held([owed EXCEPT ![k] = by], t)
           \/ /\ bans' = t /\ owed' = Held([owed EXCEPT ![k] = by], t) /\ toHub' = toHub
           \/ /\ bans' = t /\ toHub' = <<>> /\ owed' = Held([Lost(owed) EXCEPT ![k] = by], t)
    BY <1>1, Zenon DEF Write
  <2>2. /\ t \in Tables /\ t[k] = r /\ r \in Records
        /\ \A j \in Mask \ {k} : t[j] = bans[j] \/ t[j] = NoBan
    BY <1>0, Stores DEF Records
  <2>3. /\ t[m] # NoBan
        /\ m = k => by = "bot"
        /\ m # k => owed[m] = "bot" /\ t[m] = bans[m]
    BY <1>0, <2>1, <2>2 DEF Held, Lost
  <2>4. CASE bans' = t /\ m = k
    BY <1>1, <2>2, <2>3, <2>4, Zenon
  <2>5. CASE bans' = t /\ m # k /\ toHub' = toHub
    BY <2>3, <2>5, StillOwed
  <2>6. CASE bans' = t /\ m # k /\ owed' = Held([Lost(owed) EXCEPT ![k] = by], t)
    <3>1. ~UnderWay(m)
      BY <1>0, <2>6 DEF Held, Lost
    <3>2. bans[m].pend
      BY <2>3, <2>6, <3>1 DEF OwnBansReachHub
    <3> QED BY <2>3, <2>6, <3>2, Zenon
  <2>7. CASE bans' = [t EXCEPT ![k].pend = FALSE] /\ toHub' = Append(toHub, {<<k, Line(r)>>})
    <3>1. bans'[k] = Line(r) /\ (m # k => bans'[m] = t[m])
      BY <2>2, <2>7, Zenon DEF Tables, Line
    <3>2. /\ Len(toHub') = Len(toHub) + 1 /\ toHub'[Len(toHub) + 1] = {<<k, Line(r)>>}
          /\ Len(toHub) \in Nat /\ \A j \in 1..Len(toHub) : toHub'[j] = toHub[j]
      BY <1>0, <2>7
    <3>3. CASE m = k
      <4>1. Line(bans'[m]) = Line(r)
        BY <2>2, <3>1, <3>3, LineRecord
      <4> QED BY <3>2, <3>3, <4>1 DEF UnderWay
    <3>4. CASE m # k
      <4>1. bans'[m] = bans[m] /\ owed[m] = "bot"
        BY <2>3, <3>1, <3>4
      <4>2. \A f : (\E j \in 1..Len(toHub) : f \in toHub[j]) =>
                   \E j \in 1..Len(toHub') : f \in toHub'[j]
        BY <3>2
      <4> QED BY <4>1, <4>2, StillOwed
    <3> QED BY <3>3, <3>4
  <2> QED BY <2>1, <2>4, <2>5, <2>6, <2>7
<1>2. ASSUME NEW k \in Mask, NEW del \in BOOLEAN, bot_ban(k, del)
      PROVE  bans'[m].pend \/ UnderWay(m)'
  <2>1. Write(k, BotRecord(k, del), "bot")
    BY <1>2 DEF bot_ban
  <2>2. BotRecord(k, del).ts <= MaxTs
    BY <2>1 DEF Write
  <2>3. BotRecord(k, del) \in Lines /\ BotRecord(k, del).pend = TRUE
    BY <2>2, BotLine DEF Inv
  <2> QED BY <1>1, <2>1, <2>3
<1>3. ASSUME NEW k \in Mask, NEW del \in BOOLEAN, local_ban(k, del)
      PROVE  bans'[m].pend \/ UnderWay(m)'
  <2>1. Write(k, AdminRecord(k, del), "admin") /\ (del => bans[k].active)
    BY <1>3, Zenon DEF local_ban, AdminRecord
  <2>2. AdminRecord(k, del).ts <= MaxTs
    BY <2>1 DEF Write
  <2>3. AdminRecord(k, del) \in Lines
    BY <2>1, <2>2, AdminLine DEF Inv
  <2> QED BY <1>1, <2>1, <2>3
<1>4. ASSUME NEW t \in Tables, Limits(t), NEW o \in [Mask -> Debts], push_config(t, o),
             t[m] = bans[m], o[m] = "bot" => owed[m] = "bot"
      PROVE  bans'[m].pend \/ UnderWay(m)'
  <2>1. bans'[m] = Line(bans[m]) /\ bans[m] \in Records
    BY <1>0, <1>4 DEF push_config, Tables
  <2>2. Line(bans'[m]) = Line(bans[m])
    BY <2>1, LineRecord
  <2>3. \E k \in 1..Len(toHub') : <<m, Line(bans[m])>> \in toHub'[k]
    <3>0. o[m] = "bot"
      BY <1>4, PushesOwed
    <3>1. bans[m].pend \/ UnderWay(m)
      BY <1>4, <3>0 DEF OwnBansReachHub
    <3>2. CASE bans[m].pend
      BY <1>4, <3>0, <3>2, PushesOwed
    <3>3. CASE UnderWay(m)
      BY <1>4, <3>3, PushesOwed DEF UnderWay
    <3> QED BY <3>1, <3>2, <3>3
  <2> QED BY <2>2, <2>3 DEF UnderWay
<1>5. CASE handle_ack
  <2>1. push_config(bans, owed)
    BY <1>5, Zenon DEF handle_ack
  <2> QED BY <1>0, <1>4, <2>1
<1>6. CASE apply_purge
  <2>1. \/ UNCHANGED <<bans, toHub, owed>>
        \/ push_config(Purged(bans), Held(owed, Purged(bans)))
    BY <1>6 DEF apply_purge, Purged
  <2>2. CASE UNCHANGED <<bans, toHub, owed>>
    BY <2>2, StillOwed
  <2>3. CASE push_config(Purged(bans), Held(owed, Purged(bans)))
    <3>1. Purged(bans) \in Tables /\ Limits(Purged(bans))
      BY <1>0, PurgeLimits
    <3>2. Held(owed, Purged(bans)) \in [Mask -> Debts]
      BY <1>0, HeldType
    <3>3. Held(owed, Purged(bans))[m] = "bot"
      BY <2>3, <3>1, <3>2, PushesOwed
    <3>4. Purged(bans)[m] # NoBan /\ owed[m] = "bot"
      BY <3>3 DEF Held
    <3>5. Purged(bans)[m] = bans[m]
      BY <3>4 DEF Purged
    <3> QED BY <1>4, <2>3, <3>1, <3>2, <3>4, <3>5
  <2> QED BY <2>1, <2>2, <2>3
<1>7. CASE apply_b_line
  <2>1. /\ toBot # <<>> /\ Head(toBot) # <<"PURGE">> /\ toHub' = toHub
        /\ owed' = IF bans' = bans THEN owed
                   ELSE Held([owed EXCEPT ![Head(toBot)[1]] = "none"], bans')
        /\ bans' = bans \/ bans' \in ban_store(bans, Head(toBot)[1], Head(toBot)[2])
    BY <1>7 DEF apply_b_line
  <2>2. Head(toBot) \in FromHub
    BY <1>0, <2>1, HeadTailProperties
  <2>3. Head(toBot)[1] \in Mask /\ Head(toBot)[2] \in Lines
    BY <2>1, <2>2 DEF FromHub
  <2>4. CASE bans' = bans
    BY <2>1, <2>4, StillOwed
  <2>5. CASE bans' # bans
    <3>1. bans' \in ban_store(bans, Head(toBot)[1], Head(toBot)[2])
      BY <2>1, <2>5
    <3>2. \A j \in Mask \ {Head(toBot)[1]} : bans'[j] = bans[j] \/ bans'[j] = NoBan
      BY <1>0, <2>3, <3>1, Stores
    <3>3. m # Head(toBot)[1] /\ owed[m] = "bot" /\ bans'[m] # NoBan
      BY <1>0, <2>1, <2>3, <2>5 DEF Held
    <3> QED BY <2>1, <3>2, <3>3, StillOwed
  <2> QED BY <2>4, <2>5
<1>8. CASE Drop
  <2>1. bans' = bans /\ owed' = Lost(owed)
    BY <1>8, Zenon DEF Drop
  <2>2. owed[m] = "bot" /\ ~UnderWay(m)
    BY <2>1 DEF Lost
  <2>3. bans[m].pend
    BY <2>2 DEF OwnBansReachHub
  <2> QED BY <2>1, <2>3, Zenon
<1>9. CASE Restart
  BY <1>9 DEF Restart
<1>10. CASE HubReceive
  <2>1. /\ toHub # <<>> /\ toHub' = Tail(toHub) /\ bans' = bans
        /\ owed[m] = "bot" /\ <<m, Line(bans[m])>> \notin Head(toHub)
    BY <1>10 DEF HubReceive
  <2>2. bans[m].pend \/ UnderWay(m)
    BY <2>1 DEF OwnBansReachHub
  <2>3. CASE bans[m].pend
    BY <2>1, <2>3, Zenon
  <2>4. CASE UnderWay(m)
    <3>1. PICK k \in 1..Len(toHub) : <<m, Line(bans[m])>> \in toHub[k]
      BY <2>4 DEF UnderWay
    <3>2. k # 1
      BY <2>1, <3>1
    <3>3. k - 1 \in 1..Len(toHub') /\ toHub'[k - 1] = toHub[k]
      BY <1>0, <2>1, <3>1, <3>2
    <3> QED BY <2>1, <3>1, <3>3 DEF UnderWay
  <2> QED BY <2>2, <2>3, <2>4
<1>11. CASE UNCHANGED <<bans, toHub, owed>>
  BY <1>11, StillOwed
<1>12. CASE FlushConfig \/ Tick \/ HubPurge \/ UNCHANGED vars
  BY <1>11, <1>12, Zenon DEF FlushConfig, Tick, HubPurge, vars
<1>13. ASSUME NEW k \in Mask, HubSend(k) \/ \E a \in BOOLEAN : HubChange(k, a)
       PROVE  bans'[m].pend \/ UnderWay(m)'
  BY <1>11, <1>13, Zenon DEF HubSend, HubChange
<1> QED BY <1>2, <1>3, <1>5, <1>6, <1>7, <1>8, <1>9, <1>10, <1>12, <1>13 DEF Next

\* Until it arrives, an own ban or its removal is under way or marked, unless a
\* push was full without it; a push that has room for all marked bans leaves none
\* out (bot_ban, push_config, generate_config_payload, drop_link).
THEOREM OwnBansPushed == Spec => []OwnBansReachHub
<1>1. Init => OwnBansReachHub
  BY DEF Init, OwnBansReachHub
<1>2. Inv /\ OwnBansReachHub /\ [Next]_vars => OwnBansReachHub'
  BY StepOwed
<1> QED BY Invariant, <1>1, <1>2, PTL DEF Spec
=============================================================================
