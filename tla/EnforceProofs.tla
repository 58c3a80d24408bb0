--------------------------- MODULE EnforceProofs ---------------------------
(***************************************************************************)
(* Enforcement in a channel (Enforce), for any bots, users, masks and      *)
(* settings, any delays and any number of acts:                            *)
(*   OneActs            once all is read, each job has exactly one holder, *)
(*   SparesAuthorised   no line against an authorised user leaves a bot,   *)
(*   QuietBackups       the bots whose rank is not 0 keep quiet.           *)
(***************************************************************************)
EXTENDS Enforce, SequenceTheorems, FiniteSetTheorems, TLAPS

\* The place of b among the bots of D, counted from 0.
Before(D, b) == {x \in D : Deal[x] < Deal[b]}
Pos(D, b) == Cardinality(Before(D, b))

LEMMA Dealing ==
    /\ IsFiniteSet(Bot) /\ Bot \cap User = {}
    /\ \A b \in Bot : Deal[b] \in Nat
    /\ \A a, b \in Bot : Deal[a] = Deal[b] => a = b
    /\ BanTypes \in Seq(Mask)
BY EnforceAssumption DEF EnforceAssumption

\* Going round n places from p, r of them back, ends at 0 for p = r only.
LEMMA RoundTrip ==
    ASSUME NEW n \in Nat \ {0}, NEW p \in 0..n - 1, NEW r \in 0..n - 1
    PROVE  (p + n - r) % n = 0 <=> p = r
<1> DEFINE x == p + n - r
           d == x \div n
<1>1. x \in Int /\ d \in Int /\ x % n \in 0..n - 1 /\ x = n * d + (x % n)
  OBVIOUS
<1>2. ASSUME x % n = 0 PROVE p = r
  <2>1. x = n * d /\ x > 0 /\ x < n + n
    BY <1>1, <1>2
  <2>2. d > 0
    <3>1. ASSUME d <= 0 PROVE n * d <= 0
      BY <1>1, <3>1
    <3> HIDE DEF d, x
    <3> QED BY <1>1, <2>1, <3>1
  <2>3. d < 2
    <3>1. ASSUME d >= 2 PROVE n * d >= n + n
      BY <1>1, <3>1
    <3> HIDE DEF d, x
    <3> QED BY <1>1, <2>1, <3>1
  <2>4. d = 1
    <3> HIDE DEF d
    <3> QED BY <1>1, <2>2, <2>3
  <2>5. x = n
    <3> HIDE DEF d, x
    <3> QED BY <2>1, <2>4
  <2> QED BY <2>5
<1>3. ASSUME p = r PROVE x % n = 0
  <2>1. x = n
    BY <1>3
  <2>2. n % n = 0
    OBVIOUS
  <2> QED BY <2>1, <2>2
<1> QED BY <1>2, <1>3

\* The places are 0, 1, ... without gaps or ties.
LEMMA Places ==
    ASSUME NEW D \in SUBSET Bot, D # {}
    PROVE  /\ Cardinality(D) \in Nat \ {0}
           /\ \A b \in D : Pos(D, b) \in 0..Cardinality(D) - 1
           /\ \A r \in 0..Cardinality(D) - 1 : \E b \in D : \A a \in D : Pos(D, a) = r <=> a = b
<1> DEFINE n == Cardinality(D)
<1>1. IsFiniteSet(D) /\ n \in Nat /\ n # 0
  BY Dealing, FS_Subset, FS_CardinalityType, FS_EmptySet
<1>2. ASSUME NEW b \in D
      PROVE  IsFiniteSet(Before(D, b)) /\ Pos(D, b) \in Nat /\ Pos(D, b) < n
  <2>1. Before(D, b) \in SUBSET D /\ b \notin Before(D, b)
    BY Dealing DEF Before
  <2>2. IsFiniteSet(Before(D, b)) /\ Cardinality(Before(D, b)) \in Nat
    BY <1>1, <2>1, FS_Subset, FS_CardinalityType
  <2>3. Cardinality(Before(D, b)) <= n /\ Cardinality(Before(D, b)) # n
    BY <1>1, <2>1, FS_Subset
  <2> QED BY <1>1, <2>2, <2>3 DEF Pos
<1>3. ASSUME NEW a \in D, NEW b \in D, Deal[a] < Deal[b] PROVE Pos(D, a) < Pos(D, b)
  <2>1. Before(D, a) \in SUBSET Before(D, b) /\ a \in Before(D, b) /\ a \notin Before(D, a)
    BY <1>3, Dealing DEF Before
  <2>2. /\ Cardinality(Before(D, a)) <= Cardinality(Before(D, b))
        /\ Cardinality(Before(D, a)) # Cardinality(Before(D, b))
    BY <1>2, <2>1, FS_Subset
  <2> QED BY <1>2, <2>2 DEF Pos
<1>4. ASSUME NEW a \in D, NEW b \in D, Pos(D, a) = Pos(D, b) PROVE a = b
  <2>1. Pos(D, a) \in Nat /\ Pos(D, b) \in Nat
    BY <1>2
  <2>2. ~(Deal[a] < Deal[b]) /\ ~(Deal[b] < Deal[a])
    BY <1>3, <1>4, <2>1
  <2> QED BY <2>2, Dealing
<1> DEFINE f == [b \in D |-> Pos(D, b)]
<1>5. f \in [D -> 0..n - 1]
  BY <1>1, <1>2
<1>6. f \in Injection(D, 0..n - 1)
  BY <1>4, <1>5 DEF Injection, IsInjective
<1>7. IsFiniteSet(0..n - 1) /\ Cardinality(0..n - 1) = n
  BY <1>1, FS_Interval, SMTT(30), ZenonT(30)
<1>8. f \in Surjection(D, 0..n - 1)
  BY <1>6, <1>7, FS_Injection
<1>9. ASSUME NEW r \in 0..n - 1
      PROVE  \E b \in D : \A a \in D : Pos(D, a) = r <=> a = b
  <2>1. PICK b \in D : f[b] = r
    BY <1>8 DEF Surjection
  <2> QED BY <1>4, <2>1
<1> QED BY <1>1, <1>2, <1>9

\* Among the bots of D, one holds each job.
LEMMA OneOf ==
    ASSUME NEW D \in SUBSET Bot, D # {}, NEW job \in Nat
    PROVE  LET n == Cardinality(D)
           IN  Cardinality({b \in D : (Pos(D, b) + n - (job % n)) % n = 0}) = 1
<1> DEFINE n == Cardinality(D)
           H == {b \in D : (Pos(D, b) + n - (job % n)) % n = 0}
<1>1. n \in Nat \ {0} /\ \A b \in D : Pos(D, b) \in 0..n - 1
  BY Places
<1>2. job % n \in 0..n - 1
  BY <1>1
<1>3. PICK b \in D : \A a \in D : Pos(D, a) = job % n <=> a = b
  BY <1>2, Places
<1>4. \A a \in D : (Pos(D, a) + n - (job % n)) % n = 0 <=> a = b
  <2> HIDE DEF n
  <2> QED BY <1>1, <1>2, <1>3, RoundTrip
<1>5. H = {b}
  BY <1>4
<1> QED BY <1>5, FS_Singleton

---------------------------------------------------------------------------
(***************************************************************************)
(* What the actions of the bots do to their lines and their pictures.      *)
(***************************************************************************)
Fields == {"in", "opped", "roster", "ops", "known", "clean", "listed", "bans", "check",
           "jobs", "recent", "passed", "offended"}
LineActs == {"deop", "reop", "kick", "ban", "unban", "mode"}
IsJob(j) == "act" \in DOMAIN j /\ j.act \in LineActs \cup {"bannuh"}

\* The lines that may leave a bot whose picture is v: none against the authorised.
Spares(v, l) == /\ l.act \in {"deop", "kick"} => ~Authorised(l.tgt)
                /\ l.act = "ban" => \A x \in auth : Matches(l.tgt, x) =>
                                        x \notin v.roster /\ l.tgt \in v.passed

IsTable(f) == f = [b \in Bot |-> f[b]]

\* The part of a bot's picture the deal depends on stays.
SameDeal(v, w) == v.in = w.in /\ v.opped = w.opped /\ v.roster = w.roster /\ v.ops = w.ops

IsView(v) == DOMAIN v = Fields /\ \A j \in v.jobs : IsJob(j)

LEMMA SparingLines ==
    ASSUME NEW b, NEW v, NEW J, NEW l \in LinesOf(b, v, J)
    PROVE  Spares(v, l) /\ (l.act \in LineActs \/ \E j \in J : ~IsJob(j))
<1>1. PICK j \in J : StillNeeded(b, v, j) /\ l \in LineOf(v, j)
  BY Zenon DEF LinesOf
<1>2. CASE j.act = "bannuh"
  <2>1. PICK m \in auto_ban_mask(v, j.tgt) : l = Line("ban", m)
    BY <1>1, <1>2 DEF LineOf
  <2>2. ban_allowed(v, m)
    BY <2>1 DEF auto_ban_mask, Fits
  <2>3. l.act = "ban" /\ l.tgt = m
    BY <2>1 DEF Line
  <2> QED BY <2>2, <2>3 DEF Spares, ban_allowed, Overlaps, LineActs
<1>3. CASE j.act # "bannuh"
  <2>1. l.act = j.act /\ l.tgt = j.tgt
    BY <1>1, <1>3 DEF LineOf, Line
  <2>2. j.act = "deop" => FairGame(j.tgt)
    BY <1>1 DEF StillNeeded
  <2>3. j.act = "kick" => FairGame(j.tgt)
    BY <1>1 DEF StillNeeded
  <2>4. j.act = "ban" => ~HitsAuthorised(v, j.tgt) /\ overlap_ok(v, j.tgt)
    BY <1>1 DEF StillNeeded
  <2>5. IsJob(j) => l.act \in LineActs
    BY <1>3, <2>1 DEF IsJob
  <2> QED BY <2>1, <2>2, <2>3, <2>4, <2>5 DEF Spares, FairGame, HitsAuthorised, Authorised, overlap_ok, Overlaps
<1> QED BY <1>2, <1>3

\* job_exec for a set of jobs.
LEMMA Executed ==
    ASSUME IsTable(out), NEW b \in Bot, NEW v, NEW J, Execute(b, v, J)
    PROVE  /\ IsTable(out')
           /\ \A x \in Bot : \A l \in out'[x] \ out[x] :
                 x = b /\ Spares(v, l) /\ (l.act \in LineActs \/ \E j \in J : ~IsJob(j))
<1>1. out' = [out EXCEPT ![b] = @ \cup LinesOf(b, v, J)]
  BY DEF Execute
<1>2. out'[b] = out[b] \cup LinesOf(b, v, J) /\ \A x \in Bot \ {b} : out'[x] = out[x]
  BY <1>1 DEF IsTable
<1>3. IsTable(out')
  BY <1>1 DEF IsTable
<1> QED BY <1>2, <1>3, SparingLines

\* The pictures after it: only windows and the reason to look have changed.
LEMMA Pictured ==
    ASSUME IsTable(me), NEW b \in Bot, NEW v, IsView(v), \A x \in Bot : IsView(me[x]),
           NEW J, Execute(b, v, J)
    PROVE  /\ IsTable(me') /\ SameDeal(v, me'[b])
           /\ \A x \in Bot : IsView(me'[x]) /\ (x # b => SameDeal(me[x], me'[x]))
<1> DEFINE lines == LinesOf(b, v, J)
           new == RecordsOf(v, J)
           sent == Banned(lines)
           vb == [v EXCEPT !.recent = @ \cup lines, !.passed = @ \cup sent]
           after == [me EXCEPT ![b] = vb]
<1>1. me' = IF new = {} THEN after ELSE [x \in Bot |-> [after[x] EXCEPT !.check = TRUE]]
  BY DEF Execute
<1> HIDE DEF lines, new, sent
<1>2. SameDeal(v, vb) /\ IsView(vb)
  BY DEF IsView, SameDeal, Fields
<1>3. after[b] = vb /\ IsTable(after) /\ \A x \in Bot \ {b} : after[x] = me[x]
  BY DEF IsTable
<1>4. \A x \in Bot : IsView(after[x])
  BY <1>2, <1>3
<1>5. \A x \in Bot : /\ IsView([after[x] EXCEPT !.check = TRUE])
                     /\ SameDeal(after[x], [after[x] EXCEPT !.check = TRUE])
  BY <1>4 DEF IsView, SameDeal, Fields
<1>6. SameDeal(v, after[b]) /\ \A x \in Bot \ {b} : SameDeal(me[x], after[x])
  BY <1>2, <1>3 DEF SameDeal
<1> HIDE DEF after
<1>7. CASE new = {}
  <2>1. me' = after
    BY <1>1, <1>7
  <2> QED BY <1>3, <1>4, <1>6, <2>1
<1>8. CASE new # {}
  <2>1. me' = [x \in Bot |-> [after[x] EXCEPT !.check = TRUE]]
    BY <1>1, <1>8
  <2>2. \A x \in Bot : me'[x] = [after[x] EXCEPT !.check = TRUE]
    BY <2>1
  <2>3. IsTable(me')
    BY <2>1 DEF IsTable
  <2> QED BY <1>5, <1>6, <2>2, <2>3, SMTT(30), ZenonT(30) DEF SameDeal
<1> QED BY <1>7, <1>8

\* job_submit runs some of the work and keeps some.
LEMMA Submitted ==
    ASSUME NEW b, NEW v, NEW S, Submit(b, v, S)
    PROVE  \E w, J : /\ Execute(b, w, J) /\ J \subseteq S
                     /\ IsView(v) /\ (\A j \in S : IsJob(j)) =>
                          IsView(w) /\ SameDeal(v, w) /\ w.passed = v.passed
<1> DEFINE mine == {j \in S : deal_rank(b, v, JobOf[j.act]) = 0}
           new == {[act |-> j.act, tgt |-> j.tgt, why |-> j.why, age |-> 0] :
                      j \in {k \in S \ mine : v.opped /\ ~Waiting(v, k)}}
<1>1. PICK K \in SUBSET new : Execute(b, [v EXCEPT !.jobs = @ \cup K], mine)
  BY SMTT(30), ZenonT(30) DEF Submit
<1> DEFINE w == [v EXCEPT !.jobs = @ \cup K]
<1>2. ASSUME IsView(v), \A j \in S : IsJob(j)
      PROVE  IsView(w) /\ SameDeal(v, w) /\ w.passed = v.passed
  <2>1. \A j \in K : IsJob(j)
    <3>1. ASSUME NEW j \in K PROVE IsJob(j)
      <4>1. PICK k \in S : j = [act |-> k.act, tgt |-> k.tgt, why |-> k.why, age |-> 0]
        OBVIOUS
      <4> QED BY <1>2, <4>1 DEF IsJob
    <3> QED BY <3>1
  <2> HIDE DEF mine, new
  <2>2. DOMAIN w = Fields /\ w.jobs = v.jobs \cup K
    BY <1>2 DEF IsView, Fields
  <2>3. SameDeal(v, w) /\ w.passed = v.passed
    BY <1>2 DEF IsView, Fields, SameDeal
  <2> QED BY <1>2, <2>1, <2>2, <2>3 DEF IsView
<1> QED BY <1>1, <1>2

\* Who may add lines: a bot that reads, sweeps or does what is due.
LEMMA OthersSilent ==
    ASSUME IsTable(out), [Next]_vars, ~\E b \in Bot : Read(b) \/ Sweep(b) \/ jobs_tick(b)
    PROVE  \A b \in Bot : out'[b] \subseteq out[b]
<1>1. ASSUME out' = out PROVE \A b \in Bot : out'[b] \subseteq out[b]
  BY <1>1
<1>2. ASSUME NEW b \in Bot, Rejoin(b) \/ GetOps(b) PROVE out' = out
  BY <1>2 DEF Rejoin, GetOps
<1>3. ASSUME NEW b \in Bot, NEW l, Take(b, l)
      PROVE  \A x \in Bot : out'[x] \subseteq out[x]
  <2>1. out' = [out EXCEPT ![b] = @ \ {l}]
    BY <1>3 DEF Take
  <2> QED BY <2>1 DEF IsTable
<1>4. ASSUME NEW b \in Bot, NEW l, WindowEnds(b, l) \/ CheckEnds(b, l) PROVE out' = out
  BY <1>4 DEF WindowEnds, CheckEnds
<1>5. ASSUME NEW b \in Bot, NEW q, Answer(b, q) PROVE out' = out
  BY <1>5 DEF Answer
<1>6. CASE Tick
  BY <1>1, <1>6 DEF Tick
<1>7. CASE Others
  <2>1. out' = out
    BY <1>7 DEF Others, UserOps, UserDeops, UserKicks, UserBans, UserModes, UserJoins, UserParts,
                 UserRenames, AdminBans, AdminBitch, Authorise, Quiet
  <2> QED BY <1>1, <2>1
<1>8. CASE UNCHANGED vars
  BY <1>1, <1>8 DEF vars
<1> QED BY <1>1, <1>2, <1>3, <1>4, <1>5, <1>6, <1>7, <1>8 DEF Next

---------------------------------------------------------------------------
(***************************************************************************)
(* One holder for every job.  A bot's picture lags behind the channel by   *)
(* the lines it has not read.  For each of them there was a pair of the    *)
(* bots that were members and the bots that had ops, of which the line     *)
(* made the next; the last pair is the channel's.                          *)
(***************************************************************************)
IsSeq(s) == \E S : s \in Seq(S)

\* The line e to bot b makes q of p.  Its own JOIN says nothing of the others.
Makes(b, e, p, q) ==
    /\ e.t = "+o" => q.m = p.m /\ q.o = p.o \cup ({e.u} \cap Bot) /\ (e.u \in Bot => e.u \in p.m)
    /\ e.t = "-o" => q.m = p.m /\ q.o = p.o \ {e.u}
    /\ e.t = "kick" => q.m = p.m \ {e.u} /\ q.o = p.o \ {e.u}
    /\ e.t = "join" /\ e.u = b => b \in q.m /\ b \notin q.o
    /\ e.t = "join" /\ e.u # b => q.m = p.m \cup ({e.u} \cap Bot) /\ q.o = p.o \ {e.u}
    /\ e.t \in {"part", "nick"} => e.u \in User
    /\ e.t = "nick" => e.w \in User
    /\ e.t = "who" => /\ e.ops \subseteq e.members
                      /\ b \in p.m => e.members \cap Bot = p.m /\ e.ops \cap Bot = p.o
                      /\ b \notin p.m => b \notin e.ops /\ b \notin p.o
    /\ e.t \notin {"+o", "-o", "kick", "join"} => q = p

\* The pair p is what the channel has, as far as bot b is told of it.
Ends(b, M, O, p) == IF b \in M THEN p.m = M \cap Bot /\ p.o = O \cap Bot
                               ELSE b \notin p.m /\ b \notin p.o

Story(b, box, M, O, h) == /\ Ends(b, M, O, h[Len(box)])
                          /\ \A k \in 1..Len(box) : Makes(b, box[k], h[k - 1], h[k])

\* The answer to a WHO is to come.
WhoToCome(box, q) == "who" \in q \/ \E k \in 1..Len(box) : box[k].t = "who"

\* The picture v shows p, or part of it before the answer to a WHO.
Shows(b, v, waits, p) ==
    /\ (v.in <=> b \in p.m) /\ (v.opped <=> b \in p.o) /\ v.ops \subseteq v.roster
    /\ b \in p.m => /\ v.roster \cap Bot \subseteq p.m
                    /\ waits \/ (v.roster \cap Bot = p.m /\ v.ops \cap Bot = p.o)

Knows(b, v, box, q, M, O) ==
    \E h : Story(b, box, M, O, h) /\ Shows(b, v, WhoToCome(box, q), h[0])

Queries == {"who", "modes", "bans"}

DealInv ==
    /\ ops \subseteq members
    /\ IsTable(out) /\ IsTable(inbox) /\ IsTable(ask) /\ IsTable(me)
    /\ \A b \in Bot : /\ IsSeq(inbox[b]) /\ IsView(me[b]) /\ ask[b] \subseteq Queries
                      /\ \A l \in out[b] : l.act \in LineActs
                      /\ Knows(b, me[b], inbox[b], ask[b], members, ops)

LEMMA SeqFacts ==
    ASSUME NEW s, IsSeq(s)
    PROVE  /\ Len(s) \in Nat
           /\ \A e : /\ IsSeq(Append(s, e)) /\ Len(Append(s, e)) = Len(s) + 1
                     /\ Append(s, e)[Len(s) + 1] = e
                     /\ \A k \in 1..Len(s) : Append(s, e)[k] = s[k]
           /\ s # <<>> => /\ IsSeq(Tail(s)) /\ Len(s) > 0 /\ Len(Tail(s)) = Len(s) - 1
                          /\ Head(s) = s[1]
                          /\ \A k \in 1..Len(s) - 1 : Tail(s)[k] = s[k + 1]
<1>1. PICK S : s \in Seq(S)
  BY DEF IsSeq
<1>2. Len(s) \in Nat
  BY <1>1
<1>3. ASSUME NEW e
      PROVE  /\ IsSeq(Append(s, e)) /\ Len(Append(s, e)) = Len(s) + 1
             /\ Append(s, e)[Len(s) + 1] = e
             /\ \A k \in 1..Len(s) : Append(s, e)[k] = s[k]
  <2>1. s \in Seq(S \cup {e})
    BY <1>1
  <2>2. Append(s, e) \in Seq(S \cup {e})
    BY <2>1
  <2> QED BY <2>1, <2>2 DEF IsSeq
<1>4. ASSUME s # <<>>
      PROVE  /\ IsSeq(Tail(s)) /\ Len(s) > 0 /\ Len(Tail(s)) = Len(s) - 1 /\ Head(s) = s[1]
             /\ \A k \in 1..Len(s) - 1 : Tail(s)[k] = s[k + 1]
  <2>1. Tail(s) \in Seq(S)
    BY <1>1, <1>4
  <2> QED BY <1>1, <1>4, <2>1 DEF IsSeq
<1> QED BY <1>2, <1>3, <1>4

\* A step that b is not told of.
LEMMA NotTold ==
    ASSUME NEW b, NEW v, NEW w, NEW box, NEW q, NEW q2, NEW M, NEW O, NEW M2, NEW O2,
           Knows(b, v, box, q, M, O), SameDeal(v, w), "who" \in q => "who" \in q2,
           \A p : Ends(b, M, O, p) => Ends(b, M2, O2, p)
    PROVE  Knows(b, w, box, q2, M2, O2)
<1>1. PICK h : Story(b, box, M, O, h) /\ Shows(b, v, WhoToCome(box, q), h[0])
  BY DEF Knows
<1>2. Story(b, box, M2, O2, h)
  BY <1>1 DEF Story
<1>3. WhoToCome(box, q) => WhoToCome(box, q2)
  BY DEF WhoToCome
<1>4. Shows(b, w, WhoToCome(box, q2), h[0])
  BY <1>1, <1>3 DEF Shows, SameDeal
<1> QED BY <1>2, <1>4 DEF Knows

\* A line on its way to b.
LEMMA Told ==
    ASSUME NEW b, NEW v, NEW w, NEW box, NEW e, NEW q, NEW q2, NEW M, NEW O, NEW M2, NEW O2,
           IsSeq(box), Knows(b, v, box, q, M, O), SameDeal(v, w),
           "who" \in q => "who" \in q2 \/ e.t = "who",
           \A p : Ends(b, M, O, p) => \E r : Makes(b, e, p, r) /\ Ends(b, M2, O2, r)
    PROVE  Knows(b, w, Append(box, e), q2, M2, O2)
<1> DEFINE L == Len(box)
           new == Append(box, e)
<1>1. PICK h : Story(b, box, M, O, h) /\ Shows(b, v, WhoToCome(box, q), h[0])
  BY DEF Knows
<1>2. PICK r : Makes(b, e, h[L], r) /\ Ends(b, M2, O2, r)
  BY <1>1 DEF Story
<1>3. /\ L \in Nat /\ Len(new) = L + 1 /\ new[L + 1] = e
      /\ \A k \in 1..L : new[k] = box[k]
  BY SeqFacts
<1> DEFINE g == [k \in 0..L + 1 |-> IF k <= L THEN h[k] ELSE r]
<1>4. g[L + 1] = r /\ \A k \in 0..L : g[k] = h[k]
  BY <1>3
<1> HIDE DEF new, g
<1>5. ASSUME NEW k \in 1..L + 1 PROVE Makes(b, new[k], g[k - 1], g[k])
  <2>1. CASE k <= L
    <3>1. new[k] = box[k] /\ g[k - 1] = h[k - 1] /\ g[k] = h[k] /\ k \in 1..L
      BY <1>3, <1>4, <2>1
    <3> QED BY <1>1, <3>1 DEF Story
  <2>2. CASE k = L + 1
    <3>1. new[k] = e /\ k - 1 = L /\ g[k - 1] = h[L] /\ g[k] = r
      BY <1>3, <1>4, <2>2
    <3> QED BY <1>2, <3>1
  <2> QED BY <1>3, <2>1, <2>2
<1>6. Story(b, new, M2, O2, g)
  BY <1>2, <1>3, <1>4, <1>5 DEF Story
<1>7. WhoToCome(box, q) => WhoToCome(new, q2)
  BY <1>3 DEF WhoToCome
<1>8. Shows(b, w, WhoToCome(new, q2), g[0])
  BY <1>1, <1>3, <1>4, <1>7 DEF Shows, SameDeal
<1>9. Knows(b, w, new, q2, M2, O2)
  BY <1>6, <1>8 DEF Knows
<1> QED BY <1>9 DEF new

\* b reads a line.
LEMMA WasRead ==
    ASSUME NEW b, NEW v, NEW w, NEW box, NEW q, NEW q2, NEW M, NEW O,
           IsSeq(box), box # <<>>, Knows(b, v, box, q, M, O), "who" \in q => "who" \in q2,
           \A p, r : Makes(b, Head(box), p, r) /\ Shows(b, v, WhoToCome(box, q), p)
                        => Shows(b, w, WhoToCome(Tail(box), q2), r)
    PROVE  Knows(b, w, Tail(box), q2, M, O)
<1> DEFINE L == Len(box)
           new == Tail(box)
<1>1. PICK h : Story(b, box, M, O, h) /\ Shows(b, v, WhoToCome(box, q), h[0])
  BY DEF Knows
<1>2. /\ L \in Nat /\ L > 0 /\ Len(new) = L - 1 /\ Head(box) = box[1]
      /\ \A k \in 1..L - 1 : new[k] = box[k + 1]
  BY SeqFacts
<1> DEFINE g == [k \in 0..L - 1 |-> h[k + 1]]
<1>3. \A k \in 0..L - 1 : g[k] = h[k + 1]
  OBVIOUS
<1> HIDE DEF new, g
<1>4. ASSUME NEW k \in 1..L - 1 PROVE Makes(b, new[k], g[k - 1], g[k])
  <2>1. new[k] = box[k + 1] /\ k + 1 \in 1..L /\ (k + 1) - 1 = k
    BY <1>2
  <2>2. k - 1 \in 0..L - 1 /\ (k - 1) + 1 = k /\ k \in 0..L - 1
    BY <1>2
  <2>3. g[k - 1] = h[k] /\ g[k] = h[k + 1]
    BY <1>3, <2>2
  <2>4. Makes(b, box[k + 1], h[(k + 1) - 1], h[k + 1])
    BY <1>1, <2>1 DEF Story
  <2> QED BY <2>1, <2>3, <2>4
<1>5. g[L - 1] = h[L] /\ g[0] = h[1]
  BY <1>2, <1>3
<1>6. Story(b, new, M, O, g)
  BY <1>1, <1>2, <1>4, <1>5 DEF Story
<1>7. Makes(b, Head(box), h[0], h[1])
  BY <1>1, <1>2 DEF Story
<1>8. Shows(b, w, WhoToCome(new, q2), g[0])
  BY <1>1, <1>5, <1>7 DEF new
<1>9. Knows(b, w, new, q2, M, O)
  BY <1>6, <1>8 DEF Knows
<1> QED BY <1>9 DEF new

\* Handling e turns the picture v into w, after asking Q: whatever pair v
\* shows, w shows the next.
Carries(b, e, v, w, Q) ==
    \A p, r : Makes(b, e, p, r) =>
        \A x, y \in BOOLEAN : /\ Shows(b, v, x, p)
                              /\ x => y \/ e.t = "who"
                              /\ "who" \in Q => y
                              => Shows(b, w, y, r)

Handled(b, v, e) ==
    \E w, S, Q : /\ Submit(b, w, S) /\ IsView(w) /\ \A j \in S : IsJob(j)
                 /\ IsTable(ask') /\ Q \subseteq Queries /\ ask'[b] = ask[b] \cup Q
                 /\ \A x \in Bot \ {b} : ask'[x] = ask[x]
                 /\ Carries(b, e, v, w, Q)

LEMMA JobsAreJobs ==
    /\ \A a \in LineActs \cup {"bannuh"} : \A t, y : IsJob(Job(a, t, y))
    /\ \A v, u : \A j \in Revenge(v, u) : IsJob(j)
<1>1. \A a \in LineActs \cup {"bannuh"} : \A t, y : IsJob(Job(a, t, y))
  BY DEF IsJob, Job
<1> QED BY <1>1 DEF Revenge, LineActs

\* Handlers that ask nothing, and those that do.
LEMMA NothingAsked ==
    ASSUME IsTable(ask), NEW b \in Bot, NEW v, NEW e, NEW w, NEW S, Submit(b, w, S), IsView(w),
           \A j \in S : IsJob(j), UNCHANGED ask, Carries(b, e, v, w, {})
    PROVE  Handled(b, v, e)
<1>1. ask'[b] = ask[b] \cup {}
  OBVIOUS
<1> QED BY <1>1 DEF Handled

LEMMA SomethingAsked ==
    ASSUME IsTable(ask), NEW b \in Bot, NEW v, NEW e, NEW w, NEW S, Submit(b, w, S), IsView(w),
           \A j \in S : IsJob(j), NEW Q \in SUBSET Queries, Asks(b, Q), Carries(b, e, v, w, Q)
    PROVE  Handled(b, v, e)
<1>1. IsTable(ask') /\ ask'[b] = ask[b] \cup Q /\ \A x \in Bot \ {b} : ask'[x] = ask[x]
  BY DEF IsTable, Asks
<1> QED BY <1>1 DEF Handled

LEMMA PlainHandled ==
    ASSUME IsTable(ask), NEW b \in Bot, NEW v, NEW e, NEW w, Plain(b, w), IsView(w),
           Carries(b, e, v, w, {})
    PROVE  Handled(b, v, e)
BY NothingAsked DEF Plain

\* Lines that say nothing of members and ops.
LEMMA NothingSaid ==
    ASSUME NEW b, NEW e, e.t \notin {"+o", "-o", "kick", "join", "who"}, NEW v, NEW w,
           SameDeal(v, w)
    PROVE  Carries(b, e, v, w, {})
BY DEF Carries, Makes, Shows, SameDeal

LEMMA SeeOpHandled ==
    ASSUME IsTable(ask), NEW b \in Bot, NEW v, IsView(v), NEW e, SeeOp(b, v, e)
    PROVE  Handled(b, v, e)
<1>1. e.t = "+o" /\ UNCHANGED ask
  BY DEF SeeOp
<1>2. CASE e.u = b
  <2> DEFINE w == [Opped(v, b) EXCEPT !.opped = TRUE, !.check = TRUE]
  <2>1. Submit(b, w, {})
    BY <1>2, Zenon DEF SeeOp
  <2>2. /\ IsView(w) /\ w.in = v.in /\ w.opped = TRUE /\ w.roster = v.roster
        /\ w.ops = IF b \in v.roster THEN v.ops \cup {b} ELSE v.ops
    BY DEF IsView, Fields, Opped
  <2> HIDE DEF w
  <2>3. Carries(b, e, v, w, {})
    <3>1. SUFFICES ASSUME NEW p, NEW r, Makes(b, e, p, r), NEW x \in BOOLEAN, NEW y \in BOOLEAN,
                          Shows(b, v, x, p), x => y \/ e.t = "who", "who" \in {} => y
                   PROVE  Shows(b, w, y, r)
      BY Zenon DEF Carries
    <3>2. r.m = p.m /\ r.o = p.o \cup {b} /\ b \in p.m
      BY <3>1, <1>1, <1>2, <2>2 DEF Makes
    <3>3. /\ (v.in <=> b \in p.m) /\ (v.opped <=> b \in p.o) /\ v.ops \subseteq v.roster
          /\ b \in p.m => v.roster \cap Bot \subseteq p.m
      BY <3>1 DEF Shows
    <3>4. ASSUME b \in p.m, ~y PROVE v.roster \cap Bot = p.m /\ v.ops \cap Bot = p.o
      BY <3>1, <3>4, <1>1, <1>2, <2>2 DEF Shows
    <3>5. (w.in <=> b \in r.m) /\ (w.opped <=> b \in r.o) /\ w.ops \subseteq w.roster
      BY <3>2, <3>3, <2>2
    <3>6. ASSUME b \in r.m PROVE w.roster \cap Bot \subseteq r.m
      BY <3>2, <3>3, <3>6, <1>1, <1>2, <2>2 DEF SameDeal
    <3>7. ASSUME b \in r.m, ~y PROVE w.roster \cap Bot = r.m /\ w.ops \cap Bot = r.o
      BY <3>1, <3>2, <3>3, <3>4, <3>7, <1>1, <1>2, <2>2 DEF SameDeal
    <3> QED BY <3>5, <3>6, <3>7 DEF Shows
  <2> QED BY <1>1, <2>1, <2>2, <2>3, NothingAsked
<1>3. CASE e.u # b
  <2> DEFINE w == Ack(Opped(v, e.u), "reop", e.u)
  <2>1. PICK S : Submit(b, w, S) /\ \A j \in S : IsJob(j)
    BY <1>3, JobsAreJobs DEF SeeOp, LineActs
  <2>2. /\ IsView(w) /\ w.in = v.in /\ w.opped = v.opped /\ w.roster = v.roster
        /\ w.ops = IF e.u \in v.roster THEN v.ops \cup {e.u} ELSE v.ops
    BY DEF IsView, Fields, Opped, Ack
  <2> HIDE DEF w
  <2>3. Carries(b, e, v, w, {})
    <3>1. SUFFICES ASSUME NEW p, NEW r, Makes(b, e, p, r), NEW x \in BOOLEAN, NEW y \in BOOLEAN,
                          Shows(b, v, x, p), x => y \/ e.t = "who", "who" \in {} => y
                   PROVE  Shows(b, w, y, r)
      BY Zenon DEF Carries
    <3>2. r.m = p.m /\ r.o = p.o \cup ({e.u} \cap Bot) /\ (e.u \in Bot => e.u \in p.m)
      BY <3>1, <1>1, <1>3, <2>2 DEF Makes
    <3>3. /\ (v.in <=> b \in p.m) /\ (v.opped <=> b \in p.o) /\ v.ops \subseteq v.roster
          /\ b \in p.m => v.roster \cap Bot \subseteq p.m
      BY <3>1 DEF Shows
    <3>4. ASSUME b \in p.m, ~y PROVE v.roster \cap Bot = p.m /\ v.ops \cap Bot = p.o
      BY <3>1, <3>4, <1>1, <1>3, <2>2 DEF Shows
    <3>5. (w.in <=> b \in r.m) /\ (w.opped <=> b \in r.o) /\ w.ops \subseteq w.roster
      BY <3>2, <3>3, <1>1, <1>3, <2>2 DEF SameDeal
    <3>6. ASSUME b \in r.m PROVE w.roster \cap Bot \subseteq r.m
      BY <3>2, <3>3, <3>6, <1>1, <1>3, <2>2 DEF SameDeal
    <3>7. ASSUME b \in r.m, ~y PROVE w.roster \cap Bot = r.m /\ w.ops \cap Bot = r.o
      BY <3>1, <3>2, <3>3, <3>4, <3>7, <1>1, <1>3, <2>2 DEF SameDeal
    <3> QED BY <3>5, <3>6, <3>7 DEF Shows
  <2> QED BY <1>1, <2>1, <2>2, <2>3, NothingAsked
<1> QED BY <1>2, <1>3

LEMMA OffendedView ==
    ASSUME NEW v, IsView(v), NEW s
    PROVE  IsView(offence(v, s)) /\ SameDeal(v, offence(v, s))
BY DEF offence, IsView, Fields, SameDeal

LEMMA SeeDeopHandled ==
    ASSUME IsTable(ask), NEW b \in Bot, NEW v, IsView(v), NEW e, SeeDeop(b, v, e)
    PROVE  Handled(b, v, e)
<1>1. e.t = "-o"
  BY DEF SeeDeop
<1>2. CASE e.u = b
  <2> DEFINE w == [v EXCEPT !.opped = FALSE, !.roster = {}, !.ops = {}]
  <2>1. Submit(b, w, {}) /\ Asks(b, {"who"})
    BY <1>2, Zenon DEF SeeDeop
  <2>2. IsView(w) /\ w.in = v.in /\ w.opped = FALSE /\ w.roster = {} /\ w.ops = {}
    BY DEF IsView, Fields
  <2> HIDE DEF w
  <2>3. Carries(b, e, v, w, {"who"})
    <3>1. SUFFICES ASSUME NEW p, NEW r, Makes(b, e, p, r), NEW x \in BOOLEAN, NEW y \in BOOLEAN,
                          Shows(b, v, x, p), x => y \/ e.t = "who", "who" \in {"who"} => y
                   PROVE  Shows(b, w, y, r)
      BY Zenon DEF Carries
    <3>2. r.m = p.m /\ r.o = p.o \ {b}
      BY <3>1, <1>1, <1>2, <2>2 DEF Makes
    <3>3. /\ (v.in <=> b \in p.m) /\ (v.opped <=> b \in p.o) /\ v.ops \subseteq v.roster
          /\ b \in p.m => v.roster \cap Bot \subseteq p.m
      BY <3>1 DEF Shows
    <3>4. ASSUME b \in p.m, ~y PROVE v.roster \cap Bot = p.m /\ v.ops \cap Bot = p.o
      BY <3>1, <3>4, <1>1, <1>2, <2>2 DEF Shows
    <3>5. (w.in <=> b \in r.m) /\ (w.opped <=> b \in r.o) /\ w.ops \subseteq w.roster
      BY <3>2, <3>3, <2>2
    <3>6. ASSUME b \in r.m PROVE w.roster \cap Bot \subseteq r.m
      BY <3>2, <3>3, <3>6, <1>1, <1>2, <2>2 DEF SameDeal
    <3>7. ASSUME b \in r.m, ~y PROVE w.roster \cap Bot = r.m /\ w.ops \cap Bot = r.o
      BY <3>1, <3>2, <3>3, <3>4, <3>7, <1>1, <1>2, <2>2 DEF SameDeal
    <3> QED BY <3>5, <3>6, <3>7 DEF Shows
  <2> QED BY <2>1, <2>2, <2>3, SomethingAsked DEF Queries
<1>3. CASE e.u # b
  <2> DEFINE w == Ack([v EXCEPT !.ops = @ \ {e.u}], "deop", e.u)
             hurt == e.u \in v.roster /\ Authorised(e.u) /\ Unauthorised(e.s)
             f == IF hurt /\ On("revenge") THEN offence(w, e.s) ELSE w
             S == IF ~hurt THEN {}
                  ELSE {j \in {Job("reop", e.u, "protectops")} : On("protectops")}
                       \cup {j \in Revenge(v, e.s) : On("revenge")}
  <2>1. Submit(b, f, S) /\ UNCHANGED ask
    BY <1>3, Zenon DEF SeeDeop
  <2>2. IsView(w) /\ w.in = v.in /\ w.opped = v.opped /\ w.roster = v.roster /\ w.ops = v.ops \ {e.u}
    BY DEF IsView, Fields, Ack
  <2>3. \A j \in S : IsJob(j)
    BY JobsAreJobs DEF LineActs
  <2> HIDE DEF w, S
  <2>4. IsView(f) /\ SameDeal(w, f)
    BY <2>2, OffendedView DEF SameDeal
  <2> HIDE DEF f
  <2>5. Carries(b, e, v, f, {})
    <3>1. SUFFICES ASSUME NEW p, NEW r, Makes(b, e, p, r), NEW x \in BOOLEAN, NEW y \in BOOLEAN,
                          Shows(b, v, x, p), x => y \/ e.t = "who", "who" \in {} => y
                   PROVE  Shows(b, f, y, r)
      BY Zenon DEF Carries
    <3>2. r.m = p.m /\ r.o = p.o \ {e.u}
      BY <3>1, <1>1, <1>3, <2>2, <2>4 DEF Makes
    <3>3. /\ (v.in <=> b \in p.m) /\ (v.opped <=> b \in p.o) /\ v.ops \subseteq v.roster
          /\ b \in p.m => v.roster \cap Bot \subseteq p.m
      BY <3>1 DEF Shows
    <3>4. ASSUME b \in p.m, ~y PROVE v.roster \cap Bot = p.m /\ v.ops \cap Bot = p.o
      BY <3>1, <3>4, <1>1, <1>3, <2>2, <2>4 DEF Shows
    <3>5. (f.in <=> b \in r.m) /\ (f.opped <=> b \in r.o) /\ f.ops \subseteq f.roster
      BY <3>2, <3>3, <1>1, <1>3, <2>2, <2>4 DEF SameDeal
    <3>6. ASSUME b \in r.m PROVE f.roster \cap Bot \subseteq r.m
      BY <3>2, <3>3, <3>6, <1>1, <1>3, <2>2, <2>4 DEF SameDeal
    <3>7. ASSUME b \in r.m, ~y PROVE f.roster \cap Bot = r.m /\ f.ops \cap Bot = r.o
      BY <3>1, <3>2, <3>3, <3>4, <3>7, <1>1, <1>3, <2>2, <2>4 DEF SameDeal
    <3> QED BY <3>5, <3>6, <3>7 DEF Shows
  <2> QED BY <2>1, <2>3, <2>4, <2>5, NothingAsked
<1> QED BY <1>2, <1>3

LEMMA SeeKickHandled ==
    ASSUME IsTable(ask), NEW b \in Bot, NEW v, IsView(v), NEW e, SeeKick(b, v, e)
    PROVE  Handled(b, v, e)
<1>1. e.t = "kick" /\ UNCHANGED ask
  BY DEF SeeKick
<1>2. CASE e.u = b
  <2> DEFINE w == [v EXCEPT !.in = FALSE, !.opped = FALSE, !.known = FALSE, !.clean = TRUE,
                            !.listed = FALSE, !.bans = {}]
  <2>1. Submit(b, w, {})
    BY <1>2, Zenon DEF SeeKick
  <2>2. IsView(w) /\ w.in = FALSE /\ w.opped = FALSE /\ w.roster = v.roster /\ w.ops = v.ops
    BY DEF IsView, Fields
  <2> HIDE DEF w
  <2>3. Carries(b, e, v, w, {})
    <3>1. SUFFICES ASSUME NEW p, NEW r, Makes(b, e, p, r), NEW x \in BOOLEAN, NEW y \in BOOLEAN,
                          Shows(b, v, x, p), x => y \/ e.t = "who", "who" \in {} => y
                   PROVE  Shows(b, w, y, r)
      BY Zenon DEF Carries
    <3>2. r.m = p.m \ {b} /\ r.o = p.o \ {b}
      BY <3>1, <1>1, <1>2, <2>2 DEF Makes
    <3>3. /\ (v.in <=> b \in p.m) /\ (v.opped <=> b \in p.o) /\ v.ops \subseteq v.roster
          /\ b \in p.m => v.roster \cap Bot \subseteq p.m
      BY <3>1 DEF Shows
    <3>4. ASSUME b \in p.m, ~y PROVE v.roster \cap Bot = p.m /\ v.ops \cap Bot = p.o
      BY <3>1, <3>4, <1>1, <1>2, <2>2 DEF Shows
    <3>5. (w.in <=> b \in r.m) /\ (w.opped <=> b \in r.o) /\ w.ops \subseteq w.roster
      BY <3>2, <3>3, <2>2
    <3>6. ASSUME b \in r.m PROVE w.roster \cap Bot \subseteq r.m
      BY <3>2, <3>3, <3>6, <1>1, <1>2, <2>2 DEF SameDeal
    <3>7. ASSUME b \in r.m, ~y PROVE w.roster \cap Bot = r.m /\ w.ops \cap Bot = r.o
      BY <3>1, <3>2, <3>3, <3>4, <3>7, <1>1, <1>2, <2>2 DEF SameDeal
    <3> QED BY <3>5, <3>6, <3>7 DEF Shows
  <2> QED BY <1>1, <2>1, <2>2, <2>3, NothingAsked
<1>3. CASE e.u # b
  <2> DEFINE w == Ack([v EXCEPT !.roster = @ \ {e.u}, !.ops = @ \ {e.u}], "kick", e.u)
             hurt == e.u \in v.roster /\ Authorised(e.u) /\ Unauthorised(e.s) /\ On("revenge")
             f == IF hurt THEN offence(w, e.s) ELSE w
             S == IF hurt THEN Revenge(v, e.s) ELSE {}
  <2>1. Submit(b, f, S)
    BY <1>3, Zenon DEF SeeKick
  <2>2. /\ IsView(w) /\ w.in = v.in /\ w.opped = v.opped /\ w.roster = v.roster \ {e.u}
        /\ w.ops = v.ops \ {e.u}
    BY DEF IsView, Fields, Ack
  <2>3. \A j \in S : IsJob(j)
    BY JobsAreJobs
  <2> HIDE DEF w, S
  <2>4. IsView(f) /\ SameDeal(w, f)
    BY <2>2, OffendedView DEF SameDeal
  <2> HIDE DEF f
  <2>5. Carries(b, e, v, f, {})
    <3>1. SUFFICES ASSUME NEW p, NEW r, Makes(b, e, p, r), NEW x \in BOOLEAN, NEW y \in BOOLEAN,
                          Shows(b, v, x, p), x => y \/ e.t = "who", "who" \in {} => y
                   PROVE  Shows(b, f, y, r)
      BY Zenon DEF Carries
    <3>2. r.m = p.m \ {e.u} /\ r.o = p.o \ {e.u}
      BY <3>1, <1>1, <1>3, <2>2, <2>4 DEF Makes
    <3>3. /\ (v.in <=> b \in p.m) /\ (v.opped <=> b \in p.o) /\ v.ops \subseteq v.roster
          /\ b \in p.m => v.roster \cap Bot \subseteq p.m
      BY <3>1 DEF Shows
    <3>4. ASSUME b \in p.m, ~y PROVE v.roster \cap Bot = p.m /\ v.ops \cap Bot = p.o
      BY <3>1, <3>4, <1>1, <1>3, <2>2, <2>4 DEF Shows
    <3>5. (f.in <=> b \in r.m) /\ (f.opped <=> b \in r.o) /\ f.ops \subseteq f.roster
      BY <3>2, <3>3, <1>1, <1>3, <2>2, <2>4 DEF SameDeal
    <3>6. ASSUME b \in r.m PROVE f.roster \cap Bot \subseteq r.m
      BY <3>2, <3>3, <3>6, <1>1, <1>3, <2>2, <2>4 DEF SameDeal
    <3>7. ASSUME b \in r.m, ~y PROVE f.roster \cap Bot = r.m /\ f.ops \cap Bot = r.o
      BY <3>1, <3>2, <3>3, <3>4, <3>7, <1>1, <1>3, <2>2, <2>4 DEF SameDeal
    <3> QED BY <3>5, <3>6, <3>7 DEF Shows
  <2> QED BY <1>1, <2>1, <2>3, <2>4, <2>5, NothingAsked
<1> QED BY <1>2, <1>3

LEMMA SeeJoinHandled ==
    ASSUME IsTable(ask), NEW b \in Bot, NEW v, IsView(v), NEW e, SeeJoin(b, v, e)
    PROVE  Handled(b, v, e)
<1>1. e.t = "join"
  BY DEF SeeJoin
<1>2. CASE e.u = b
  <2> DEFINE w == [v EXCEPT !.in = TRUE, !.opped = FALSE, !.roster = {}, !.ops = {},
                            !.known = FALSE, !.clean = TRUE, !.listed = FALSE, !.bans = {}]
  <2>1. Submit(b, w, {}) /\ Asks(b, {"who", "modes", "bans"})
    BY <1>2, Zenon DEF SeeJoin
  <2>2. IsView(w) /\ w.in = TRUE /\ w.opped = FALSE /\ w.roster = {} /\ w.ops = {}
    BY DEF IsView, Fields
  <2> HIDE DEF w
  <2>3. Carries(b, e, v, w, {"who", "modes", "bans"})
    <3>1. SUFFICES ASSUME NEW p, NEW r, Makes(b, e, p, r), NEW x \in BOOLEAN, NEW y \in BOOLEAN,
                          Shows(b, v, x, p), x => y \/ e.t = "who", "who" \in {"who", "modes",
                                 "bans"} => y
                   PROVE  Shows(b, w, y, r)
      BY Zenon DEF Carries
    <3>2. b \in r.m /\ b \notin r.o
      BY <3>1, <1>1, <1>2, <2>2 DEF Makes
    <3>3. /\ (v.in <=> b \in p.m) /\ (v.opped <=> b \in p.o) /\ v.ops \subseteq v.roster
          /\ b \in p.m => v.roster \cap Bot \subseteq p.m
      BY <3>1 DEF Shows
    <3>4. ASSUME b \in p.m, ~y PROVE v.roster \cap Bot = p.m /\ v.ops \cap Bot = p.o
      BY <3>1, <3>4, <1>1, <1>2, <2>2 DEF Shows
    <3>5. (w.in <=> b \in r.m) /\ (w.opped <=> b \in r.o) /\ w.ops \subseteq w.roster
      BY <3>2, <3>3, <2>2
    <3>6. ASSUME b \in r.m PROVE w.roster \cap Bot \subseteq r.m
      BY <3>2, <3>3, <3>6, <1>1, <1>2, <2>2 DEF SameDeal
    <3>7. ASSUME b \in r.m, ~y PROVE w.roster \cap Bot = r.m /\ w.ops \cap Bot = r.o
      BY <3>1, <3>2, <3>3, <3>4, <3>7, <1>1, <1>2, <2>2 DEF SameDeal
    <3> QED BY <3>5, <3>6, <3>7 DEF Shows
  <2> QED BY <2>1, <2>2, <2>3, SomethingAsked DEF Queries
<1>3. CASE e.u # b
  <2> DEFINE w == [v EXCEPT !.roster = @ \cup {e.u}, !.ops = @ \ {e.u}]
  <2>1. Plain(b, w)
    BY <1>3, Zenon DEF SeeJoin
  <2>2. /\ IsView(w) /\ w.in = v.in /\ w.opped = v.opped /\ w.roster = v.roster \cup {e.u}
        /\ w.ops = v.ops \ {e.u}
    BY DEF IsView, Fields
  <2> HIDE DEF w
  <2>3. Carries(b, e, v, w, {})
    BY <1>1, <1>3, <2>2 DEF Carries, Makes, Shows
  <2> QED BY <2>1, <2>2, <2>3, PlainHandled
<1> QED BY <1>2, <1>3

\* The handlers of bans and modes.
LEMMA SeeBanHandled ==
    ASSUME IsTable(ask), NEW b \in Bot, NEW v, IsView(v), NEW e, SeeBan(b, v, e)
    PROVE  Handled(b, v, e)
<1> DEFINE hurt == On("revenge") /\ Unauthorised(e.s) /\ HitsAuthorised(v, e.m)
           w == [v EXCEPT !.bans = @ \cup {e.m}]
           f == IF hurt THEN offence(w, e.s) ELSE w
           S == IF hurt THEN Revenge(v, e.s) ELSE {}
<1>1. e.t = "+b" /\ UNCHANGED ask /\ Submit(b, f, S)
  BY Zenon DEF SeeBan
<1>2. IsView(w) /\ SameDeal(v, w)
  BY DEF IsView, Fields, SameDeal
<1>3. \A j \in S : IsJob(j)
  BY JobsAreJobs
<1> HIDE DEF w, S
<1>4. IsView(f) /\ SameDeal(v, f)
  BY <1>2, OffendedView DEF SameDeal
<1> HIDE DEF f
<1>5. Carries(b, e, v, f, {})
  BY <1>1, <1>4, NothingSaid
<1> QED BY <1>1, <1>3, <1>4, <1>5, NothingAsked

LEMMA SeeModesHandled ==
    ASSUME IsTable(ask), NEW b \in Bot, NEW v, IsView(v), NEW e, SeeModes(b, v, e)
    PROVE  Handled(b, v, e)
<1> DEFINE done == e.clean /\ v.known
           w == [v EXCEPT !.clean = e.clean, !.jobs = {j \in @ : ~(done /\ j.act = "mode")}]
           f == IF done /\ e.s = b THEN Ack(w, "mode", Chan) ELSE w
           S == IF ~done /\ e.s # b /\ On("enforcemodes") THEN {Job("mode", Chan, "modes")} ELSE {}
<1>1. e.t = "modes" /\ UNCHANGED ask /\ Submit(b, f, S)
  BY Zenon DEF SeeModes
<1>2. IsView(w) /\ SameDeal(v, w)
  BY DEF IsView, Fields, SameDeal
<1>3. \A j \in S : IsJob(j)
  BY JobsAreJobs DEF LineActs
<1> HIDE DEF w, S
<1>4. IsView(f) /\ SameDeal(v, f)
  BY <1>2 DEF SameDeal, Ack, IsView, Fields
<1> HIDE DEF f
<1>5. Carries(b, e, v, f, {})
  BY <1>1, <1>4, NothingSaid
<1> QED BY <1>1, <1>3, <1>4, <1>5, NothingAsked

LEMMA SeeListsHandled ==
    ASSUME IsTable(ask), NEW b \in Bot, NEW v, IsView(v), NEW e,
           SeeUnban(b, v, e) \/ SeeState(b, v, e) \/ SeeBanList(b, v, e)
    PROVE  Handled(b, v, e)
<1>1. ASSUME NEW w, Plain(b, w), IsView(w), SameDeal(v, w), e.t \in {"-b", "324", "368"}
      PROVE  Handled(b, v, e)
  <2>1. Carries(b, e, v, w, {})
    BY <1>1, NothingSaid
  <2> QED BY <1>1, <2>1, PlainHandled
<1>2. CASE SeeUnban(b, v, e)
  <2> DEFINE w == Ack([v EXCEPT !.bans = @ \ {e.m}], "unban", e.m)
  <2>1. IsView(w) /\ SameDeal(v, w)
    BY DEF IsView, Fields, SameDeal, Ack
  <2>2. Plain(b, w) /\ e.t = "-b"
    BY <1>2, Zenon DEF SeeUnban
  <2> HIDE DEF w
  <2> QED BY <1>1, <2>1, <2>2
<1>3. CASE SeeState(b, v, e)
  <2> DEFINE w == [v EXCEPT !.known = TRUE, !.clean = e.clean]
  <2>1. IsView(w) /\ SameDeal(v, w)
    BY DEF IsView, Fields, SameDeal
  <2>2. Plain(b, w) /\ e.t = "324"
    BY <1>3, Zenon DEF SeeState
  <2> HIDE DEF w
  <2> QED BY <1>1, <2>1, <2>2
<1>4. CASE SeeBanList(b, v, e)
  <2> DEFINE w == [v EXCEPT !.listed = TRUE, !.bans = e.bans]
  <2>1. IsView(w) /\ SameDeal(v, w)
    BY DEF IsView, Fields, SameDeal
  <2>2. Plain(b, w) /\ e.t = "368"
    BY <1>4, Zenon DEF SeeBanList
  <2> HIDE DEF w
  <2> QED BY <1>1, <2>1, <2>2
<1> QED BY <1>2, <1>3, <1>4

\* PART and NICK are the users'.
LEMMA SeePartHandled ==
    ASSUME IsTable(ask), NEW b \in Bot, NEW v, IsView(v), NEW e, SeePart(b, v, e)
    PROVE  Handled(b, v, e)
<1> DEFINE w == [v EXCEPT !.roster = @ \ {e.u}, !.ops = @ \ {e.u}]
<1>1. e.t = "part" /\ Plain(b, w)
  BY Zenon DEF SeePart
<1>2. /\ IsView(w) /\ w.in = v.in /\ w.opped = v.opped /\ w.roster = v.roster \ {e.u}
      /\ w.ops = v.ops \ {e.u}
  BY DEF IsView, Fields
<1> HIDE DEF w
<1>3. Carries(b, e, v, w, {})
  <2>1. SUFFICES ASSUME NEW p, NEW r, Makes(b, e, p, r), NEW x \in BOOLEAN, NEW y \in BOOLEAN,
                        Shows(b, v, x, p), x => y \/ e.t = "who"
                 PROVE  Shows(b, w, y, r)
    BY Zenon DEF Carries
  <2>2. r = p /\ e.u \in User
    BY <2>1, <1>1 DEF Makes
  <2>3. /\ (v.in <=> b \in p.m) /\ (v.opped <=> b \in p.o) /\ v.ops \subseteq v.roster
        /\ b \in p.m => v.roster \cap Bot \subseteq p.m
    BY <2>1 DEF Shows
  <2>4. w.roster \cap Bot = v.roster \cap Bot /\ w.ops \cap Bot = v.ops \cap Bot
    BY <1>2, <2>2, Dealing
  <2> QED BY <1>1, <1>2, <2>1, <2>2, <2>3, <2>4 DEF Shows
<1> QED BY <1>1, <1>2, <1>3, PlainHandled

LEMMA SeeNickHandled ==
    ASSUME IsTable(ask), NEW b \in Bot, NEW v, IsView(v), NEW e, SeeNick(b, v, e)
    PROVE  Handled(b, v, e)
<1> DEFINE w == [v EXCEPT !.roster = Renamed(@, e.u, e.w), !.ops = Renamed(@, e.u, e.w)]
<1>1. e.t = "nick" /\ Plain(b, w)
  BY Zenon DEF SeeNick
<1>2. /\ IsView(w) /\ w.in = v.in /\ w.opped = v.opped /\ w.roster = Renamed(v.roster, e.u, e.w)
      /\ w.ops = Renamed(v.ops, e.u, e.w)
  BY DEF IsView, Fields
<1> HIDE DEF w
<1>3. Carries(b, e, v, w, {})
  <2>1. SUFFICES ASSUME NEW p, NEW r, Makes(b, e, p, r), NEW x \in BOOLEAN, NEW y \in BOOLEAN,
                        Shows(b, v, x, p), x => y \/ e.t = "who"
                 PROVE  Shows(b, w, y, r)
    BY Zenon DEF Carries
  <2>2. r = p /\ e.u \in User /\ e.w \in User
    BY <2>1, <1>1 DEF Makes
  <2>3. /\ (v.in <=> b \in p.m) /\ (v.opped <=> b \in p.o) /\ v.ops \subseteq v.roster
        /\ b \in p.m => v.roster \cap Bot \subseteq p.m
    BY <2>1 DEF Shows
  <2>4. w.roster \cap Bot = v.roster \cap Bot /\ w.ops \cap Bot = v.ops \cap Bot
    BY <1>2, <2>2, Dealing DEF Renamed
  <2>5. w.ops \subseteq w.roster
    BY <1>2, <2>3 DEF Renamed
  <2> QED BY <1>1, <1>2, <2>1, <2>2, <2>3, <2>4, <2>5 DEF Shows
<1> QED BY <1>1, <1>2, <1>3, PlainHandled

\* The answer to a WHO completes the picture.
LEMMA SeeWhoHandled ==
    ASSUME IsTable(ask), NEW b \in Bot, NEW v, IsView(v), NEW e, SeeWho(b, v, e)
    PROVE  Handled(b, v, e)
<1> DEFINE w == [v EXCEPT !.roster = @ \cup e.members, !.check = TRUE,
                          !.ops = (@ \ e.members) \cup e.ops, !.opped = b \in e.ops]
<1>1. e.t = "who" /\ Plain(b, w)
  BY Zenon DEF SeeWho
<1>2. /\ IsView(w) /\ w.in = v.in /\ (w.opped <=> b \in e.ops)
      /\ w.roster = v.roster \cup e.members /\ w.ops = (v.ops \ e.members) \cup e.ops
  BY DEF IsView, Fields
<1> HIDE DEF w
<1>3. Carries(b, e, v, w, {})
  <2>1. SUFFICES ASSUME NEW p, NEW r, Makes(b, e, p, r), NEW x \in BOOLEAN, NEW y \in BOOLEAN,
                        Shows(b, v, x, p), x => y \/ e.t = "who"
                 PROVE  Shows(b, w, y, r)
    BY Zenon DEF Carries
  <2>2. /\ r = p /\ e.ops \subseteq e.members
        /\ b \in p.m => e.members \cap Bot = p.m /\ e.ops \cap Bot = p.o
        /\ b \notin p.m => b \notin e.ops /\ b \notin p.o
    BY <2>1, <1>1 DEF Makes
  <2>3. /\ (v.in <=> b \in p.m) /\ (v.opped <=> b \in p.o) /\ v.ops \subseteq v.roster
        /\ b \in p.m => v.roster \cap Bot \subseteq p.m
    BY <2>1 DEF Shows
  <2>4. w.opped <=> b \in p.o
    BY <1>2, <2>2
  <2>5. b \in p.m => w.roster \cap Bot = p.m /\ w.ops \cap Bot = p.o
    BY <1>2, <2>2, <2>3
  <2>6. w.ops \subseteq w.roster
    BY <1>2, <2>2, <2>3
  <2> QED BY <1>2, <2>2, <2>3, <2>4, <2>5, <2>6 DEF Shows
<1> QED BY <1>1, <1>2, <1>3, PlainHandled

LEMMA EveryLineHandled ==
    ASSUME IsTable(ask), NEW b \in Bot, NEW v, IsView(v), NEW e, See(b, v, e)
    PROVE  Handled(b, v, e)
BY SeeOpHandled, SeeDeopHandled, SeeKickHandled, SeeJoinHandled, SeeBanHandled, SeeModesHandled,
   SeeListsHandled, SeePartHandled, SeeNickHandled, SeeWhoHandled DEF See

---------------------------------------------------------------------------
(***************************************************************************)
(* Every step keeps the invariant.                                         *)
(***************************************************************************)
LEMMA DealInit == ASSUME Init PROVE DealInv
<1>1. IsTable(out) /\ IsTable(inbox) /\ IsTable(ask) /\ IsTable(me) /\ ops \subseteq members
  BY DEF Init, IsTable
<1>2. ASSUME NEW b \in Bot
      PROVE  /\ IsSeq(inbox[b]) /\ IsView(me[b]) /\ ask[b] \subseteq Queries
             /\ \A l \in out[b] : l.act \in LineActs
             /\ Knows(b, me[b], inbox[b], ask[b], members, ops)
  <2>1. inbox[b] = <<>> /\ out[b] = {} /\ ask[b] = {} /\ b \in members /\ b \in ops
    BY DEF Init
  <2>0. PICK lifted : me[b] = Fresh(b, lifted)
    BY DEF Init
  <2>2. <<>> \in Seq({}) /\ Len(<<>>) = 0
    OBVIOUS
  <2>3. IsSeq(inbox[b])
    BY <2>1, <2>2 DEF IsSeq
  <2>4. IsView(me[b])
    BY <2>0 DEF IsView, Fresh, Fields
  <2> DEFINE h == [k \in {0} |-> [m |-> members \cap Bot, o |-> ops \cap Bot]]
  <2>5. h[0].m = members \cap Bot /\ h[0].o = ops \cap Bot
    OBVIOUS
  <2> HIDE DEF h
  <2>6. Story(b, inbox[b], members, ops, h)
    BY <2>1, <2>2, <2>5 DEF Story, Ends
  <2>7. Shows(b, me[b], WhoToCome(inbox[b], ask[b]), h[0])
    BY <1>1, <2>0, <2>1, <2>5 DEF Shows, Fresh
  <2> QED BY <2>1, <2>3, <2>4, <2>6, <2>7 DEF Knows
<1> QED BY <1>1, <1>2 DEF DealInv

\* Work a bot does without reading anything.
LEMMA WorkKeeps ==
    ASSUME DealInv, NEW b \in Bot, NEW w, NEW J, Execute(b, w, J), IsView(w),
           SameDeal(me[b], w), \A j \in J : IsJob(j), UNCHANGED <<members, ops, inbox, ask>>
    PROVE  DealInv'
<1>1. /\ IsTable(out') /\ \A x \in Bot : \A l \in out'[x] : l.act \in LineActs
  BY Executed DEF DealInv
<1>2. IsTable(me') /\ \A x \in Bot : IsView(me'[x]) /\ SameDeal(me[x], me'[x])
  <2>1. /\ IsTable(me') /\ SameDeal(w, me'[b])
        /\ \A x \in Bot : IsView(me'[x]) /\ (x # b => SameDeal(me[x], me'[x]))
    BY Pictured DEF DealInv
  <2> QED BY <2>1 DEF SameDeal
<1>3. \A x \in Bot : Knows(x, me'[x], inbox[x], ask[x], members, ops)
  BY <1>2, NotTold DEF DealInv
<1> QED BY <1>1, <1>2, <1>3 DEF DealInv, IsTable

LEMMA ReadKeeps == ASSUME DealInv, NEW b \in Bot, Read(b) PROVE DealInv'
<1> DEFINE box == inbox[b]
           v == me[b]
<1>1. /\ box # <<>> /\ inbox' = [inbox EXCEPT ![b] = Tail(@)] /\ See(b, v, Head(box))
      /\ UNCHANGED <<members, ops>>
  BY DEF Read, channel
<1>2. Handled(b, v, Head(box))
  BY <1>1, EveryLineHandled DEF DealInv
<1>3. PICK w, S, Q : /\ Submit(b, w, S) /\ IsView(w) /\ \A j \in S : IsJob(j)
                     /\ IsTable(ask') /\ Q \subseteq Queries /\ ask'[b] = ask[b] \cup Q
                     /\ \A x \in Bot \ {b} : ask'[x] = ask[x]
                     /\ Carries(b, Head(box), v, w, Q)
  BY <1>2, Zenon DEF Handled
<1>4. PICK f, J : Execute(b, f, J) /\ J \subseteq S /\ IsView(f) /\ SameDeal(w, f)
  BY <1>3, Submitted
<1>5. IsTable(out') /\ \A x \in Bot : \A l \in out'[x] : l.act \in LineActs
  BY <1>3, <1>4, Executed DEF DealInv
<1>6. /\ IsTable(me') /\ SameDeal(f, me'[b])
      /\ \A x \in Bot : IsView(me'[x]) /\ (x # b => SameDeal(me[x], me'[x]))
  BY <1>4, Pictured DEF DealInv
<1>7. /\ IsTable(inbox') /\ inbox'[b] = Tail(box) /\ \A x \in Bot \ {b} : inbox'[x] = inbox[x]
  BY <1>1 DEF DealInv, IsTable
<1>8. IsSeq(box) /\ IsSeq(Tail(box)) /\ Knows(b, v, box, ask[b], members, ops)
  BY <1>1, SeqFacts DEF DealInv
<1>9. Knows(b, w, Tail(box), ask'[b], members, ops)
  <2>1. ASSUME NEW p, NEW r, Makes(b, Head(box), p, r), Shows(b, v, WhoToCome(box, ask[b]), p)
        PROVE  Shows(b, w, WhoToCome(Tail(box), ask'[b]), r)
    <3>1. WhoToCome(box, ask[b]) => WhoToCome(Tail(box), ask'[b]) \/ Head(box).t = "who"
      <4>1. /\ Len(box) \in Nat /\ Len(box) > 0 /\ Len(Tail(box)) = Len(box) - 1
            /\ Head(box) = box[1] /\ \A k \in 1..Len(box) - 1 : Tail(box)[k] = box[k + 1]
        BY <1>1, <1>8, SeqFacts
      <4>2. ASSUME NEW k \in 1..Len(box), box[k].t = "who", k # 1
            PROVE  WhoToCome(Tail(box), ask'[b])
        <5>1. k - 1 \in 1..Len(Tail(box)) /\ Tail(box)[k - 1] = box[k]
          BY <4>1, <4>2
        <5> QED BY <4>2, <5>1 DEF WhoToCome
      <4>3. "who" \in ask[b] => WhoToCome(Tail(box), ask'[b])
        BY <1>3 DEF WhoToCome
      <4> QED BY <4>1, <4>2, <4>3 DEF WhoToCome
    <3>2. "who" \in Q => WhoToCome(Tail(box), ask'[b])
      BY <1>3 DEF WhoToCome
    <3>3. WhoToCome(box, ask[b]) \in BOOLEAN /\ WhoToCome(Tail(box), ask'[b]) \in BOOLEAN
      BY DEF WhoToCome
    <3> QED BY <1>3, <2>1, <3>1, <3>2, <3>3 DEF Carries
  <2> HIDE DEF box, v
  <2> QED BY <1>1, <1>3, <1>8, <2>1, WasRead
<1>10. Knows(b, me'[b], Tail(box), ask'[b], members, ops)
  <2>1. SameDeal(w, me'[b])
    BY <1>4, <1>6 DEF SameDeal
  <2> QED BY <1>9, <2>1, NotTold
<1>11. ASSUME NEW x \in Bot, x # b
       PROVE  Knows(x, me'[x], inbox'[x], ask'[x], members, ops) /\ IsSeq(inbox'[x])
  <2>1. Knows(x, me[x], inbox[x], ask[x], members, ops) /\ IsSeq(inbox[x])
    BY DEF DealInv
  <2> QED BY <1>3, <1>6, <1>7, <1>11, <2>1, NotTold
<1> QED BY <1>1, <1>3, <1>5, <1>6, <1>7, <1>8, <1>10, <1>11 DEF DealInv, IsTable

\* The server tells the bots of S something; it answers a WHO.
LEMMA TellKeeps ==
    ASSUME DealInv, NEW e, NEW S, Tell(e, S), IsTable(out'), IsTable(ask'), me' = me,
           ops' \subseteq members', \A b \in Bot : out'[b] \subseteq out[b] /\ ask'[b] \subseteq ask[b],
           \A b \in Bot : "who" \in ask[b] => "who" \in ask'[b] \/ (b \in S /\ e.t = "who"),
           \A b \in Bot \cap S : \A p : Ends(b, members, ops, p) =>
                \E r : Makes(b, e, p, r) /\ Ends(b, members', ops', r),
           \A b \in Bot \ S : \A p : Ends(b, members, ops, p) => Ends(b, members', ops', p)
    PROVE  DealInv'
<1>1. IsTable(inbox')
  BY DEF Tell, IsTable
<1>2. ASSUME NEW b \in Bot
      PROVE  IsSeq(inbox'[b]) /\ Knows(b, me'[b], inbox'[b], ask'[b], members', ops')
  <2>1. /\ IsSeq(inbox[b]) /\ Knows(b, me[b], inbox[b], ask[b], members, ops)
        /\ SameDeal(me[b], me'[b])
    BY DEF DealInv, SameDeal
  <2>2. CASE b \in S
    <3>1. inbox'[b] = Append(inbox[b], e)
      BY <2>2 DEF Tell
    <3>2. IsSeq(Append(inbox[b], e))
      BY <2>1, SeqFacts
    <3> QED BY <2>1, <2>2, <3>1, <3>2, Told
  <2>3. CASE b \notin S
    <3>1. inbox'[b] = inbox[b]
      BY <2>3 DEF Tell
    <3> QED BY <2>1, <2>3, <3>1, NotTold
  <2> QED BY <2>2, <2>3
<1> QED BY <1>1, <1>2 DEF DealInv, IsTable

\* Whoever changes the channel, everyone in it is told.
LEMMA ChangeKeeps ==
    ASSUME DealInv, NEW l, l.act \in LineActs, Works(l), NEW s, Change(l, s), me' = me,
           ask' = ask, IsTable(out'), \A b \in Bot : out'[b] \subseteq out[b]
    PROVE  DealInv'
<1> DEFINE e == EventOf(l, s)
<1>0. ops \subseteq members /\ IsTable(ask) /\ Tell(e, members)
  BY DEF DealInv, Change
<1>1. /\ members' = IF l.act = "kick" THEN members \ {l.tgt} ELSE members
      /\ ops' = IF l.act \in {"deop", "kick"} THEN ops \ {l.tgt}
                ELSE IF l.act = "reop" THEN ops \cup {l.tgt} ELSE ops
  BY DEF Change
<1>2. l.act = "reop" => l.tgt \in members
  BY DEF Works
<1>3. ops' \subseteq members'
  BY <1>0, <1>1, <1>2
<1>4. ASSUME NEW b \in Bot \ members, NEW p, Ends(b, members, ops, p)
      PROVE  Ends(b, members', ops', p)
  BY <1>1, <1>4 DEF Ends
<1>5. ASSUME NEW b \in Bot \cap members, NEW p, Ends(b, members, ops, p)
      PROVE  \E r : Makes(b, e, p, r) /\ Ends(b, members', ops', r)
  <2>1. p.m = members \cap Bot /\ p.o = ops \cap Bot
    BY <1>5 DEF Ends
  <2> DEFINE r == [m |-> members' \cap Bot, o |-> ops' \cap Bot]
  <2>2. r.m = members' \cap Bot /\ r.o = ops' \cap Bot /\ Ends(b, members', ops', r)
    BY <1>3 DEF Ends
  <2> HIDE DEF r
  <2>3. CASE l.act = "deop"
    <3>1. e.t = "-o" /\ e.u = l.tgt
      BY <2>3 DEF EventOf
    <3>2. Makes(b, e, p, r)
      BY <1>1, <2>1, <2>2, <2>3, <3>1 DEF Makes
    <3> QED BY <2>2, <3>2
  <2>4. CASE l.act = "reop"
    <3>1. e.t = "+o" /\ e.u = l.tgt
      BY <2>4 DEF EventOf
    <3>2. Makes(b, e, p, r)
      BY <1>1, <1>2, <2>1, <2>2, <2>4, <3>1 DEF Makes
    <3> QED BY <2>2, <3>2
  <2>5. CASE l.act = "kick"
    <3>1. e.t = "kick" /\ e.u = l.tgt
      BY <2>5 DEF EventOf
    <3>2. Makes(b, e, p, r)
      BY <1>1, <2>1, <2>2, <2>5, <3>1 DEF Makes
    <3> QED BY <2>2, <3>2
  <2>6. CASE l.act \in {"ban", "unban", "mode"}
    <3>1. e.t \in {"+b", "-b", "modes"}
      BY <2>6 DEF EventOf
    <3>2. Makes(b, e, p, p)
      BY <3>1 DEF Makes
    <3>3. Ends(b, members', ops', p)
      BY <1>1, <1>5, <2>6
    <3> QED BY <3>2, <3>3
  <2> QED BY <2>3, <2>4, <2>5, <2>6 DEF LineActs
<1> HIDE DEF e
<1> QED BY <1>0, <1>3, <1>4, <1>5, TellKeeps DEF IsTable

\* Steps that touch neither the channel nor the lines.
LEMMA ElsewhereKeeps ==
    ASSUME DealInv, UNCHANGED <<members, ops, inbox, ask>>, IsTable(out'), IsTable(me'),
           \A b \in Bot : out'[b] \subseteq out[b],
           \A b \in Bot : IsView(me'[b]) /\ SameDeal(me[b], me'[b])
    PROVE  DealInv'
<1>1. \A b \in Bot : Knows(b, me'[b], inbox[b], ask[b], members, ops)
  BY NotTold DEF DealInv
<1> QED BY <1>1 DEF DealInv, IsTable

\* The end of a check changes nothing else a bot knows.
LEMMA CheckForgotten ==
    ASSUME DealInv, NEW b \in Bot, NEW m, CheckEnds(b, m)
    PROVE  /\ UNCHANGED <<members, ops, clean, inbox, ask, out, apart, vain>> /\ IsTable(me')
           /\ \A x \in Bot : /\ IsView(me'[x]) /\ SameDeal(me[x], me'[x])
                             /\ me'[x].known = me[x].known /\ me'[x].jobs = me[x].jobs
                             /\ me'[x].recent = me[x].recent
<1>1. /\ me' = [me EXCEPT ![b].passed = @ \ {m}]
      /\ UNCHANGED <<members, ops, clean, inbox, ask, out, apart, vain>>
  BY DEF CheckEnds, channel, history
<1>2. IsTable(me) /\ \A x \in Bot : IsView(me[x])
  BY DEF DealInv
<1>3. me'[b] = [me[b] EXCEPT !.passed = @ \ {m}] /\ \A x \in Bot \ {b} : me'[x] = me[x]
  BY <1>1, <1>2 DEF IsTable
<1>4. /\ IsView(me'[b]) /\ SameDeal(me[b], me'[b]) /\ me'[b].known = me[b].known
      /\ me'[b].jobs = me[b].jobs /\ me'[b].recent = me[b].recent
  BY <1>2, <1>3 DEF IsView, Fields, SameDeal
<1> QED BY <1>1, <1>2, <1>3, <1>4 DEF IsTable, SameDeal

LEMMA SweepJobs ==
    ASSUME NEW v, NEW skip, NEW idle
    PROVE  \A j \in OpWork(v) \cup ModeWork(v) \cup BanWork(v, skip, idle) : IsJob(j)
<1>1. \A j \in OpWork(v) : IsJob(j)
  BY JobsAreJobs DEF OpWork, LineActs
<1>2. \A j \in ModeWork(v) : IsJob(j)
  BY JobsAreJobs DEF ModeWork, LineActs
<1>3. ASSUME NEW j \in BanWork(v, skip, idle)
      PROVE  \E a \in {"ban", "unban", "kick"} : \E t, y : j = Job(a, t, y)
  BY <1>3 DEF BanWork, Protect, Kicks
<1> QED BY <1>1, <1>2, <1>3, JobsAreJobs DEF LineActs

LEMMA BotKeeps ==
    ASSUME DealInv, NEW b \in Bot, Sweep(b) \/ jobs_tick(b)
    PROVE  DealInv'
<1>0. IsView(me[b])
  BY DEF DealInv
<1>1. CASE Sweep(b)
  <2> DEFINE v == [me[b] EXCEPT !.check = FALSE]
  <2>1. PICK skip, idle : Submit(b, v, OpWork(me[b]) \cup ModeWork(me[b]) \cup BanWork(me[b], skip, idle))
    BY <1>1, Zenon DEF Sweep, chan_sweep
  <2>2. IsView(v) /\ SameDeal(me[b], v)
    BY <1>0 DEF IsView, Fields, SameDeal
  <2>3. \A j \in OpWork(me[b]) \cup ModeWork(me[b]) \cup BanWork(me[b], skip, idle) : IsJob(j)
    BY SweepJobs
  <2>4. PICK w, J : /\ Execute(b, w, J) /\ IsView(w) /\ SameDeal(v, w)
                    /\ \A j \in J : IsJob(j)
    BY <2>1, <2>2, <2>3, Submitted
  <2>5. SameDeal(me[b], w)
    BY <2>2, <2>4 DEF SameDeal
  <2>6. UNCHANGED <<members, ops, inbox, ask>>
    BY <1>1 DEF Sweep, channel
  <2> QED BY <2>4, <2>5, <2>6, WorkKeeps
<1>2. CASE jobs_tick(b)
  <2>1. PICK due \in SUBSET me[b].jobs :
              Execute(b, [me[b] EXCEPT !.jobs = @ \ due], {j \in due : Runs(b, j)})
    BY <1>2 DEF jobs_tick
  <2> DEFINE w == [me[b] EXCEPT !.jobs = @ \ due]
             J == {j \in due : Runs(b, j)}
  <2>2. IsView(w) /\ SameDeal(me[b], w) /\ \A j \in J : IsJob(j)
    BY <1>0 DEF IsView, Fields, SameDeal
  <2>3. UNCHANGED <<members, ops, inbox, ask>>
    BY <1>2 DEF jobs_tick, channel
  <2> HIDE DEF w, J
  <2> QED BY <2>1, <2>2, <2>3, WorkKeeps DEF w, J
<1> QED BY <1>1, <1>2

LEMMA ServerKeeps ==
    ASSUME DealInv, NEW b \in Bot, Rejoin(b) \/ GetOps(b) PROVE DealInv'
<1>0. ops \subseteq members /\ IsTable(ask) /\ IsTable(out) /\ Bot \cap User = {}
  BY Dealing DEF DealInv
<1>1. CASE Rejoin(b)
  <2> DEFINE e == [t |-> "join", u |-> b]
  <2>1. /\ b \notin members /\ members' = members \cup {b} /\ ops' = ops
        /\ Tell(e, members \cup {b}) /\ UNCHANGED <<out, ask, me>>
    BY <1>1 DEF Rejoin
  <2>2. ASSUME NEW x \in Bot \cap (members \cup {b}), NEW p, Ends(x, members, ops, p)
        PROVE  \E r : Makes(x, e, p, r) /\ Ends(x, members', ops', r)
    <3> DEFINE r == [m |-> members' \cap Bot, o |-> ops' \cap Bot]
    <3>1. r.m = members' \cap Bot /\ r.o = ops \cap Bot /\ Ends(x, members', ops', r)
      BY <2>1, <2>2 DEF Ends
    <3>2. e.t = "join" /\ e.u = b /\ b \notin ops
      BY <1>0, <2>1
    <3> HIDE DEF r, e
    <3>3. CASE x = b
      BY <2>1, <3>1, <3>2, <3>3 DEF Makes
    <3>4. CASE x # b
      <4>1. p.m = members \cap Bot /\ p.o = ops \cap Bot
        BY <2>2, <3>4 DEF Ends
      <4>2. Makes(x, e, p, r)
        BY <2>1, <3>1, <3>2, <3>4, <4>1 DEF Makes
      <4> QED BY <3>1, <4>2
    <3> QED BY <3>3, <3>4
  <2>3. ASSUME NEW x \in Bot \ (members \cup {b}), NEW p, Ends(x, members, ops, p)
        PROVE  Ends(x, members', ops', p)
    BY <2>1, <2>3 DEF Ends
  <2> HIDE DEF e
  <2> QED BY <1>0, <2>1, <2>2, <2>3, TellKeeps DEF IsTable
<1>2. CASE GetOps(b)
  <2> DEFINE e == [t |-> "+o", u |-> b, s |-> "server"]
  <2>1. /\ b \in members /\ members' = members /\ ops' = ops \cup {b}
        /\ Tell(e, members) /\ UNCHANGED <<out, ask, me>>
    BY <1>2 DEF GetOps
  <2>2. ASSUME NEW x \in Bot \cap members, NEW p, Ends(x, members, ops, p)
        PROVE  \E r : Makes(x, e, p, r) /\ Ends(x, members', ops', r)
    <3> DEFINE r == [m |-> members \cap Bot, o |-> ops' \cap Bot]
    <3>1. r.m = members \cap Bot /\ r.o = ops' \cap Bot /\ Ends(x, members', ops', r)
      BY <2>1, <2>2 DEF Ends
    <3>2. e.t = "+o" /\ e.u = b
      OBVIOUS
    <3> HIDE DEF r, e
    <3>3. p.m = members \cap Bot /\ p.o = ops \cap Bot
      BY <2>2 DEF Ends
    <3>4. Makes(x, e, p, r)
      BY <2>1, <3>1, <3>2, <3>3 DEF Makes
    <3> QED BY <3>1, <3>4
  <2>3. ASSUME NEW x \in Bot \ members, NEW p, Ends(x, members, ops, p)
        PROVE  Ends(x, members', ops', p)
    BY <2>1, <2>3 DEF Ends
  <2> HIDE DEF e
  <2> QED BY <1>0, <2>1, <2>2, <2>3, TellKeeps DEF IsTable
<1> QED BY <1>1, <1>2

LEMMA TakeKeeps == ASSUME DealInv, NEW b \in Bot, NEW l, Take(b, l) PROVE DealInv'
<1>1. l \in out[b] /\ out' = [out EXCEPT ![b] = @ \ {l}] /\ UNCHANGED <<ask, me>>
  BY DEF Take
<1>2. l.act \in LineActs
  BY <1>1 DEF DealInv
<1>3. IsTable(out') /\ \A x \in Bot : out'[x] \subseteq out[x]
  BY <1>1 DEF DealInv, IsTable
<1>4. CASE b \in ops /\ Works(l)
  BY <1>1, <1>2, <1>3, <1>4, ChangeKeeps DEF Take
<1>5. CASE ~(b \in ops /\ Works(l))
  <2>1. UNCHANGED <<members, ops, inbox>>
    BY <1>5 DEF Take, channel
  <2>2. IsTable(me') /\ \A x \in Bot : IsView(me'[x]) /\ SameDeal(me[x], me'[x])
    BY <1>1 DEF DealInv, SameDeal, IsTable
  <2> QED BY <1>1, <1>3, <2>1, <2>2, ElsewhereKeeps
<1> QED BY <1>4, <1>5

LEMMA AnswerKeeps == ASSUME DealInv, NEW b \in Bot, NEW q, Answer(b, q) PROVE DealInv'
<1> DEFINE e == CASE q = "who"   -> [t |-> "who", members |-> members, ops |-> ops]
                  [] q = "modes" -> [t |-> "324", clean |-> clean]
                  [] q = "bans"  -> [t |-> "368", bans |-> bans]
<1>1. /\ ask' = [ask EXCEPT ![b] = @ \ {q}] /\ Tell(e, {b}) /\ UNCHANGED <<members, ops, out, me>>
      /\ q \in Queries
  BY DEF Answer, channel, DealInv
<1>2. /\ IsTable(ask') /\ IsTable(out') /\ ops' \subseteq members' /\ ops \subseteq members
      /\ \A x \in Bot : ask'[x] \subseteq ask[x]
      /\ \A x \in Bot : "who" \in ask[x] => "who" \in ask'[x] \/ (x \in {b} /\ q = "who")
  BY <1>1 DEF DealInv, IsTable
<1>3. /\ q = "who" => e.t = "who" /\ e.members = members /\ e.ops = ops
      /\ q # "who" => e.t \in {"324", "368"}
  BY <1>1 DEF Queries
<1> HIDE DEF e
<1>4. ASSUME NEW p, Ends(b, members, ops, p) PROVE Makes(b, e, p, p)
  <2>1. CASE q = "who"
    BY <1>2, <1>3, <1>4, <2>1 DEF Makes, Ends
  <2>2. CASE q # "who"
    BY <1>3, <2>2 DEF Makes
  <2> QED BY <2>1, <2>2
<1>5. /\ \A x \in Bot \cap {b} : \A p : Ends(x, members, ops, p) =>
             \E r : Makes(x, e, p, r) /\ Ends(x, members', ops', r)
      /\ \A x \in Bot \ {b} : \A p : Ends(x, members, ops, p) => Ends(x, members', ops', p)
  BY <1>1, <1>4
<1>6. \A x \in Bot : /\ out'[x] \subseteq out[x]
                     /\ "who" \in ask[x] => "who" \in ask'[x] \/ (x \in {b} /\ e.t = "who")
  BY <1>1, <1>2, <1>3
<1> QED BY <1>1, <1>2, <1>5, <1>6, TellKeeps

\* The end of a window, and a step of time.
LEMMA TimeKeeps ==
    ASSUME DealInv, Tick \/ \E b \in Bot : \E l : WindowEnds(b, l) PROVE DealInv'
<1>0. IsTable(me) /\ IsTable(out) /\ \A b \in Bot : IsView(me[b])
  BY DEF DealInv
<1>1. CASE Tick
  <2>1. /\ me' = [b \in Bot |-> [me[b] EXCEPT !.jobs = {[j EXCEPT !.age = @ + 1] : j \in @}]]
        /\ UNCHANGED <<members, ops, inbox, ask, out>>
    BY <1>1 DEF Tick, channel
  <2>2. ASSUME NEW b \in Bot PROVE IsView(me'[b]) /\ SameDeal(me[b], me'[b])
    <3>1. me'[b] = [me[b] EXCEPT !.jobs = {[j EXCEPT !.age = @ + 1] : j \in @}]
      BY <2>1
    <3>2. ASSUME NEW j \in me[b].jobs PROVE IsJob([j EXCEPT !.age = @ + 1])
      <4>1. IsJob(j)
        BY <1>0, <3>2 DEF IsView
      <4> QED BY <4>1 DEF IsJob
    <3>3. DOMAIN me'[b] = Fields /\ me'[b].jobs = {[j EXCEPT !.age = @ + 1] : j \in me[b].jobs}
      BY <1>0, <3>1 DEF IsView, Fields
    <3>4. SameDeal(me[b], me'[b])
      BY <1>0, <3>1 DEF IsView, Fields, SameDeal
    <3> QED BY <3>2, <3>3, <3>4 DEF IsView
  <2>3. IsTable(me') /\ IsTable(out')
    BY <1>0, <2>1 DEF IsTable
  <2> QED BY <2>1, <2>2, <2>3, ElsewhereKeeps
<1>2. ASSUME NEW b \in Bot, NEW l, WindowEnds(b, l) PROVE DealInv'
  <2>1. me' = [me EXCEPT ![b].recent = @ \ {l}] /\ UNCHANGED <<members, ops, inbox, ask, out>>
    BY <1>2 DEF WindowEnds, channel
  <2>2. me'[b] = [me[b] EXCEPT !.recent = @ \ {l}] /\ \A x \in Bot \ {b} : me'[x] = me[x]
    BY <1>0, <2>1 DEF IsTable
  <2>3. IsView(me'[b]) /\ SameDeal(me[b], me'[b])
    BY <1>0, <2>2 DEF IsView, Fields, SameDeal
  <2>4. \A x \in Bot : IsView(me'[x]) /\ SameDeal(me[x], me'[x])
    BY <1>0, <2>2, <2>3 DEF SameDeal
  <2>5. IsTable(me') /\ IsTable(out')
    BY <1>0, <2>1 DEF IsTable
  <2> QED BY <2>1, <2>4, <2>5, ElsewhereKeeps
<1> QED BY <1>1, <1>2

\* Users that come, go and take other nicks: the bots stay.
LEMMA PassersBy ==
    ASSUME DealInv, NEW e, Tell(e, members), UNCHANGED <<out, ask, me>>, ops' \subseteq members',
           members' \cap Bot = members \cap Bot, ops' \cap Bot = ops \cap Bot,
           \A b \in Bot : \A p : p.o \subseteq p.m /\ p.m \subseteq Bot => Makes(b, e, p, p)
    PROVE  DealInv'
<1>0. IsTable(ask) /\ IsTable(out) /\ ops \subseteq members
  BY DEF DealInv
<1>1. ASSUME NEW b \in Bot, NEW p, Ends(b, members, ops, p) PROVE Ends(b, members', ops', p)
  BY <1>1 DEF Ends
<1>2. ASSUME NEW b \in Bot \cap members, NEW p, Ends(b, members, ops, p) PROVE Makes(b, e, p, p)
  <2>1. p.o \subseteq p.m /\ p.m \subseteq Bot
    BY <1>0, <1>2 DEF Ends
  <2> QED BY <2>1
<1> QED BY <1>0, <1>1, <1>2, TellKeeps DEF IsTable

LEMMA UsersKeep ==
    ASSUME DealInv, NEW u \in User, NEW w \in User,
           UserJoins(u) \/ UserParts(u) \/ UserRenames(u, w)
    PROVE  DealInv'
<1>0. ops \subseteq members /\ u \notin Bot /\ w \notin Bot
  BY Dealing DEF DealInv
<1>1. CASE UserJoins(u)
  <2> DEFINE e == [t |-> "join", u |-> u]
  <2>1. members' = members \cup {u} /\ ops' = ops /\ Tell(e, members) /\ UNCHANGED <<out, ask, me>>
    BY <1>1 DEF UserJoins, Quiet
  <2>2. e.t = "join" /\ e.u = u
    OBVIOUS
  <2> HIDE DEF e
  <2>3. \A b \in Bot : \A p : p.o \subseteq p.m /\ p.m \subseteq Bot => Makes(b, e, p, p)
    BY <1>0, <2>2 DEF Makes
  <2> QED BY <1>0, <2>1, <2>3, PassersBy
<1>2. CASE UserParts(u)
  <2> DEFINE e == [t |-> "part", u |-> u]
  <2>1. /\ members' = members \ {u} /\ ops' = ops \ {u} /\ Tell(e, members)
        /\ UNCHANGED <<out, ask, me>>
    BY <1>2 DEF UserParts, Quiet
  <2>2. e.t = "part" /\ e.u = u
    OBVIOUS
  <2> HIDE DEF e
  <2>3. \A b \in Bot : \A p : p.o \subseteq p.m /\ p.m \subseteq Bot => Makes(b, e, p, p)
    BY <1>0, <2>2 DEF Makes
  <2> QED BY <1>0, <2>1, <2>3, PassersBy
<1>3. CASE UserRenames(u, w)
  <2> DEFINE e == [t |-> "nick", u |-> u, w |-> w]
  <2>1. /\ members' = Renamed(members, u, w) /\ ops' = Renamed(ops, u, w) /\ Tell(e, members)
        /\ UNCHANGED <<out, ask, me>>
    BY <1>3 DEF UserRenames, Quiet
  <2>2. e.t = "nick" /\ e.u = u /\ e.w = w
    OBVIOUS
  <2> HIDE DEF e
  <2>3. \A b \in Bot : \A p : p.o \subseteq p.m /\ p.m \subseteq Bot => Makes(b, e, p, p)
    BY <1>0, <2>2 DEF Makes
  <2>4. /\ members' \cap Bot = members \cap Bot /\ ops' \cap Bot = ops \cap Bot
        /\ ops' \subseteq members'
    BY <1>0, <2>1 DEF Renamed
  <2> QED BY <2>1, <2>3, <2>4, PassersBy
<1> QED BY <1>1, <1>2, <1>3

\* Users that change the channel.
LEMMA ChanopsKeep ==
    ASSUME DealInv, NEW s,
           \/ \E u \in User : UserOps(s, u)
           \/ \E x \in Member : UserDeops(s, x) \/ UserKicks(s, x)
           \/ \E m \in Mask : UserBans(s, m)
           \/ UserModes(s)
    PROVE  DealInv'
<1>0. IsTable(out) /\ ops \subseteq members
  BY DEF DealInv
<1>1. ASSUME NEW a \in LineActs, NEW x, Works(Line(a, x)), Change(Line(a, x), s), Quiet
      PROVE  DealInv'
  <2>1. Line(a, x).act \in LineActs /\ UNCHANGED <<out, ask, me>>
    BY <1>1 DEF Line, Quiet
  <2> QED BY <1>0, <1>1, <2>1, ChangeKeeps DEF IsTable
<1>2. ASSUME NEW u \in User, UserOps(s, u) PROVE DealInv'
  <2>1. Works(Line("reop", u)) /\ Change(Line("reop", u), s) /\ Quiet
    BY <1>2 DEF UserOps, Works, Line
  <2> QED BY <1>1, <2>1 DEF LineActs
<1>3. ASSUME NEW x \in Member, UserDeops(s, x) PROVE DealInv'
  <2>1. Works(Line("deop", x)) /\ Change(Line("deop", x), s) /\ Quiet
    BY <1>3 DEF UserDeops, Works, Line
  <2> QED BY <1>1, <2>1 DEF LineActs
<1>4. ASSUME NEW x \in Member, UserKicks(s, x) PROVE DealInv'
  <2>1. Works(Line("kick", x)) /\ Change(Line("kick", x), s) /\ Quiet
    BY <1>4 DEF UserKicks, Works, Line
  <2> QED BY <1>1, <2>1 DEF LineActs
<1>5. ASSUME NEW m \in Mask, UserBans(s, m) PROVE DealInv'
  <2>1. Works(Line("ban", m)) /\ Change(Line("ban", m), s) /\ Quiet
    BY <1>5 DEF UserBans, Works, Line
  <2> QED BY <1>1, <2>1 DEF LineActs
<1>6. CASE UserModes(s)
  <2> DEFINE e == [t |-> "modes", clean |-> FALSE, s |-> s]
  <2>1. Tell(e, members) /\ UNCHANGED <<out, ask, me, members, ops>>
    BY <1>6 DEF UserModes, Quiet
  <2>2. e.t = "modes"
    OBVIOUS
  <2> HIDE DEF e
  <2>3. \A b \in Bot : \A p : p.o \subseteq p.m /\ p.m \subseteq Bot => Makes(b, e, p, p)
    BY <2>2 DEF Makes
  <2> QED BY <1>0, <2>1, <2>3, PassersBy
<1> QED BY <1>2, <1>3, <1>4, <1>5, <1>6

\* The admins: at most the reason to look at the ops changes in a picture.
LEMMA AdminsKeep ==
    ASSUME DealInv, AdminBitch \/ (\E m \in Mask : AdminBans(m)) \/ \E h : Authorise(h)
    PROVE  DealInv'
<1>1. (Look \/ me' = me) /\ UNCHANGED <<members, ops, inbox, ask, out>>
  BY DEF AdminBitch, AdminBans, Authorise, channel
<1>2. IsTable(me) /\ IsTable(out) /\ \A b \in Bot : IsView(me[b])
  BY DEF DealInv
<1>3. CASE me' = me
  BY <1>1, <1>2, <1>3, ElsewhereKeeps DEF SameDeal, IsTable
<1>4. CASE Look
  <2>1. me' = [b \in Bot |-> [me[b] EXCEPT !.check = TRUE]]
    BY <1>4 DEF Look
  <2>2. \A b \in Bot : IsView(me'[b]) /\ SameDeal(me[b], me'[b])
    BY <1>2, <2>1 DEF IsView, Fields, SameDeal
  <2>3. IsTable(me') /\ IsTable(out')
    BY <1>1, <1>2, <2>1 DEF IsTable
  <2> QED BY <1>1, <2>2, <2>3, ElsewhereKeeps
<1> QED BY <1>1, <1>3, <1>4

LEMMA DealStep == ASSUME DealInv, [Next]_vars PROVE DealInv'
<1>1. ASSUME NEW b \in Bot, Read(b) \/ Sweep(b) \/ jobs_tick(b) \/ Rejoin(b) \/ GetOps(b)
      PROVE  DealInv'
  BY <1>1, ReadKeeps, BotKeeps, ServerKeeps
<1>2. ASSUME NEW b \in Bot, NEW l, Take(b, l) PROVE DealInv'
  BY <1>2, TakeKeeps
<1>3. ASSUME NEW b \in Bot, NEW l, WindowEnds(b, l) \/ CheckEnds(b, l) PROVE DealInv'
  <2>1. ASSUME CheckEnds(b, l) PROVE DealInv'
    <3>1. IsTable(out') /\ \A x \in Bot : out'[x] \subseteq out[x]
      BY <2>1, CheckForgotten DEF DealInv
    <3> QED BY <2>1, <3>1, CheckForgotten, ElsewhereKeeps
  <2> QED BY <1>3, <2>1, TimeKeeps
<1>4. ASSUME NEW b \in Bot, NEW q, Answer(b, q) PROVE DealInv'
  BY <1>4, AnswerKeeps
<1>5. CASE Tick
  BY <1>5, TimeKeeps
<1>6. CASE Others
  BY <1>6, ChanopsKeep, UsersKeep, AdminsKeep DEF Others
<1>7. CASE UNCHANGED vars
  <2>1. UNCHANGED <<members, ops, inbox, ask, out, me>>
    BY <1>7 DEF vars, channel
  <2>2. IsTable(me') /\ IsTable(out') /\ \A b \in Bot : IsView(me'[b]) /\ SameDeal(me[b], me'[b])
    BY <2>1 DEF DealInv, SameDeal, IsTable
  <2> QED BY <2>1, <2>2, ElsewhereKeeps
<1> QED BY <1>1, <1>2, <1>3, <1>4, <1>5, <1>6, <1>7 DEF Next

\* Once every line is read and every answer is there, the bots with ops deal
\* over the same set, the bots with ops.
LEMMA SameDeals ==
    ASSUME DealInv, Settled, NEW b \in Bot
    PROVE  (me[b].opped <=> b \in ops) /\ (b \in ops => Dealt(b, me[b]) = ops \cap Bot)
<1>1. inbox[b] = <<>> /\ ask[b] = {}
  BY DEF Settled, InFlight
<1>2. Knows(b, me[b], inbox[b], ask[b], members, ops) /\ ops \subseteq members
  BY DEF DealInv
<1>3. PICK h : Story(b, inbox[b], members, ops, h) /\ Shows(b, me[b], WhoToCome(inbox[b], ask[b]), h[0])
  BY <1>2 DEF Knows
<1>4. Len(inbox[b]) = 0 /\ ~WhoToCome(inbox[b], ask[b])
  BY <1>1 DEF WhoToCome
<1>5. Ends(b, members, ops, h[0])
  BY <1>3, <1>4 DEF Story
<1>6. me[b].opped <=> b \in ops
  BY <1>2, <1>3, <1>5 DEF Shows, Ends
<1>7. ASSUME b \in ops PROVE Dealt(b, me[b]) = ops \cap Bot
  <2>1. me[b].roster \cap Bot = members \cap Bot /\ me[b].ops \cap Bot = ops \cap Bot
    BY <1>2, <1>3, <1>4, <1>5, <1>7 DEF Shows, Ends
  <2> QED BY <1>2, <1>7, <2>1 DEF Dealt
<1> QED BY <1>6, <1>7

\* The deal works without a word between the bots: once everybody has read
\* everything, every job has exactly one holder among the bots with ops, and
\* none when no bot has them (deal_rank): for any number of bots, whatever was
\* kicked, opped, banned or renamed on the way.
THEOREM OneActs == Spec => []OneHolder
<1>1. ASSUME DealInv PROVE OneHolder
  <2> SUFFICES ASSUME Settled, NEW job \in Range(JobOf)
               PROVE  Cardinality({b \in Bot : deal_rank(b, me[b], job) = 0})
                        = IF \E b \in Bot : b \in ops THEN 1 ELSE 0
    BY DEF OneHolder
  <2> DEFINE D == ops \cap Bot
             n == Cardinality(D)
             H == {b \in Bot : deal_rank(b, me[b], job) = 0}
             G == {b \in D : (Pos(D, b) + n - (job % n)) % n = 0}
  <2>1. job \in Nat
    BY DEF JobOf, Range
  <2>2. ASSUME NEW b \in Bot, b \notin ops PROVE deal_rank(b, me[b], job) # 0
    <3>1. ~me[b].opped
      BY <1>1, <2>2, SameDeals
    <3>2. deal_rank(b, me[b], job) = -1
      BY <3>1 DEF deal_rank
    <3> QED BY <3>2
  <2>3. ASSUME NEW b \in D
        PROVE  deal_rank(b, me[b], job) = (Pos(D, b) + n - (job % n)) % n
    <3>1. me[b].opped /\ Dealt(b, me[b]) = D
      BY <1>1, <2>3, SameDeals
    <3> HIDE DEF D
    <3> QED BY <3>1 DEF deal_rank, Pos, Before
  <2>4. H = G
    BY <2>2, <2>3
  <2>5. CASE \E b \in Bot : b \in ops
    <3>1. D # {} /\ D \in SUBSET Bot
      BY <2>5
    <3>2. Cardinality(G) = 1
      BY <2>1, <3>1, OneOf
    <3> QED BY <2>4, <2>5, <3>2
  <2>6. CASE ~\E b \in Bot : b \in ops
    <3>1. H = {}
      BY <2>2, <2>6
    <3> QED BY <2>6, <3>1, FS_EmptySet
  <2> QED BY <2>5, <2>6
<1>2. Init => DealInv
  BY DealInit
<1>3. DealInv /\ [Next]_vars => DealInv'
  BY DealStep
<1> QED BY <1>1, <1>2, <1>3, PTL DEF Spec

---------------------------------------------------------------------------
(***************************************************************************)
(* The authorised are spared.  A bot acts on the picture it has once it    *)
(* has read its line; the checks of act_ban it keeps are as before.        *)
(***************************************************************************)
Looks(b, v) == \E w, S : /\ Submit(b, w, S) /\ IsView(w) /\ w.passed = v.passed
                         /\ \A j \in S : IsJob(j)

\* Windows and offences are kept apart from the checks.
LEMMA OtherNotes ==
    ASSUME NEW v, IsView(v)
    PROVE  /\ \A a, t : IsView(Ack(v, a, t)) /\ Ack(v, a, t).passed = v.passed
           /\ \A s : IsView(offence(v, s)) /\ offence(v, s).passed = v.passed
           /\ \A u : IsView(Opped(v, u)) /\ Opped(v, u).passed = v.passed
BY DEF IsView, Fields, Ack, offence, Opped

LEMMA LooksPlainly ==
    ASSUME NEW b, NEW v, NEW e, IsView(v),
           \/ SeeUnban(b, v, e) \/ SeePart(b, v, e) \/ SeeNick(b, v, e) \/ SeeWho(b, v, e)
           \/ SeeState(b, v, e) \/ SeeBanList(b, v, e)
    PROVE  Looks(b, v)
<1>1. ASSUME NEW w, Plain(b, w), IsView(w), w.passed = v.passed PROVE Looks(b, v)
  BY <1>1 DEF Looks, Plain
<1>2. CASE SeeUnban(b, v, e)
  <2> DEFINE u == [v EXCEPT !.bans = @ \ {e.m}]
  <2>1. IsView(u) /\ u.passed = v.passed
    BY DEF IsView, Fields
  <2>2. Plain(b, Ack(u, "unban", e.m))
    BY <1>2, Zenon DEF SeeUnban
  <2> HIDE DEF u
  <2> QED BY <1>1, <2>1, <2>2, OtherNotes
<1>3. CASE SeePart(b, v, e)
  <2> DEFINE w == [v EXCEPT !.roster = @ \ {e.u}, !.ops = @ \ {e.u}]
  <2>1. Plain(b, w)
    BY <1>3, Zenon DEF SeePart
  <2>2. IsView(w) /\ w.passed = v.passed
    BY DEF IsView, Fields
  <2> HIDE DEF w
  <2> QED BY <1>1, <2>1, <2>2
<1>4. CASE SeeNick(b, v, e)
  <2> DEFINE w == [v EXCEPT !.roster = Renamed(@, e.u, e.w), !.ops = Renamed(@, e.u, e.w)]
  <2>1. Plain(b, w)
    BY <1>4, Zenon DEF SeeNick
  <2>2. IsView(w) /\ w.passed = v.passed
    BY DEF IsView, Fields
  <2> HIDE DEF w
  <2> QED BY <1>1, <2>1, <2>2
<1>5. CASE SeeWho(b, v, e)
  <2> DEFINE w == [v EXCEPT !.roster = @ \cup e.members, !.check = TRUE,
                            !.ops = (@ \ e.members) \cup e.ops, !.opped = b \in e.ops]
  <2>1. Plain(b, w)
    BY <1>5, Zenon DEF SeeWho
  <2>2. IsView(w) /\ w.passed = v.passed
    BY DEF IsView, Fields
  <2> HIDE DEF w
  <2> QED BY <1>1, <2>1, <2>2
<1>6. CASE SeeState(b, v, e)
  <2> DEFINE w == [v EXCEPT !.known = TRUE, !.clean = e.clean]
  <2>1. Plain(b, w)
    BY <1>6, Zenon DEF SeeState
  <2>2. IsView(w) /\ w.passed = v.passed
    BY DEF IsView, Fields
  <2> HIDE DEF w
  <2> QED BY <1>1, <2>1, <2>2
<1>7. CASE SeeBanList(b, v, e)
  <2> DEFINE w == [v EXCEPT !.listed = TRUE, !.bans = e.bans]
  <2>1. Plain(b, w)
    BY <1>7, Zenon DEF SeeBanList
  <2>2. IsView(w) /\ w.passed = v.passed
    BY DEF IsView, Fields
  <2> HIDE DEF w
  <2> QED BY <1>1, <2>1, <2>2
<1> QED BY <1>2, <1>3, <1>4, <1>5, <1>6, <1>7

LEMMA LooksAtOps ==
    ASSUME NEW b, NEW v, NEW e, IsView(v), SeeOp(b, v, e) \/ SeeDeop(b, v, e)
    PROVE  Looks(b, v)
<1>1. CASE SeeOp(b, v, e) /\ e.u = b
  <2> DEFINE w == [Opped(v, b) EXCEPT !.opped = TRUE, !.check = TRUE]
  <2>1. Submit(b, w, {})
    BY <1>1, Zenon DEF SeeOp
  <2>2. IsView(w) /\ w.passed = v.passed
    BY DEF IsView, Fields, Opped
  <2> HIDE DEF w
  <2> QED BY <2>1, <2>2 DEF Looks
<1>2. CASE SeeOp(b, v, e) /\ e.u # b
  <2> DEFINE w == Ack(Opped(v, e.u), "reop", e.u)
             S == IF e.u \notin v.roster \/ Authorised(e.u) THEN {}
                  ELSE IF bitch THEN {Job("deop", e.u, "bitch")}
                  ELSE IF On("stopnethack") /\ e.s = "server" THEN {Job("deop", e.u, "stopnethack")}
                  ELSE {}
  <2>1. Submit(b, w, S)
    BY <1>2, Zenon DEF SeeOp
  <2>2. IsView(w) /\ w.passed = v.passed
    BY OtherNotes
  <2>3. \A j \in S : IsJob(j)
    BY JobsAreJobs DEF LineActs
  <2> HIDE DEF w, S
  <2> QED BY <2>1, <2>2, <2>3 DEF Looks
<1>3. CASE SeeDeop(b, v, e) /\ e.u = b
  <2> DEFINE w == [v EXCEPT !.opped = FALSE, !.roster = {}, !.ops = {}]
  <2>1. Submit(b, w, {})
    BY <1>3, Zenon DEF SeeDeop
  <2>2. IsView(w) /\ w.passed = v.passed
    BY DEF IsView, Fields
  <2> HIDE DEF w
  <2> QED BY <2>1, <2>2 DEF Looks
<1>4. CASE SeeDeop(b, v, e) /\ e.u # b
  <2> DEFINE u == [v EXCEPT !.ops = @ \ {e.u}]
             w == Ack(u, "deop", e.u)
             hurt == e.u \in v.roster /\ Authorised(e.u) /\ Unauthorised(e.s)
             f == IF hurt /\ On("revenge") THEN offence(w, e.s) ELSE w
             S == IF ~hurt THEN {}
                  ELSE {j \in {Job("reop", e.u, "protectops")} : On("protectops")}
                       \cup {j \in Revenge(v, e.s) : On("revenge")}
  <2>1. Submit(b, f, S)
    BY <1>4, Zenon DEF SeeDeop
  <2>2. IsView(u) /\ u.passed = v.passed
    BY DEF IsView, Fields
  <2>3. \A j \in S : IsJob(j)
    BY JobsAreJobs DEF LineActs
  <2> HIDE DEF u, S
  <2>4. IsView(w) /\ w.passed = v.passed
    BY <2>2, OtherNotes
  <2> HIDE DEF w
  <2>5. IsView(f) /\ f.passed = v.passed
    BY <2>4, OtherNotes
  <2> HIDE DEF f
  <2> QED BY <2>1, <2>3, <2>5 DEF Looks
<1> QED BY <1>1, <1>2, <1>3, <1>4

LEMMA LooksAtHarm ==
    ASSUME NEW b, NEW v, NEW e, IsView(v),
           SeeBan(b, v, e) \/ SeeModes(b, v, e) \/ SeeKick(b, v, e) \/ SeeJoin(b, v, e)
    PROVE  Looks(b, v)
<1>1. CASE SeeBan(b, v, e)
  <2> DEFINE hurt == On("revenge") /\ Unauthorised(e.s) /\ HitsAuthorised(v, e.m)
             w == [v EXCEPT !.bans = @ \cup {e.m}]
             f == IF hurt THEN offence(w, e.s) ELSE w
             S == IF hurt THEN Revenge(v, e.s) ELSE {}
  <2>1. Submit(b, f, S)
    BY <1>1, Zenon DEF SeeBan
  <2>2. IsView(w) /\ w.passed = v.passed
    BY DEF IsView, Fields
  <2>3. \A j \in S : IsJob(j)
    BY JobsAreJobs
  <2> HIDE DEF w, S
  <2>4. IsView(f) /\ f.passed = v.passed
    BY <2>2, OtherNotes
  <2> HIDE DEF f
  <2> QED BY <2>1, <2>3, <2>4 DEF Looks
<1>2. CASE SeeModes(b, v, e)
  <2> DEFINE done == e.clean /\ v.known
             w == [v EXCEPT !.clean = e.clean, !.jobs = {j \in @ : ~(done /\ j.act = "mode")}]
             f == IF done /\ e.s = b THEN Ack(w, "mode", Chan) ELSE w
             S == IF ~done /\ e.s # b /\ On("enforcemodes") THEN {Job("mode", Chan, "modes")} ELSE {}
  <2>1. Submit(b, f, S)
    BY <1>2, Zenon DEF SeeModes
  <2>2. IsView(w) /\ w.passed = v.passed
    BY DEF IsView, Fields
  <2>3. \A j \in S : IsJob(j)
    BY JobsAreJobs DEF LineActs
  <2> HIDE DEF w, S
  <2>4. IsView(f) /\ f.passed = v.passed
    BY <2>2, OtherNotes
  <2> HIDE DEF f
  <2> QED BY <2>1, <2>3, <2>4 DEF Looks
<1>3. CASE SeeKick(b, v, e) /\ e.u = b
  <2> DEFINE w == [v EXCEPT !.in = FALSE, !.opped = FALSE, !.known = FALSE, !.clean = TRUE,
                            !.listed = FALSE, !.bans = {}]
  <2>1. Submit(b, w, {})
    BY <1>3, Zenon DEF SeeKick
  <2>2. IsView(w) /\ w.passed = v.passed
    BY DEF IsView, Fields
  <2> HIDE DEF w
  <2> QED BY <2>1, <2>2 DEF Looks
<1>4. CASE SeeKick(b, v, e) /\ e.u # b
  <2> DEFINE u == [v EXCEPT !.roster = @ \ {e.u}, !.ops = @ \ {e.u}]
             w == Ack(u, "kick", e.u)
             hurt == e.u \in v.roster /\ Authorised(e.u) /\ Unauthorised(e.s) /\ On("revenge")
             f == IF hurt THEN offence(w, e.s) ELSE w
             S == IF hurt THEN Revenge(v, e.s) ELSE {}
  <2>1. Submit(b, f, S)
    BY <1>4, Zenon DEF SeeKick
  <2>2. IsView(u) /\ u.passed = v.passed
    BY DEF IsView, Fields
  <2>3. \A j \in S : IsJob(j)
    BY JobsAreJobs
  <2> HIDE DEF u, S
  <2>4. IsView(w) /\ w.passed = v.passed
    BY <2>2, OtherNotes
  <2> HIDE DEF w
  <2>5. IsView(f) /\ f.passed = v.passed
    BY <2>4, OtherNotes
  <2> HIDE DEF f
  <2> QED BY <2>1, <2>3, <2>5 DEF Looks
<1>5. CASE SeeJoin(b, v, e) /\ e.u = b
  <2> DEFINE w == [v EXCEPT !.in = TRUE, !.opped = FALSE, !.roster = {}, !.ops = {},
                            !.known = FALSE, !.clean = TRUE, !.listed = FALSE, !.bans = {}]
  <2>1. Submit(b, w, {})
    BY <1>5, Zenon DEF SeeJoin
  <2>2. IsView(w) /\ w.passed = v.passed
    BY DEF IsView, Fields
  <2> HIDE DEF w
  <2> QED BY <2>1, <2>2 DEF Looks
<1>6. CASE SeeJoin(b, v, e) /\ e.u # b
  <2> DEFINE w == [v EXCEPT !.roster = @ \cup {e.u}, !.ops = @ \ {e.u}]
  <2>1. Submit(b, w, {})
    BY <1>6, Zenon DEF SeeJoin, Plain
  <2>2. IsView(w) /\ w.passed = v.passed
    BY DEF IsView, Fields
  <2> HIDE DEF w
  <2> QED BY <2>1, <2>2 DEF Looks
<1> QED BY <1>1, <1>2, <1>3, <1>4, <1>5, <1>6

\* Whoever sends lines does so with the checks it kept.
LEMMA SendsLooking ==
    ASSUME DealInv, NEW b \in Bot, Read(b) \/ Sweep(b) \/ jobs_tick(b)
    PROVE  \E w, J : Execute(b, w, J) /\ IsView(w) /\ w.passed = me[b].passed
<1>0. IsView(me[b])
  BY DEF DealInv
<1>1. ASSUME Looks(b, me[b])
      PROVE  \E w, J : Execute(b, w, J) /\ IsView(w) /\ w.passed = me[b].passed
  <2>1. PICK u, S : /\ Submit(b, u, S) /\ IsView(u) /\ u.passed = me[b].passed
                    /\ \A j \in S : IsJob(j)
    BY <1>1 DEF Looks
  <2> QED BY <2>1, Submitted
<1>2. CASE Read(b)
  <2>1. See(b, me[b], Head(inbox[b]))
    BY <1>2 DEF Read
  <2>2. Looks(b, me[b])
    BY <1>0, <2>1, LooksPlainly, LooksAtOps, LooksAtHarm DEF See
  <2> QED BY <1>1, <2>2
<1>3. CASE Sweep(b)
  <2> DEFINE v == [me[b] EXCEPT !.check = FALSE]
  <2>1. PICK skip, idle : Submit(b, v, OpWork(me[b]) \cup ModeWork(me[b]) \cup BanWork(me[b], skip, idle))
    BY <1>3, Zenon DEF Sweep, chan_sweep
  <2>2. IsView(v) /\ v.passed = me[b].passed
    BY <1>0 DEF IsView, Fields
  <2> HIDE DEF v
  <2>3. Looks(b, me[b])
    BY <2>1, <2>2, SweepJobs DEF Looks
  <2> QED BY <1>1, <2>3
<1>4. CASE jobs_tick(b)
  <2>1. PICK due \in SUBSET me[b].jobs :
              Execute(b, [me[b] EXCEPT !.jobs = @ \ due], {j \in due : Runs(b, j)})
    BY <1>4 DEF jobs_tick
  <2> DEFINE w == [me[b] EXCEPT !.jobs = @ \ due]
  <2>2. IsView(w) /\ w.passed = me[b].passed
    BY <1>0 DEF IsView, Fields
  <2> HIDE DEF w
  <2> QED BY <2>1, <2>2 DEF w
<1> QED BY <1>2, <1>3, <1>4

\* The other steps add no line.
LEMMA SendersLook ==
    ASSUME DealInv, [Next]_vars
    PROVE  \/ \E b \in Bot : \E w, J : Execute(b, w, J) /\ IsView(w) /\ w.passed = me[b].passed
           \/ \A b \in Bot : out'[b] \subseteq out[b]
<1>1. CASE \E b \in Bot : Read(b) \/ Sweep(b) \/ jobs_tick(b)
  BY <1>1, SendsLooking
<1>2. CASE ~\E b \in Bot : Read(b) \/ Sweep(b) \/ jobs_tick(b)
  BY <1>2, OthersSilent DEF DealInv
<1> QED BY <1>1, <1>2

\* Whatever was true when the work was queued, no line against an authorised
\* user leaves a bot, nor a ban on one it sees in the channel; an absent one is
\* hit only while the bot keeps a check of that mask from before there was a
\* record of them (act_deop, act_kick, act_ban, auto_ban_mask): for any users,
\* masks and settings, and any order of lines, sweeps and due jobs.
THEOREM SparesAuthorised == Spec => AuthorisedSpared
<1> DEFINE Step == \A b \in Bot : \A l \in out'[b] \ out[b] :
                     /\ l.act \in {"deop", "kick"} => ~Authorised(l.tgt)
                     /\ l.act = "ban" => \A x \in auth : Matches(l.tgt, x) =>
                                             x \notin me'[b].roster /\ l.tgt \in me[b].passed
<1>1. ASSUME DealInv, [Next]_vars PROVE Step
  <2>1. IsTable(out) /\ IsTable(me) /\ \A x \in Bot : IsView(me[x])
    BY <1>1 DEF DealInv
  <2>2. ASSUME NEW b \in Bot, NEW w, NEW J, Execute(b, w, J), IsView(w), w.passed = me[b].passed
        PROVE  Step
    <3>1. me'[b].roster = w.roster
      BY <2>1, <2>2, Pictured DEF SameDeal
    <3>2. \A x \in Bot : \A l \in out'[x] \ out[x] : x = b /\ Spares(w, l)
      BY <2>1, <2>2, Executed
    <3> QED BY <2>2, <3>1, <3>2 DEF Spares
  <2>3. CASE \A b \in Bot : out'[b] \subseteq out[b]
    BY <2>3
  <2> QED BY <1>1, <2>2, <2>3, SendersLook
<1>2. Init => DealInv
  BY DealInit
<1>3. DealInv /\ [Next]_vars => DealInv'
  BY DealStep
<1>4. DealInv /\ [Next]_vars => [Step]_vars
  BY <1>1
<1> QED BY <1>2, <1>3, <1>4, PTL DEF Spec, AuthorisedSpared

Mode(S) == {x \in S : x.act = "mode"}
Revert == Line("mode", Chan)

\* A user moved the modes; bot s moved them back.
Moved(e) == e.t = "modes" /\ ~e.clean /\ e.s \notin Bot
Reverted(e, s) == e.t = "modes" /\ e.clean /\ e.s = s

\* Of modes, box tells at most this: that they were moved (if f), then that s
\* moved them back (if t), each once.
News(box, s, f, t) ==
    /\ \A i \in 1..Len(box) : box[i].t = "modes" => \/ f /\ Moved(box[i])
                                                    \/ t /\ Reverted(box[i], s)
    /\ f => \E i \in 1..Len(box) : Moved(box[i])
    /\ t => \E i \in 1..Len(box) : Reverted(box[i], s)
    /\ \A i, j \in 1..Len(box) : /\ Moved(box[i]) /\ Moved(box[j]) => i = j
                                 /\ Reverted(box[i], s) /\ Reverted(box[j], s) => i = j
                                 /\ Moved(box[i]) /\ Reverted(box[j], s) => i < j

LEMMA NewsTold ==
    ASSUME NEW box, IsSeq(box), NEW e, NEW s, NEW f \in BOOLEAN, NEW t \in BOOLEAN,
           News(box, s, f, t)
    PROVE  /\ e.t # "modes" => News(Append(box, e), s, f, t)
           /\ Reverted(e, s) /\ ~t => News(Append(box, e), s, f, TRUE)
<1> DEFINE new == Append(box, e)
           L == Len(box)
<1>1. L \in Nat /\ Len(new) = L + 1 /\ new[L + 1] = e /\ \A k \in 1..L : new[k] = box[k]
  BY SeqFacts
<1>2. \A k \in 1..Len(new) : k \in 1..L \/ k = L + 1
  BY <1>1
<1>3. 1..L \subseteq 1..Len(new) /\ L + 1 \in 1..Len(new)
  BY <1>1
<1> HIDE DEF new
<1>4. ASSUME e.t # "modes" PROVE News(new, s, f, t)
  <2>1. ~Moved(e) /\ ~Reverted(e, s)
    BY <1>4 DEF Moved, Reverted
  <2> QED BY <1>1, <1>2, <1>3, <1>4, <2>1 DEF News
<1>5. ASSUME Reverted(e, s), ~t PROVE News(new, s, f, TRUE)
  <2>1. ~Moved(e) /\ e.t = "modes"
    BY <1>5 DEF Moved, Reverted
  <2>2. \A i \in 1..L : ~Reverted(box[i], s)
    BY <1>5 DEF News, Moved, Reverted
  <2> QED BY <1>1, <1>2, <1>3, <1>5, <2>1, <2>2 DEF News
<1> QED BY <1>4, <1>5 DEF new

LEMMA NewsRead ==
    ASSUME NEW box, IsSeq(box), box # <<>>, NEW s, NEW f \in BOOLEAN, NEW t \in BOOLEAN,
           News(box, s, f, t)
    PROVE  /\ Head(box).t # "modes" => News(Tail(box), s, f, t)
           /\ Head(box).t = "modes" =>
                 \/ f = TRUE /\ Moved(Head(box)) /\ News(Tail(box), s, FALSE, t)
                 \/ /\ f = FALSE /\ t = TRUE /\ Reverted(Head(box), s)
                    /\ News(Tail(box), s, FALSE, FALSE)
<1> DEFINE new == Tail(box)
           L == Len(box)
           e == Head(box)
<1>1. /\ L \in Nat /\ L > 0 /\ Len(new) = L - 1 /\ e = box[1]
      /\ \A k \in 1..L - 1 : new[k] = box[k + 1]
  BY SeqFacts
<1> HIDE DEF new, e
<1>2. /\ \A k \in 1..Len(new) : k + 1 \in 1..L /\ k + 1 # 1 /\ new[k] = box[k + 1]
      /\ \A k \in 1..L : k # 1 => k - 1 \in 1..Len(new) /\ new[k - 1] = box[k]
      /\ 1 \in 1..L
  BY <1>1
<1>3. \A i, j \in 1..Len(new) : /\ i + 1 = j + 1 => i = j
                                /\ i + 1 < j + 1 => i < j
  BY <1>1
<1>4. CASE e.t # "modes"
  <2>1. ~Moved(e) /\ ~Reverted(e, s)
    BY <1>4 DEF Moved, Reverted
  <2>2. /\ f => \E i \in 1..Len(new) : Moved(new[i])
        /\ t => \E i \in 1..Len(new) : Reverted(new[i], s)
    BY <1>1, <1>2, <2>1 DEF News
  <2>3. News(new, s, f, t)
    BY <1>1, <1>2, <1>3, <2>2, SMTT(30), ZenonT(30) DEF News
  <2> QED BY <1>4, <2>3 DEF new, e
<1>5. CASE Moved(e)
  <2>1. f /\ ~Reverted(e, s)
    BY <1>1, <1>2, <1>5 DEF News, Moved, Reverted
  <2>2. \A k \in 1..Len(new) : ~Moved(new[k])
    BY <1>1, <1>2, <1>5 DEF News
  <2>3. t => \E i \in 1..Len(new) : Reverted(new[i], s)
    BY <1>1, <1>2, <2>1 DEF News
  <2>4. News(new, s, FALSE, t)
    BY <1>2, <1>3, <2>2, <2>3 DEF News
  <2>5. f = TRUE /\ e.t = "modes"
    BY <1>5, <2>1 DEF Moved
  <2> QED BY <1>5, <2>4, <2>5 DEF new, e
<1>6. CASE Reverted(e, s)
  <2>1. t /\ ~Moved(e)
    BY <1>1, <1>2, <1>6 DEF News, Moved, Reverted
  <2>2. \A k \in 1..Len(new) : ~Reverted(new[k], s) /\ ~Moved(new[k])
    <3>1. ASSUME NEW k \in 1..Len(new) PROVE ~Reverted(new[k], s) /\ ~Moved(new[k])
      <4>1. k + 1 \in 1..L /\ k + 1 # 1 /\ ~(k + 1 < 1) /\ new[k] = box[k + 1]
        BY <1>1, <1>2
      <4> QED BY <1>1, <1>2, <1>6, <4>1 DEF News
    <3> QED BY <3>1
  <2>3. ~f
    <3>1. \A k \in 1..L : ~Moved(box[k])
      BY <1>1, <1>2, <2>1, <2>2
    <3> QED BY <3>1 DEF News
  <2>4. \A k \in 1..Len(new) : new[k].t # "modes"
    BY <1>2, <2>2 DEF News
  <2>5. News(new, s, FALSE, FALSE)
    BY <2>2, <2>4 DEF News
  <2>6. f = FALSE /\ t = TRUE /\ e.t = "modes"
    BY <1>6, <2>1, <2>3 DEF Reverted
  <2> QED BY <1>6, <2>5, <2>6 DEF new, e
<1>7. e.t = "modes" => Moved(e) \/ Reverted(e, s)
  BY <1>1, <1>2 DEF News
<1> QED BY <1>4, <1>5, <1>6, <1>7 DEF new, e

---------------------------------------------------------------------------
\* Holding the job of the modes among the bots of D.
Holds(D, b) == /\ On("enforcemodes") /\ b \in D
               /\ (Pos(D, b) + Cardinality(D) - (3 % Cardinality(D))) % Cardinality(D) = 0

LEMMA ModeHolder ==
    ASSUME NEW D \in SUBSET Bot
    PROVE  /\ \A a, b \in Bot : Holds(D, a) /\ Holds(D, b) => a = b
           /\ On("enforcemodes") /\ D # {} => \E b \in Bot : Holds(D, b)
           /\ \A b \in Bot : \A v : v.opped /\ Dealt(b, v) = D /\ b \in D =>
                 /\ deal_rank(b, v, JobOf["mode"]) \in Nat
                 /\ On("enforcemodes") => (deal_rank(b, v, JobOf["mode"]) = 0 <=> Holds(D, b))
<1> DEFINE n == Cardinality(D)
<1>1. CASE D = {}
  BY <1>1 DEF Holds
<1>2. CASE D # {}
  <2>1. n \in Nat \ {0} /\ \A b \in D : Pos(D, b) \in 0..n - 1
    BY <1>2, Places
  <2>2. 3 % n \in 0..n - 1
    BY <2>1
  <2>3. PICK h \in D : \A a \in D : Pos(D, a) = 3 % n <=> a = h
    BY <1>2, <2>2, Places
  <2>4. \A a \in D : (Pos(D, a) + n - (3 % n)) % n = 0 <=> a = h
    <3> HIDE DEF n
    <3> QED BY <2>1, <2>2, <2>3, RoundTrip
  <2>5. \A b \in Bot : Holds(D, b) <=> On("enforcemodes") /\ b = h
    BY <2>4 DEF Holds
  <2>6. ASSUME NEW b \in D, NEW v, v.opped, Dealt(b, v) = D
        PROVE  /\ deal_rank(b, v, JobOf["mode"]) \in Nat
               /\ On("enforcemodes") => (deal_rank(b, v, JobOf["mode"]) = 0 <=> Holds(D, b))
    <3>1. JobOf["mode"] = 3
      BY DEF JobOf
    <3>2. deal_rank(b, v, 3) = (Pos(D, b) + n - (3 % n)) % n
      BY <2>6 DEF deal_rank, Pos, Before
    <3>3. (Pos(D, b) + n - (3 % n)) % n \in Nat
      <4> DEFINE x == Pos(D, b) + n - (3 % n)
      <4>1. x \in Int
        BY <2>1, <2>2
      <4> HIDE DEF x, n
      <4> QED BY <2>1, <4>1 DEF x
    <3> QED BY <2>6, <3>1, <3>2, <3>3 DEF Holds
  <2> QED BY <2>5, <2>6
<1> QED BY <1>1, <1>2

\* A line that says nothing of the bots.
NoDeal(e) == \/ e.t \in {"modes", "+b", "-b"}
             \/ e.t \in {"+o", "-o", "kick"} /\ e.u \notin Bot

\* What the handlers of the other lines do to the work for the modes, and to
\* what a bot knows of them.
Unmoved(b, e, v) ==
    \E w, S : /\ Submit(b, w, S) /\ IsView(w) /\ (\A j \in S : IsJob(j)) /\ Mode(S) = {}
              /\ w.jobs = v.jobs /\ Mode(w.recent) = Mode(v.recent)
              /\ \A x \in Bot : ask[x] \subseteq ask'[x]
              /\ w.in /\ ~w.known => "modes" \in ask'[b] \/ (v.in /\ ~v.known /\ e.t # "324")
              /\ NoDeal(e) => /\ w.in = v.in /\ w.opped = v.opped /\ w.known = v.known
                              /\ Dealt(b, w) = Dealt(b, v) /\ ask' = ask

\* The fields of a picture that concern them.
SameModes(v, w) == w.jobs = v.jobs /\ Mode(w.recent) = Mode(v.recent) /\ w.known = v.known

LEMMA OtherJobs ==
    /\ \A a, t, y : a # "mode" => Mode({Job(a, t, y)}) = {}
    /\ \A v, u : Mode(Revenge(v, u)) = {}
<1>1. \A a, t, y : Job(a, t, y).act = a
  BY DEF Job
<1> QED BY <1>1 DEF Mode, Revenge

LEMMA OtherWindows ==
    ASSUME NEW v, IsView(v), NEW a, NEW x, a # "mode"
    PROVE  IsView(Ack(v, a, x)) /\ SameDeal(v, Ack(v, a, x)) /\ SameModes(v, Ack(v, a, x))
<1> DEFINE w == Ack(v, a, x)
<1>1. IsView(w) /\ SameDeal(v, w) /\ w.jobs = v.jobs /\ w.known = v.known
      /\ w.recent = v.recent \ {Line(a, x)}
  BY DEF Ack, IsView, Fields, SameDeal
<1>2. Line(a, x).act # "mode"
  BY DEF Line
<1>3. Mode(w.recent) = Mode(v.recent)
  BY <1>1, <1>2 DEF Mode
<1> QED BY <1>1, <1>3 DEF SameModes

LEMMA OffenceModes ==
    ASSUME NEW v, IsView(v), NEW s
    PROVE  IsView(offence(v, s)) /\ SameDeal(v, offence(v, s)) /\ SameModes(v, offence(v, s))
BY DEF offence, IsView, Fields, SameDeal, SameModes

\* A handler that asks nothing, and leaves what the bot knows of the modes.
LEMMA UnmovedBy ==
    ASSUME NEW b \in Bot, NEW e, NEW v, NEW w, NEW S, Submit(b, w, S), IsView(w),
           \A j \in S : IsJob(j), Mode(S) = {}, ask' = ask, SameModes(v, w), w.in = v.in,
           e.t # "324", NoDeal(e) => w.opped = v.opped /\ Dealt(b, w) = Dealt(b, v)
    PROVE  Unmoved(b, e, v)
BY DEF Unmoved, SameModes

LEMMA SeeOpUnmoved ==
    ASSUME NEW b \in Bot, NEW v, IsView(v), NEW e, SeeOp(b, v, e) PROVE Unmoved(b, e, v)
<1>1. e.t = "+o" /\ UNCHANGED ask
  BY DEF SeeOp
<1>2. CASE e.u = b
  <2> DEFINE w == [Opped(v, b) EXCEPT !.opped = TRUE, !.check = TRUE]
  <2>1. Submit(b, w, {})
    BY <1>2, Zenon DEF SeeOp
  <2>2. IsView(w) /\ w.in = v.in /\ SameModes(v, w)
    BY DEF IsView, Fields, Opped, SameModes
  <2> HIDE DEF w
  <2>3. ~NoDeal(e) /\ Mode({}) = {}
    BY <1>1, <1>2 DEF NoDeal, Mode
  <2> QED BY <1>1, <2>1, <2>2, <2>3, UnmovedBy
<1>3. CASE e.u # b
  <2> DEFINE u == Opped(v, e.u)
             w == Ack(u, "reop", e.u)
  <2>1. PICK S : Submit(b, w, S) /\ (\A j \in S : IsJob(j)) /\ Mode(S) = {}
    <3>1. Mode({}) = {}
      BY DEF Mode
    <3>2. PICK S : Submit(b, w, S) /\ (S = {} \/ \E y : S = {Job("deop", e.u, y)})
      BY <1>3 DEF SeeOp
    <3> QED BY <3>1, <3>2, JobsAreJobs, OtherJobs DEF LineActs
  <2>2. /\ IsView(u) /\ u.in = v.in /\ u.opped = v.opped /\ u.roster = v.roster
        /\ u.ops = (IF e.u \in v.roster THEN v.ops \cup {e.u} ELSE v.ops) /\ SameModes(v, u)
    BY DEF IsView, Fields, Opped, SameModes
  <2> HIDE DEF u
  <2>3. IsView(w) /\ SameDeal(u, w) /\ SameModes(u, w)
    BY <2>2, OtherWindows
  <2> HIDE DEF w
  <2>4. w.in = v.in /\ w.opped = v.opped /\ SameModes(v, w)
    BY <2>2, <2>3 DEF SameDeal, SameModes
  <2>5. NoDeal(e) => Dealt(b, w) = Dealt(b, v)
    BY <1>1, <2>2, <2>3 DEF NoDeal, Dealt, SameDeal
  <2> QED BY <1>1, <2>1, <2>3, <2>4, <2>5, UnmovedBy
<1> QED BY <1>2, <1>3

LEMMA SeeDeopUnmoved ==
    ASSUME IsTable(ask), NEW b \in Bot, NEW v, IsView(v), NEW e, SeeDeop(b, v, e)
    PROVE  Unmoved(b, e, v)
<1>1. e.t = "-o"
  BY DEF SeeDeop
<1>2. CASE e.u = b
  <2> DEFINE w == [v EXCEPT !.opped = FALSE, !.roster = {}, !.ops = {}]
  <2>1. Submit(b, w, {}) /\ Asks(b, {"who"})
    BY <1>2, Zenon DEF SeeDeop
  <2>2. IsView(w) /\ w.in = v.in /\ SameModes(v, w)
    BY DEF IsView, Fields, SameModes
  <2> HIDE DEF w
  <2>3. ~NoDeal(e) /\ Mode({}) = {} /\ \A x \in Bot : ask[x] \subseteq ask'[x]
    BY <1>1, <1>2, <2>1 DEF NoDeal, Mode, Asks, IsTable
  <2> QED BY <1>1, <2>1, <2>2, <2>3 DEF Unmoved, SameModes
<1>3. CASE e.u # b
  <2> DEFINE u == [v EXCEPT !.ops = @ \ {e.u}]
             w == Ack(u, "deop", e.u)
             hurt == e.u \in v.roster /\ Authorised(e.u) /\ Unauthorised(e.s)
             f == IF hurt /\ On("revenge") THEN offence(w, e.s) ELSE w
             S == IF ~hurt THEN {}
                  ELSE {j \in {Job("reop", e.u, "protectops")} : On("protectops")}
                       \cup {j \in Revenge(v, e.s) : On("revenge")}
  <2>1. Submit(b, f, S) /\ UNCHANGED ask
    BY <1>3, Zenon DEF SeeDeop
  <2>2. /\ IsView(u) /\ u.in = v.in /\ u.opped = v.opped /\ u.roster = v.roster
        /\ u.ops = v.ops \ {e.u} /\ SameModes(v, u)
    BY DEF IsView, Fields, SameModes
  <2>3. (\A j \in S : IsJob(j)) /\ Mode(S) = {}
    <3>1. \A j \in S : IsJob(j)
      BY JobsAreJobs DEF LineActs
    <3>2. Mode({Job("reop", e.u, "protectops")}) = {} /\ Mode(Revenge(v, e.s)) = {}
      BY OtherJobs
    <3>3. Mode(S) = {}
      BY <3>2 DEF Mode
    <3> QED BY <3>1, <3>3
  <2> HIDE DEF u, S
  <2>4. IsView(w) /\ SameDeal(u, w) /\ SameModes(u, w)
    BY <2>2, OtherWindows
  <2> HIDE DEF w
  <2>5. IsView(f) /\ SameDeal(u, f) /\ SameModes(u, f)
    BY <2>4, OffenceModes DEF SameDeal, SameModes
  <2> HIDE DEF f
  <2>6. f.in = v.in /\ f.opped = v.opped /\ SameModes(v, f)
    BY <2>2, <2>5 DEF SameDeal, SameModes
  <2>7. NoDeal(e) => Dealt(b, f) = Dealt(b, v)
    BY <1>1, <2>2, <2>5 DEF NoDeal, Dealt, SameDeal
  <2> QED BY <1>1, <2>1, <2>3, <2>5, <2>6, <2>7, UnmovedBy
<1> QED BY <1>2, <1>3

LEMMA SeeKickUnmoved ==
    ASSUME NEW b \in Bot, NEW v, IsView(v), NEW e, SeeKick(b, v, e) PROVE Unmoved(b, e, v)
<1>1. e.t = "kick" /\ UNCHANGED ask
  BY DEF SeeKick
<1>2. CASE e.u = b
  <2> DEFINE w == [v EXCEPT !.in = FALSE, !.opped = FALSE, !.known = FALSE, !.clean = TRUE,
                            !.listed = FALSE, !.bans = {}]
  <2>1. Submit(b, w, {})
    BY <1>2, Zenon DEF SeeKick
  <2>2. IsView(w) /\ w.in = FALSE /\ w.jobs = v.jobs /\ w.recent = v.recent
    BY DEF IsView, Fields
  <2> HIDE DEF w
  <2>3. ~NoDeal(e) /\ Mode({}) = {} /\ \A x \in Bot : ask[x] \subseteq ask'[x]
    BY <1>1, <1>2 DEF NoDeal, Mode
  <2> QED BY <2>1, <2>2, <2>3 DEF Unmoved
<1>3. CASE e.u # b
  <2> DEFINE u == [v EXCEPT !.roster = @ \ {e.u}, !.ops = @ \ {e.u}]
             w == Ack(u, "kick", e.u)
             hurt == e.u \in v.roster /\ Authorised(e.u) /\ Unauthorised(e.s) /\ On("revenge")
             f == IF hurt THEN offence(w, e.s) ELSE w
             S == IF hurt THEN Revenge(v, e.s) ELSE {}
  <2>1. Submit(b, f, S)
    BY <1>3, Zenon DEF SeeKick
  <2>2. /\ IsView(u) /\ u.in = v.in /\ u.opped = v.opped /\ u.roster = v.roster \ {e.u}
        /\ u.ops = v.ops \ {e.u} /\ SameModes(v, u)
    BY DEF IsView, Fields, SameModes
  <2>3. (\A j \in S : IsJob(j)) /\ Mode(S) = {}
    <3>1. Mode({}) = {}
      BY DEF Mode
    <3> QED BY <3>1, JobsAreJobs, OtherJobs
  <2> HIDE DEF u, S
  <2>4. IsView(w) /\ SameDeal(u, w) /\ SameModes(u, w)
    BY <2>2, OtherWindows
  <2> HIDE DEF w
  <2>5. IsView(f) /\ SameDeal(u, f) /\ SameModes(u, f)
    BY <2>4, OffenceModes DEF SameDeal, SameModes
  <2> HIDE DEF f
  <2>6. f.in = v.in /\ f.opped = v.opped /\ SameModes(v, f)
    BY <2>2, <2>5 DEF SameDeal, SameModes
  <2>7. NoDeal(e) => Dealt(b, f) = Dealt(b, v)
    BY <1>1, <2>2, <2>5 DEF NoDeal, Dealt, SameDeal
  <2> QED BY <1>1, <2>1, <2>3, <2>5, <2>6, <2>7, UnmovedBy
<1> QED BY <1>2, <1>3

LEMMA SeeBansUnmoved ==
    ASSUME NEW b \in Bot, NEW v, IsView(v), NEW e, SeeBan(b, v, e) \/ SeeUnban(b, v, e)
    PROVE  Unmoved(b, e, v)
<1>1. CASE SeeBan(b, v, e)
  <2> DEFINE hurt == On("revenge") /\ Unauthorised(e.s) /\ HitsAuthorised(v, e.m)
             w == [v EXCEPT !.bans = @ \cup {e.m}]
             f == IF hurt THEN offence(w, e.s) ELSE w
             S == IF hurt THEN Revenge(v, e.s) ELSE {}
  <2>1. e.t = "+b" /\ UNCHANGED ask /\ Submit(b, f, S)
    BY <1>1, Zenon DEF SeeBan
  <2>2. IsView(w) /\ SameDeal(v, w) /\ SameModes(v, w)
    BY DEF IsView, Fields, SameDeal, SameModes
  <2>3. (\A j \in S : IsJob(j)) /\ Mode(S) = {}
    <3>1. Mode({}) = {}
      BY DEF Mode
    <3> QED BY <3>1, JobsAreJobs, OtherJobs
  <2> HIDE DEF w, S
  <2>4. IsView(f) /\ SameDeal(v, f) /\ SameModes(v, f)
    BY <2>2, OffenceModes DEF SameDeal, SameModes
  <2> HIDE DEF f
  <2>5. f.in = v.in /\ f.opped = v.opped /\ Dealt(b, f) = Dealt(b, v)
    BY <2>4 DEF SameDeal, Dealt
  <2> QED BY <2>1, <2>3, <2>4, <2>5, UnmovedBy
<1>2. CASE SeeUnban(b, v, e)
  <2> DEFINE u == [v EXCEPT !.bans = @ \ {e.m}]
             w == Ack(u, "unban", e.m)
  <2>1. IsView(u) /\ SameDeal(v, u) /\ SameModes(v, u)
    BY DEF IsView, Fields, SameDeal, SameModes
  <2>2. Submit(b, w, {}) /\ UNCHANGED ask /\ e.t = "-b"
    BY <1>2, Zenon DEF SeeUnban, Plain
  <2> HIDE DEF u
  <2>3. IsView(w) /\ SameDeal(v, w) /\ SameModes(v, w)
    BY <2>1, OtherWindows DEF SameDeal, SameModes
  <2> HIDE DEF w
  <2>4. w.in = v.in /\ w.opped = v.opped /\ Dealt(b, w) = Dealt(b, v) /\ Mode({}) = {}
    BY <2>3 DEF SameDeal, Dealt, Mode
  <2> QED BY <2>2, <2>3, <2>4, UnmovedBy
<1> QED BY <1>1, <1>2

LEMMA SeeRosterUnmoved ==
    ASSUME NEW b \in Bot, NEW v, IsView(v), NEW e,
           SeePart(b, v, e) \/ SeeNick(b, v, e) \/ SeeWho(b, v, e) \/ SeeBanList(b, v, e)
    PROVE  Unmoved(b, e, v)
<1>1. ASSUME NEW w, Plain(b, w), IsView(w), w.in = v.in, SameModes(v, w),
             e.t \in {"part", "nick", "who", "368"}
      PROVE  Unmoved(b, e, v)
  <2>1. Submit(b, w, {}) /\ ask' = ask /\ ~NoDeal(e) /\ Mode({}) = {}
    BY <1>1 DEF Plain, NoDeal, Mode
  <2> QED BY <1>1, <2>1, UnmovedBy
<1>2. CASE SeePart(b, v, e)
  <2> DEFINE w == [v EXCEPT !.roster = @ \ {e.u}, !.ops = @ \ {e.u}]
  <2>1. Plain(b, w) /\ e.t = "part"
    BY <1>2, Zenon DEF SeePart
  <2>2. IsView(w) /\ w.in = v.in /\ SameModes(v, w)
    BY DEF IsView, Fields, SameModes
  <2> HIDE DEF w
  <2> QED BY <1>1, <2>1, <2>2
<1>3. CASE SeeNick(b, v, e)
  <2> DEFINE w == [v EXCEPT !.roster = Renamed(@, e.u, e.w), !.ops = Renamed(@, e.u, e.w)]
  <2>1. Plain(b, w) /\ e.t = "nick"
    BY <1>3, Zenon DEF SeeNick
  <2>2. IsView(w) /\ w.in = v.in /\ SameModes(v, w)
    BY DEF IsView, Fields, SameModes
  <2> HIDE DEF w
  <2> QED BY <1>1, <2>1, <2>2
<1>4. CASE SeeWho(b, v, e)
  <2> DEFINE w == [v EXCEPT !.roster = @ \cup e.members, !.check = TRUE,
                            !.ops = (@ \ e.members) \cup e.ops, !.opped = b \in e.ops]
  <2>1. Plain(b, w) /\ e.t = "who"
    BY <1>4, Zenon DEF SeeWho
  <2>2. IsView(w) /\ w.in = v.in /\ SameModes(v, w)
    BY DEF IsView, Fields, SameModes
  <2> HIDE DEF w
  <2> QED BY <1>1, <2>1, <2>2
<1>5. CASE SeeBanList(b, v, e)
  <2> DEFINE w == [v EXCEPT !.listed = TRUE, !.bans = e.bans]
  <2>1. Plain(b, w) /\ e.t = "368"
    BY <1>5, Zenon DEF SeeBanList
  <2>2. IsView(w) /\ w.in = v.in /\ SameModes(v, w)
    BY DEF IsView, Fields, SameModes
  <2> HIDE DEF w
  <2> QED BY <1>1, <2>1, <2>2
<1> QED BY <1>2, <1>3, <1>4, <1>5

LEMMA SeeJoinUnmoved ==
    ASSUME IsTable(ask), NEW b \in Bot, NEW v, IsView(v), NEW e,
           SeeJoin(b, v, e) \/ SeeState(b, v, e)
    PROVE  Unmoved(b, e, v)
<1>0. Mode({}) = {}
  BY DEF Mode
<1>1. CASE SeeJoin(b, v, e) /\ e.u = b
  <2> DEFINE w == [v EXCEPT !.in = TRUE, !.opped = FALSE, !.roster = {}, !.ops = {},
                            !.known = FALSE, !.clean = TRUE, !.listed = FALSE, !.bans = {}]
  <2>1. Submit(b, w, {}) /\ Asks(b, {"who", "modes", "bans"}) /\ e.t = "join"
    BY <1>1, Zenon DEF SeeJoin
  <2>2. IsView(w) /\ w.jobs = v.jobs /\ w.recent = v.recent
    BY DEF IsView, Fields
  <2> HIDE DEF w
  <2>3. ~NoDeal(e) /\ "modes" \in ask'[b] /\ \A x \in Bot : ask[x] \subseteq ask'[x]
    BY <2>1 DEF NoDeal, Asks, IsTable
  <2> QED BY <1>0, <2>1, <2>2, <2>3 DEF Unmoved
<1>2. CASE SeeJoin(b, v, e) /\ e.u # b
  <2> DEFINE w == [v EXCEPT !.roster = @ \cup {e.u}, !.ops = @ \ {e.u}]
  <2>1. Submit(b, w, {}) /\ ask' = ask /\ e.t = "join"
    BY <1>2, Zenon DEF SeeJoin, Plain
  <2>2. IsView(w) /\ w.in = v.in /\ SameModes(v, w) /\ ~NoDeal(e)
    BY <2>1 DEF IsView, Fields, SameModes, NoDeal
  <2> HIDE DEF w
  <2> QED BY <1>0, <2>1, <2>2, UnmovedBy
<1>3. CASE SeeState(b, v, e)
  <2> DEFINE w == [v EXCEPT !.known = TRUE, !.clean = e.clean]
  <2>1. Submit(b, w, {}) /\ ask' = ask /\ e.t = "324"
    BY <1>3, Zenon DEF SeeState, Plain
  <2>2. IsView(w) /\ w.known = TRUE /\ w.jobs = v.jobs /\ w.recent = v.recent /\ ~NoDeal(e)
    BY <2>1 DEF IsView, Fields, NoDeal
  <2> HIDE DEF w
  <2> QED BY <1>0, <2>1, <2>2 DEF Unmoved
<1> QED BY <1>1, <1>2, <1>3

LEMMA OthersUnmoved ==
    ASSUME IsTable(ask), NEW b \in Bot, NEW v, IsView(v), NEW e, See(b, v, e), e.t # "modes"
    PROVE  Unmoved(b, e, v)
<1>1. ~SeeModes(b, v, e)
  BY DEF SeeModes
<1> QED BY <1>1, SeeOpUnmoved, SeeDeopUnmoved, SeeKickUnmoved, SeeBansUnmoved, SeeRosterUnmoved,
           SeeJoinUnmoved DEF See

---------------------------------------------------------------------------
\* job_submit and job_exec, as far as the modes go.
LEMMA SubmittedModes ==
    ASSUME NEW b, NEW v, IsView(v), NEW S, Submit(b, v, S), \A j \in S : IsJob(j)
    PROVE  \E w, J : /\ Execute(b, w, J) /\ IsView(w) /\ SameDeal(v, w)
                     /\ w.recent = v.recent /\ w.known = v.known /\ w.clean = v.clean
                     /\ J = {j \in S : deal_rank(b, v, JobOf[j.act]) = 0}
                     /\ \A k \in Mode(w.jobs) :
                           \/ k \in Mode(v.jobs)
                           \/ /\ k.age = 0 /\ v.opped /\ Mode(S) # {}
                              /\ deal_rank(b, v, JobOf["mode"]) # 0
<1> DEFINE mine == {j \in S : deal_rank(b, v, JobOf[j.act]) = 0}
           new == {[act |-> j.act, tgt |-> j.tgt, why |-> j.why, age |-> 0] :
                      j \in {k \in S \ mine : v.opped /\ ~Waiting(v, k)}}
<1>1. PICK K \in SUBSET new : Execute(b, [v EXCEPT !.jobs = @ \cup K], mine)
  BY SMTT(30), ZenonT(30) DEF Submit
<1> DEFINE w == [v EXCEPT !.jobs = @ \cup K]
<1>2. ASSUME NEW k \in K
      PROVE  /\ IsJob(k) /\ k.age = 0 /\ v.opped
             /\ k.act = "mode" => Mode(S) # {} /\ deal_rank(b, v, JobOf["mode"]) # 0
  <2>1. PICK j \in S : /\ deal_rank(b, v, JobOf[j.act]) # 0 /\ v.opped
                       /\ k = [act |-> j.act, tgt |-> j.tgt, why |-> j.why, age |-> 0]
    OBVIOUS
  <2>2. k.act = j.act /\ k.age = 0 /\ IsJob(k)
    BY <2>1 DEF IsJob
  <2> QED BY <2>1, <2>2 DEF Mode
<1> HIDE DEF new, mine
<1>3. /\ DOMAIN w = Fields /\ w.jobs = v.jobs \cup K /\ SameDeal(v, w)
      /\ w.recent = v.recent /\ w.known = v.known /\ w.clean = v.clean
  BY DEF IsView, Fields, SameDeal
<1>4. IsView(w)
  BY <1>2, <1>3 DEF IsView
<1>5. \A k \in Mode(w.jobs) : \/ k \in Mode(v.jobs)
                              \/ /\ k.age = 0 /\ v.opped /\ Mode(S) # {}
                                 /\ deal_rank(b, v, JobOf["mode"]) # 0
  BY <1>2, <1>3 DEF Mode
<1> QED BY <1>1, <1>3, <1>4, <1>5 DEF mine

LEMMA ExecutedModes ==
    ASSUME IsTable(out), IsTable(me), NEW b \in Bot, NEW v, IsView(v), \A x \in Bot : IsView(me[x]),
           NEW J, Execute(b, v, J)
    PROVE  /\ out'[b] = out[b] \cup LinesOf(b, v, J) /\ me'[b].recent = v.recent \cup LinesOf(b, v, J)
           /\ me'[b].jobs = v.jobs /\ me'[b].known = v.known /\ SameDeal(v, me'[b])
           /\ \A x \in Bot \ {b} : out'[x] = out[x] /\ SameModes(me[x], me'[x]) /\ SameDeal(me[x], me'[x])
<1> DEFINE lines == LinesOf(b, v, J)
           new == RecordsOf(v, J)
           sent == Banned(lines)
           vb == [v EXCEPT !.recent = @ \cup lines, !.passed = @ \cup sent]
           after == [me EXCEPT ![b] = vb]
<1>1. /\ out' = [out EXCEPT ![b] = @ \cup lines]
      /\ me' = IF new = {} THEN after ELSE [x \in Bot |-> [after[x] EXCEPT !.check = TRUE]]
  BY DEF Execute
<1>2. out'[b] = out[b] \cup lines /\ \A x \in Bot \ {b} : out'[x] = out[x]
  BY <1>1 DEF IsTable
<1> HIDE DEF lines, new, sent
<1>3. /\ SameDeal(v, vb) /\ IsView(vb) /\ vb.recent = v.recent \cup lines
      /\ vb.jobs = v.jobs /\ vb.known = v.known
  BY DEF IsView, SameDeal, Fields
<1>4. after[b] = vb /\ \A x \in Bot \ {b} : after[x] = me[x]
  BY DEF IsTable
<1>5. \A x \in Bot : IsView(after[x])
  BY <1>3, <1>4
<1>6. \A x \in Bot : LET a == [after[x] EXCEPT !.check = TRUE] IN
         /\ SameDeal(after[x], a) /\ a.recent = after[x].recent
         /\ a.jobs = after[x].jobs /\ a.known = after[x].known
  BY <1>5 DEF IsView, SameDeal, Fields
<1> HIDE DEF after, vb
<1>7. \A x \in Bot : /\ SameDeal(after[x], me'[x]) /\ me'[x].recent = after[x].recent
                     /\ me'[x].jobs = after[x].jobs /\ me'[x].known = after[x].known
  <2>1. CASE new = {}
    BY <1>1, <2>1 DEF SameDeal
  <2>2. CASE new # {}
    BY <1>1, <1>6, <2>2
  <2> QED BY <2>1, <2>2
<1>8. /\ me'[b].recent = v.recent \cup lines /\ me'[b].jobs = v.jobs /\ me'[b].known = v.known
      /\ SameDeal(v, me'[b])
  BY <1>3, <1>4, <1>7 DEF SameDeal
<1>9. \A x \in Bot \ {b} : SameModes(me[x], me'[x]) /\ SameDeal(me[x], me'[x])
  BY <1>4, <1>7 DEF SameModes
<1> QED BY <1>2, <1>8, <1>9 DEF lines

LEMMA ModeLinesOf ==
    ASSUME NEW b, NEW v, NEW J
    PROVE  /\ ~v.opped \/ Mode(J) = {} => Mode(LinesOf(b, v, J)) = {}
           /\ J = {Job("mode", Chan, "modes")} /\ v.opped /\ v.known /\ ~v.clean
              /\ On("enforcemodes") /\ Revert \notin v.recent => Mode(LinesOf(b, v, J)) = {Revert}
<1>1. ASSUME NEW l \in Mode(LinesOf(b, v, J))
      PROVE  v.opped /\ \E j \in J : j.act = "mode" /\ l = Line(j.act, j.tgt)
  <2>1. v.opped
    BY <1>1 DEF LinesOf, Mode
  <2>2. PICK j \in J : l \in LineOf(v, j)
    BY <1>1, <2>1 DEF LinesOf, Mode
  <2>3. l.act = "mode"
    BY <1>1 DEF Mode
  <2>4. j.act # "bannuh"
    BY <2>2, <2>3 DEF LineOf, Line
  <2>5. l = Line(j.act, j.tgt)
    BY <2>2, <2>4 DEF LineOf
  <2>6. l.act = j.act
    BY <2>5 DEF Line
  <2> QED BY <2>1, <2>3, <2>5, <2>6
<1>2. ~v.opped \/ Mode(J) = {} => Mode(LinesOf(b, v, J)) = {}
  BY <1>1 DEF Mode
<1>3. ASSUME J = {Job("mode", Chan, "modes")}, v.opped, v.known, ~v.clean, On("enforcemodes"),
             Revert \notin v.recent
      PROVE  Mode(LinesOf(b, v, J)) = {Revert}
  <2> DEFINE j == Job("mode", Chan, "modes")
  <2>1. j.act = "mode" /\ j.tgt = Chan
    BY DEF Job
  <2> HIDE DEF j
  <2>2. StillNeeded(b, v, j)
    BY <1>3, <2>1 DEF StillNeeded
  <2>3. LineOf(v, j) = {Revert}
    BY <2>1 DEF LineOf, Revert
  <2>4. LinesOf(b, v, J) = {Revert}
    <3> DEFINE N == {k \in J : StillNeeded(b, v, k)}
    <3>1. N = {j}
      BY <1>3, <2>2 DEF j
    <3>2. LinesOf(b, v, J) = (UNION {LineOf(v, k) : k \in N}) \ v.recent
      BY <1>3, Zenon DEF LinesOf
    <3> HIDE DEF N
    <3>3. (UNION {LineOf(v, k) : k \in N}) = {Revert}
      BY <2>3, <3>1
    <3> QED BY <1>3, <3>2, <3>3
  <2>5. Revert.act = "mode"
    BY DEF Revert, Line
  <2> QED BY <2>4, <2>5 DEF Mode
<1> QED BY <1>2, <1>3

---------------------------------------------------------------------------
(***************************************************************************)
(* The backups keep quiet.  As long as the bots see the same ops, a bot is *)
(* steady; a change of the modes hurts it until the holder's revert heals  *)
(* it, and by the time every line is read it is calm again.                *)
(***************************************************************************)
SteadyBot(b, D, box, v, q) ==
    /\ (v.opped <=> b \in D) /\ q = {}
    /\ b \in D => Dealt(b, v) = D /\ v.in /\ v.known
    /\ \A k \in 1..Len(box) : NoDeal(box[k])

\* Work for the modes waits with a backup only, and for no time yet.
Backup(b, D, v) ==
    \A j \in Mode(v.jobs) : j.age = 0 /\ On("enforcemodes") /\ b \in D /\ ~Holds(D, b)

\* The modes were moved: the holder has a revert on its way once it has read so.
HurtBot(b, D, box, v, o) ==
    \E f \in BOOLEAN : /\ News(box, b, f, FALSE) /\ Backup(b, D, v)
                       /\ Mode(o) = IF Holds(D, b) /\ ~f THEN {Revert} ELSE {}
                       /\ Mode(v.recent) \subseteq Mode(o)

\* s moved them back: who has work or a window left is to read so.
HealedBot(b, D, box, v, o, s) ==
    \E f, t \in BOOLEAN : /\ News(box, s, f, t) /\ Backup(b, D, v) /\ Mode(o) = {}
                          /\ f => ~Holds(D, b) /\ (b \in D => t)
                          /\ Mode(v.jobs) # {} => t
                          /\ Mode(v.recent) # {} => t /\ s = b /\ b \in D
                          /\ Mode(v.recent) \subseteq {Revert}

CalmBot(b, box, v, o) == /\ Mode(v.jobs) = {} /\ Mode(v.recent) = {} /\ Mode(o) = {}
                         /\ News(box, b, FALSE, FALSE)

Bots == ops \cap Bot
Calm == \A b \in Bot : CalmBot(b, inbox[b], me[b], out[b])
Steady == \A b \in Bot : SteadyBot(b, Bots, inbox[b], me[b], ask[b])
Hurt == ~clean /\ \A b \in Bot : HurtBot(b, Bots, inbox[b], me[b], out[b])
Healed == \E s \in Bot : \A b \in Bot : HealedBot(b, Bots, inbox[b], me[b], out[b], s)
QuietInv == ~apart => ~vain /\ (Calm \/ (Steady /\ (Hurt \/ Healed)))

\* What a bot that is in the channel does not know of its modes is on its way.
KnownBot(box, v, q) ==
    v.in /\ ~v.known => "modes" \in q \/ \E k \in 1..Len(box) : box[k].t = "324"
KnownInv == \A b \in Bot : KnownBot(inbox[b], me[b], ask[b])

SparedBots == \A b \in Bot : \A l \in out[b] : l.act = "kick" => l.tgt \notin Bot

LEMMA NoNews ==
    ASSUME NEW box, NEW s, NEW r, NEW f \in BOOLEAN, News(box, s, f, FALSE)
    PROVE  News(box, r, f, FALSE)
<1>1. \A i \in 1..Len(box) : ~Reverted(box[i], r) /\ (box[i].t = "modes" => f /\ Moved(box[i]))
  BY DEF News, Moved, Reverted
<1> QED BY <1>1 DEF News

\* Another line of news leaves the news of the modes alone.
SameNews(box, new) == \A s : \A f, t \in BOOLEAN : News(box, s, f, t) => News(new, s, f, t)

LEMMA OtherNews ==
    ASSUME NEW box, IsSeq(box), NEW new,
           \/ new = box
           \/ \E e : e.t # "modes" /\ new = Append(box, e)
           \/ box # <<>> /\ Head(box).t # "modes" /\ new = Tail(box)
    PROVE  SameNews(box, new)
<1>1. SUFFICES ASSUME NEW s, NEW f \in BOOLEAN, NEW t \in BOOLEAN, News(box, s, f, t)
               PROVE  News(new, s, f, t)
  BY DEF SameNews
<1>2. CASE new = box
  BY <1>1, <1>2
<1>3. CASE \E e : e.t # "modes" /\ new = Append(box, e)
  <2>1. PICK e : e.t # "modes" /\ new = Append(box, e)
    BY <1>3
  <2>2. News(Append(box, e), s, f, t)
    BY <1>1, <2>1, NewsTold, Zenon
  <2> QED BY <2>1, <2>2
<1>4. CASE box # <<>> /\ Head(box).t # "modes" /\ new = Tail(box)
  <2>1. News(Tail(box), s, f, t)
    BY <1>1, <1>4, NewsRead, Zenon
  <2> QED BY <1>4, <2>1
<1> QED BY <1>2, <1>3, <1>4

\* A step that has nothing to do with the modes, as bot b sees it.
Kept(b) == /\ SameNews(inbox[b], inbox'[b])
           /\ Mode(me'[b].jobs) \subseteq Mode(me[b].jobs)
           /\ Mode(me'[b].recent) \subseteq Mode(me[b].recent) \cup Mode(out[b])
           /\ Mode(out'[b]) = Mode(out[b])

LEMMA KeptBot ==
    ASSUME NEW b \in Bot, NEW D, NEW s, Kept(b)
    PROVE  /\ CalmBot(b, inbox[b], me[b], out[b]) => CalmBot(b, inbox'[b], me'[b], out'[b])
           /\ HurtBot(b, D, inbox[b], me[b], out[b]) => HurtBot(b, D, inbox'[b], me'[b], out'[b])
           /\ HealedBot(b, D, inbox[b], me[b], out[b], s)
                => HealedBot(b, D, inbox'[b], me'[b], out'[b], s)
<1>1. Backup(b, D, me[b]) => Backup(b, D, me'[b])
  BY DEF Backup, Kept
<1>2. ASSUME CalmBot(b, inbox[b], me[b], out[b]) PROVE CalmBot(b, inbox'[b], me'[b], out'[b])
  BY <1>2 DEF CalmBot, Kept, SameNews
<1>3. ASSUME HurtBot(b, D, inbox[b], me[b], out[b]) PROVE HurtBot(b, D, inbox'[b], me'[b], out'[b])
  <2>1. PICK f \in BOOLEAN : /\ News(inbox[b], b, f, FALSE) /\ Backup(b, D, me[b])
                             /\ Mode(out[b]) = IF Holds(D, b) /\ ~f THEN {Revert} ELSE {}
                             /\ Mode(me[b].recent) \subseteq Mode(out[b])
    BY <1>3 DEF HurtBot
  <2>2. /\ News(inbox'[b], b, f, FALSE) /\ Backup(b, D, me'[b])
        /\ Mode(out'[b]) = IF Holds(D, b) /\ ~f THEN {Revert} ELSE {}
        /\ Mode(me'[b].recent) \subseteq Mode(out'[b])
    BY <1>1, <2>1 DEF Kept, SameNews
  <2> QED BY <2>2 DEF HurtBot
<1>4. ASSUME HealedBot(b, D, inbox[b], me[b], out[b], s)
      PROVE  HealedBot(b, D, inbox'[b], me'[b], out'[b], s)
  <2>1. PICK f \in BOOLEAN, t \in BOOLEAN :
              /\ News(inbox[b], s, f, t) /\ Backup(b, D, me[b]) /\ Mode(out[b]) = {}
              /\ f => ~Holds(D, b) /\ (b \in D => t)
              /\ Mode(me[b].jobs) # {} => t
              /\ Mode(me[b].recent) # {} => t /\ s = b /\ b \in D
              /\ Mode(me[b].recent) \subseteq {Revert}
    BY <1>4 DEF HealedBot
  <2>2. /\ News(inbox'[b], s, f, t) /\ Backup(b, D, me'[b]) /\ Mode(out'[b]) = {}
        /\ Mode(me'[b].jobs) # {} => t
        /\ Mode(me'[b].recent) # {} => t /\ s = b /\ b \in D
        /\ Mode(me'[b].recent) \subseteq {Revert}
    BY <1>1, <2>1 DEF Kept, SameNews
  <2> QED BY <2>1, <2>2 DEF HealedBot
<1> QED BY <1>2, <1>3, <1>4

LEMMA AllKept ==
    ASSUME \A b \in Bot : Kept(b)
    PROVE  /\ Calm => Calm'
           /\ Hurt /\ ~clean' /\ Bots' = Bots => Hurt'
           /\ Healed /\ Bots' = Bots => Healed'
<1>1. Calm => Calm'
  BY KeptBot DEF Calm
<1>2. ASSUME Hurt, ~clean', Bots' = Bots PROVE Hurt'
  BY <1>2, KeptBot DEF Hurt
<1>3. ASSUME Healed, Bots' = Bots PROVE Healed'
  BY <1>3, KeptBot DEF Healed
<1> QED BY <1>1, <1>2, <1>3

\* A step that says nothing of the bots.
Steadied(b) ==
    /\ me'[b].in = me[b].in /\ me'[b].opped = me[b].opped /\ Dealt(b, me'[b]) = Dealt(b, me[b])
    /\ me'[b].known = me[b].known /\ ask'[b] \subseteq ask[b]
    /\ \/ inbox'[b] = inbox[b]
       \/ \E e : NoDeal(e) /\ inbox'[b] = Append(inbox[b], e)
       \/ inbox[b] # <<>> /\ inbox'[b] = Tail(inbox[b])

LEMMA SteadyKept ==
    ASSUME Steady, \A b \in Bot : IsSeq(inbox[b]) /\ Steadied(b), Bots' = Bots
    PROVE  Steady'
<1>1. SUFFICES ASSUME NEW b \in Bot PROVE SteadyBot(b, Bots, inbox'[b], me'[b], ask'[b])
  BY DEF Steady
<1> DEFINE box == inbox[b]
           new == inbox'[b]
<1>2. SteadyBot(b, Bots, box, me[b], ask[b]) /\ IsSeq(box) /\ Steadied(b)
  BY DEF Steady
<1>3. Dealt(b, me'[b]) = Dealt(b, me[b])
  BY <1>2 DEF Steadied
<1>4. \A k \in 1..Len(new) : NoDeal(new[k])
  <2>1. CASE new = box
    BY <1>2, <2>1 DEF SteadyBot
  <2>2. ASSUME NEW e, NoDeal(e), new = Append(box, e) PROVE \A k \in 1..Len(new) : NoDeal(new[k])
    <3>1. Len(new) = Len(box) + 1 /\ new[Len(box) + 1] = e /\ \A k \in 1..Len(box) : new[k] = box[k]
      BY <1>2, <2>2, SeqFacts
    <3>2. Len(box) \in Nat /\ \A k \in 1..Len(box) : NoDeal(box[k])
      BY <1>2, SeqFacts DEF SteadyBot
    <3> HIDE DEF new, box
    <3>3. \A k \in 1..Len(new) : k \in 1..Len(box) \/ k = Len(box) + 1
      BY <3>1, <3>2
    <3> QED BY <2>2, <3>1, <3>2, <3>3
  <2>3. CASE box # <<>> /\ new = Tail(box)
    <3>1. Len(new) = Len(box) - 1 /\ \A k \in 1..Len(box) - 1 : new[k] = box[k + 1]
      BY <1>2, <2>3, SeqFacts
    <3>2. Len(box) \in Nat /\ \A k \in 1..Len(box) : NoDeal(box[k])
      BY <1>2, SeqFacts DEF SteadyBot
    <3> HIDE DEF new, box
    <3>3. \A k \in 1..Len(new) : k + 1 \in 1..Len(box)
      BY <3>1, <3>2
    <3> QED BY <3>1, <3>2, <3>3
  <2> QED BY <1>2, <2>1, <2>2, <2>3 DEF Steadied
<1> QED BY <1>2, <1>3, <1>4 DEF SteadyBot, Steadied

\* A step after which a bot knows no less of the modes.
LEMMA KnownKept ==
    ASSUME NEW b \in Bot, IsSeq(inbox[b]), KnownBot(inbox[b], me[b], ask[b]),
           me'[b].in = me[b].in, me'[b].known = me[b].known, ask[b] \subseteq ask'[b],
           inbox'[b] = inbox[b] \/ \E e : inbox'[b] = Append(inbox[b], e)
    PROVE  KnownBot(inbox'[b], me'[b], ask'[b])
<1> DEFINE box == inbox[b]
           new == inbox'[b]
<1>1. Len(box) \in Nat /\ (new = box \/ Len(new) = Len(box) + 1) /\ \A k \in 1..Len(box) : new[k] = box[k]
  BY SeqFacts
<1>2. 1..Len(box) \subseteq 1..Len(new)
  BY <1>1
<1> QED BY <1>1, <1>2 DEF KnownBot

---------------------------------------------------------------------------
\* When every line is read, the bots are steady, and calm if they were so.
LEMMA SettledSteady == ASSUME DealInv, KnownInv, Settled PROVE Steady
<1>1. SUFFICES ASSUME NEW b \in Bot PROVE SteadyBot(b, Bots, inbox[b], me[b], ask[b])
  BY DEF Steady
<1>2. inbox[b] = <<>> /\ ask[b] = {} /\ Len(inbox[b]) = 0
  BY DEF Settled, InFlight
<1>3. (me[b].opped <=> b \in ops) /\ (b \in ops => Dealt(b, me[b]) = ops \cap Bot)
  BY SameDeals
<1>4. b \in ops => me[b].in
  <2>1. Knows(b, me[b], inbox[b], ask[b], members, ops) /\ ops \subseteq members
    BY DEF DealInv
  <2>2. PICK h : Story(b, inbox[b], members, ops, h) /\ Shows(b, me[b], WhoToCome(inbox[b], ask[b]), h[0])
    BY <2>1 DEF Knows
  <2>3. Ends(b, members, ops, h[0])
    BY <1>2, <2>2 DEF Story
  <2> QED BY <2>1, <2>2, <2>3 DEF Shows, Ends
<1>5. me[b].in => me[b].known
  BY <1>2 DEF KnownInv, KnownBot
<1> QED BY <1>2, <1>3, <1>4, <1>5 DEF SteadyBot, Bots

LEMMA SettledCalm == ASSUME DealInv, QuietInv, ~apart, Settled PROVE Calm
<1>1. \A b \in Bot : Len(inbox[b]) = 0 /\ out[b] = {}
  BY DEF Settled, InFlight
<1>2. ASSUME NEW b \in Bot, NEW s, NEW f \in BOOLEAN, NEW t \in BOOLEAN, News(inbox[b], s, f, t)
      PROVE  ~f /\ ~t
  BY <1>1, <1>2 DEF News
<1>3. \A b \in Bot : News(inbox[b], b, FALSE, FALSE) /\ Mode(out[b]) = {}
  BY <1>1 DEF News, Mode
<1>4. CASE Hurt
  <2>1. ASSUME NEW b \in Bot
        PROVE  ~Holds(Bots, b) /\ Backup(b, Bots, me[b]) /\ Mode(me[b].recent) = {}
    <3>1. PICK f \in BOOLEAN : /\ News(inbox[b], b, f, FALSE) /\ Backup(b, Bots, me[b])
                               /\ Mode(out[b]) = IF Holds(Bots, b) /\ ~f THEN {Revert} ELSE {}
                               /\ Mode(me[b].recent) \subseteq Mode(out[b])
      BY <1>4 DEF Hurt, HurtBot
    <3> QED BY <1>2, <1>3, <3>1
  <2>2. Bots \in SUBSET Bot
    BY DEF Bots
  <2>3. \A b \in Bot : Mode(me[b].jobs) = {}
    BY <2>1, <2>2, ModeHolder DEF Backup
  <2> QED BY <1>3, <2>1, <2>3 DEF Calm, CalmBot
<1>5. CASE Healed
  <2>1. ASSUME NEW b \in Bot PROVE Mode(me[b].jobs) = {} /\ Mode(me[b].recent) = {}
    <3>1. PICK s \in Bot, f \in BOOLEAN, t \in BOOLEAN :
                /\ News(inbox[b], s, f, t)
                /\ Mode(me[b].jobs) # {} => t
                /\ Mode(me[b].recent) # {} => t
      BY <1>5 DEF Healed, HealedBot
    <3> QED BY <1>2, <3>1
  <2> QED BY <1>3, <2>1 DEF Calm, CalmBot
<1> QED BY <1>4, <1>5 DEF QuietInv

\* A step the bots hear of, if at all, by a line that says nothing of the
\* modes: what a user does, or the time, once every line is read.
Aside(b) ==
    /\ SameDeal(me[b], me'[b]) /\ me'[b].known = me[b].known
    /\ Mode(me[b].jobs) = {} => Mode(me'[b].jobs) = {}
    /\ me'[b].recent \subseteq me[b].recent
    /\ \/ inbox'[b] = inbox[b]
       \/ \E e : e.t # "modes" /\ inbox'[b] = Append(inbox[b], e)

LEMMA AsideQuiet ==
    ASSUME DealInv, KnownInv, QuietInv, \A b \in Bot : Aside(b), UNCHANGED <<out, ask, vain>>,
           ~apart' => ~apart /\ Settled
    PROVE  KnownInv' /\ QuietInv'
<1>1. \A b \in Bot : IsSeq(inbox[b])
  BY DEF DealInv
<1>2. KnownInv'
  <2>1. ASSUME NEW b \in Bot PROVE KnownBot(inbox'[b], me'[b], ask'[b])
    BY <1>1, KnownKept DEF Aside, SameDeal, KnownInv
  <2> QED BY <2>1 DEF KnownInv
<1>3. ASSUME ~apart' PROVE ~vain' /\ Calm'
  <2>1. ~apart /\ Settled
    BY <1>3
  <2>2. Calm /\ ~vain'
    BY <2>1, SettledCalm DEF QuietInv
  <2>3. ASSUME NEW b \in Bot PROVE Kept(b)
    <3>1. SameNews(inbox[b], inbox'[b])
      BY <1>1, OtherNews DEF Aside
    <3>2. Mode(me[b].jobs) = {} /\ Mode(me[b].recent) = {}
      BY <2>2 DEF Calm, CalmBot
    <3> QED BY <3>1, <3>2 DEF Kept, Aside, Mode
  <2> QED BY <2>2, <2>3, AllKept
<1> QED BY <1>2, <1>3 DEF QuietInv

\* What job_exec changes for another work than the modes'.
LEMMA WorkKept ==
    ASSUME DealInv, NEW b \in Bot, NEW w, IsView(w), NEW J, Execute(b, w, J),
           Mode(J) = {} \/ out' = out, SameDeal(me[b], w), w.known = me[b].known,
           Mode(w.jobs) \subseteq Mode(me[b].jobs), Mode(w.recent) = Mode(me[b].recent),
           NEW x \in Bot
    PROVE  /\ SameDeal(me[x], me'[x]) /\ me'[x].known = me[x].known
           /\ Mode(me'[x].jobs) \subseteq Mode(me[x].jobs)
           /\ Mode(me'[x].recent) \subseteq Mode(me[x].recent) \cup Mode(out[x])
           /\ Mode(out'[x]) = Mode(out[x])
<1> DEFINE lines == LinesOf(b, w, J)
<1>1. IsTable(out) /\ IsTable(me) /\ \A y \in Bot : IsView(me[y])
  BY DEF DealInv
<1>2. /\ out'[b] = out[b] \cup lines /\ me'[b].recent = w.recent \cup lines
      /\ me'[b].jobs = w.jobs /\ me'[b].known = w.known /\ SameDeal(w, me'[b])
      /\ \A y \in Bot \ {b} : out'[y] = out[y] /\ SameModes(me[y], me'[y]) /\ SameDeal(me[y], me'[y])
  BY <1>1, ExecutedModes
<1>3. CASE x = b
  <2>1. Mode(lines) \subseteq Mode(out[b])
    <3>1. Mode(J) = {} => Mode(lines) = {}
      BY ModeLinesOf
    <3>2. out' = out => lines \subseteq out[b]
      BY <1>2
    <3> HIDE DEF lines
    <3> QED BY <3>1, <3>2 DEF Mode
  <2> HIDE DEF lines
  <2>2. /\ Mode(out'[b]) = Mode(out[b]) \cup Mode(lines)
        /\ Mode(me'[b].recent) = Mode(w.recent) \cup Mode(lines)
    BY <1>2 DEF Mode
  <2> QED BY <1>2, <1>3, <2>1, <2>2 DEF SameDeal
<1>4. CASE x # b
  BY <1>2, <1>4 DEF SameModes
<1> QED BY <1>3, <1>4

LEMMA QuietKept ==
    ASSUME QuietInv, ~apart, \A b \in Bot : Kept(b), Steady => Steady',
           ~clean => ~clean', ~vain => ~vain', Bots' = Bots
    PROVE  QuietInv'
<1>1. Hurt => ~clean
  BY DEF Hurt
<1> QED BY <1>1, AllKept DEF QuietInv

LEMMA SweepQuiet ==
    ASSUME DealInv, KnownInv, QuietInv, NEW b \in Bot, Sweep(b)
    PROVE  KnownInv' /\ QuietInv'
<1>1. PICK v, S : /\ v = [me[b] EXCEPT !.check = FALSE] /\ Submit(b, v, S)
                  /\ \A j \in S : IsJob(j)
  <2>1. PICK skip, idle : Submit(b, [me[b] EXCEPT !.check = FALSE],
                                 OpWork(me[b]) \cup ModeWork(me[b]) \cup BanWork(me[b], skip, idle))
    BY Zenon DEF Sweep, chan_sweep
  <2> QED BY <2>1, SweepJobs
<1>2. /\ UNCHANGED <<clean, ops, inbox, ask, vain>> /\ IsTable(me) /\ IsTable(out)
      /\ apart' = (apart \/ out' # out \/ me'[b].jobs # me[b].jobs)
      /\ \A x \in Bot : IsSeq(inbox[x]) /\ IsView(me[x])
  BY DEF Sweep, channel, DealInv
<1>3. IsView(v) /\ SameDeal(me[b], v) /\ SameModes(me[b], v) /\ v.recent = me[b].recent
  BY <1>1, <1>2 DEF IsView, Fields, SameDeal, SameModes
<1>4. PICK w, J : /\ Execute(b, w, J) /\ IsView(w) /\ SameDeal(v, w)
                  /\ w.recent = v.recent /\ w.known = v.known
  <2>1. IsView(v) /\ Submit(b, v, S) /\ \A j \in S : IsJob(j)
    BY <1>1, <1>3
  <2> QED BY <2>1, SubmittedModes, ZenonT(60)
<1>5. SameDeal(me[b], w) /\ w.known = me[b].known /\ w.recent = me[b].recent
  BY <1>3, <1>4 DEF SameDeal, SameModes
<1>6. /\ me'[b].jobs = w.jobs /\ me'[b].known = w.known /\ SameDeal(w, me'[b])
      /\ \A y \in Bot \ {b} : SameModes(me[y], me'[y]) /\ SameDeal(me[y], me'[y])
  BY <1>2, <1>4, ExecutedModes
<1>7. \A x \in Bot : SameDeal(me[x], me'[x]) /\ me'[x].known = me[x].known
  BY <1>5, <1>6 DEF SameDeal, SameModes
<1>8. KnownInv'
  BY <1>2, <1>7, KnownKept DEF KnownInv, SameDeal
<1>9. ASSUME ~apart' PROVE QuietInv'
  <2>1. out' = out /\ w.jobs = me[b].jobs /\ ~apart
    BY <1>2, <1>6, <1>9
  <2>2. \A x \in Bot : SameNews(inbox[x], inbox'[x])
    BY <1>2, OtherNews
  <2>3. \A x \in Bot : Kept(x)
    BY <1>4, <1>5, <2>1, <2>2, WorkKept DEF Kept
  <2>4. Steady => Steady'
    BY <1>2, <1>7, SteadyKept DEF Steadied, Bots, SameDeal, Dealt
  <2> QED BY <1>2, <2>1, <2>3, <2>4, QuietKept DEF Bots
<1> QED BY <1>8, <1>9 DEF QuietInv

LEMMA CheckQuiet ==
    ASSUME DealInv, KnownInv, QuietInv, NEW b \in Bot, NEW m, CheckEnds(b, m)
    PROVE  KnownInv' /\ QuietInv'
<1>1. /\ UNCHANGED <<ops, clean, inbox, ask, out, apart, vain>>
      /\ \A x \in Bot : /\ IsSeq(inbox[x]) /\ SameDeal(me[x], me'[x]) /\ me'[x].known = me[x].known
                        /\ me'[x].jobs = me[x].jobs /\ me'[x].recent = me[x].recent
  BY CheckForgotten DEF DealInv
<1>2. KnownInv'
  BY <1>1, KnownKept DEF KnownInv, SameDeal
<1>3. ASSUME ~apart' PROVE QuietInv'
  <2>1. \A x \in Bot : SameNews(inbox[x], inbox'[x])
    BY <1>1, OtherNews
  <2>2. \A x \in Bot : Kept(x)
    BY <1>1, <2>1 DEF Kept
  <2>3. Steady => Steady'
    BY <1>1, SteadyKept DEF Steadied, Bots, SameDeal, Dealt
  <2> QED BY <1>1, <1>3, <2>2, <2>3, QuietKept DEF Bots
<1> QED BY <1>2, <1>3 DEF QuietInv

\* The work for the modes that waits is not due.
LEMMA NotDue ==
    ASSUME QuietInv, ~apart, NEW b \in Bot, NEW j \in Mode(me[b].jobs) PROVE ~Due(b, j)
<1>1. Steady /\ Backup(b, Bots, me[b])
  BY DEF QuietInv, Calm, CalmBot, Hurt, HurtBot, Healed, HealedBot
<1>2. j.age = 0 /\ On("enforcemodes") /\ b \in Bots /\ ~Holds(Bots, b) /\ j.act = "mode"
  BY <1>1 DEF Backup, Mode
<1>3. me[b].opped /\ me[b].in /\ Dealt(b, me[b]) = Bots
  BY <1>1, <1>2 DEF Steady, SteadyBot
<1>4. Bots \in SUBSET Bot
  BY DEF Bots
<1>5. deal_rank(b, me[b], JobOf["mode"]) \in Nat /\ deal_rank(b, me[b], JobOf["mode"]) # 0
  BY <1>2, <1>3, <1>4, ModeHolder
<1>6. MaxAge \in Nat
  BY EnforceAssumption DEF EnforceAssumption
<1> QED BY <1>2, <1>3, <1>5, <1>6 DEF Due

LEMMA TickQuiet ==
    ASSUME DealInv, KnownInv, QuietInv, NEW b \in Bot, jobs_tick(b)
    PROVE  KnownInv' /\ QuietInv'
<1>1. PICK due : /\ due = {j \in me[b].jobs : Due(b, j)}
                 /\ Execute(b, [me[b] EXCEPT !.jobs = @ \ due], {j \in due : Runs(b, j)})
  BY DEF jobs_tick
<1> DEFINE w == [me[b] EXCEPT !.jobs = @ \ due]
           J == {j \in due : Runs(b, j)}
<1>2. /\ UNCHANGED <<clean, ops, inbox, ask, vain, apart>> /\ IsTable(me) /\ IsTable(out)
      /\ \A x \in Bot : IsSeq(inbox[x]) /\ IsView(me[x])
  BY DEF jobs_tick, channel, history, DealInv
<1>3. /\ IsView(w) /\ SameDeal(me[b], w) /\ w.known = me[b].known /\ w.recent = me[b].recent
      /\ Mode(w.jobs) \subseteq Mode(me[b].jobs)
  BY <1>2 DEF IsView, Fields, SameDeal, Mode
<1>4. Execute(b, w, J) /\ J \subseteq due
  BY <1>1
<1> HIDE DEF w, J
<1>5. /\ me'[b].jobs = w.jobs /\ me'[b].known = w.known /\ SameDeal(w, me'[b])
      /\ \A y \in Bot \ {b} : SameModes(me[y], me'[y]) /\ SameDeal(me[y], me'[y])
  BY <1>2, <1>3, <1>4, ExecutedModes
<1>6. \A x \in Bot : SameDeal(me[x], me'[x]) /\ me'[x].known = me[x].known
  BY <1>3, <1>5 DEF SameDeal, SameModes
<1>7. KnownInv'
  BY <1>2, <1>6, KnownKept DEF KnownInv, SameDeal
<1>8. ASSUME ~apart PROVE QuietInv'
  <2>1. Mode(J) = {}
    <3>1. ASSUME NEW j \in Mode(J) PROVE FALSE
      <4>1. j \in Mode(me[b].jobs) /\ Due(b, j)
        BY <1>1, <1>4, <3>1 DEF Mode
      <4> QED BY <1>8, <4>1, NotDue
    <3> QED BY <3>1
  <2>2. \A x \in Bot : SameNews(inbox[x], inbox'[x])
    BY <1>2, OtherNews
  <2>3. \A x \in Bot : Kept(x)
    BY <1>3, <1>4, <2>1, <2>2, WorkKept DEF Kept
  <2>4. Steady => Steady'
    BY <1>2, <1>6, SteadyKept DEF Steadied, Bots, SameDeal, Dealt
  <2> QED BY <1>2, <1>8, <2>3, <2>4, QuietKept DEF Bots
<1> QED BY <1>2, <1>7, <1>8 DEF QuietInv

\* Who reads no line and runs no work.
Idly == /\ \A b \in Bot : Aside(b)
        /\ UNCHANGED <<out, ask, vain>> /\ (~apart' => ~apart /\ Settled)

\* A line told to some of the bots, by tables.
LEMMA ToldTo ==
    ASSUME IsTable(inbox), NEW e, NEW S, Tell(e, S), NEW b \in Bot
    PROVE  inbox'[b] = IF b \in S THEN Append(inbox[b], e) ELSE inbox[b]
BY DEF Tell

LEMMA SameAside ==
    ASSUME DealInv, UNCHANGED <<out, ask, me, vain>>, Meanwhile,
           inbox' = inbox \/ \E e, S : e.t # "modes" /\ Tell(e, S)
    PROVE  Idly
<1>1. ASSUME NEW b \in Bot PROVE \/ inbox'[b] = inbox[b]
                                 \/ \E e : e.t # "modes" /\ inbox'[b] = Append(inbox[b], e)
  <2>1. ASSUME NEW e, NEW S, e.t # "modes", Tell(e, S)
        PROVE  \/ inbox'[b] = inbox[b]
               \/ \E x : x.t # "modes" /\ inbox'[b] = Append(inbox[b], x)
    BY <2>1, ToldTo DEF DealInv
  <2> QED BY <2>1
<1> QED BY <1>1 DEF Idly, Aside, SameDeal, Meanwhile, Settled

\* The events of the lines of bots and users: none is of the modes but theirs.
LEMMA ChangeTold ==
    ASSUME NEW l, l.act \in LineActs, NEW s, Change(l, s)
    PROVE  /\ Tell(EventOf(l, s), members)
           /\ l.act # "mode" => EventOf(l, s).t # "modes" /\ (clean' <=> clean)
BY DEF Change, EventOf, LineActs

LEMMA UsersIdle ==
    ASSUME DealInv, Others, ~\E s \in Chanops \cap Active : UserModes(s) PROVE Idly
<1>1. ASSUME NEW a \in LineActs \ {"mode"}, NEW x, NEW s, NEW k, Act(k), Change(Line(a, x), s), Quiet
      PROVE  Idly
  <2>1. Line(a, x).act = a
    BY DEF Line
  <2>2. EventOf(Line(a, x), s).t # "modes" /\ Tell(EventOf(Line(a, x), s), members)
    BY <1>1, <2>1, ChangeTold
  <2>3. UNCHANGED <<out, ask, me, vain>> /\ Meanwhile
    BY <1>1 DEF Act, Quiet
  <2> QED BY <2>2, <2>3, SameAside
<1>2. ASSUME NEW s, NEW u \in User, UserOps(s, u) PROVE Idly
  BY <1>1, <1>2 DEF UserOps, LineActs
<1>3. ASSUME NEW s, NEW x \in Member, UserDeops(s, x) \/ UserKicks(s, x) PROVE Idly
  BY <1>1, <1>3 DEF UserDeops, UserKicks, LineActs
<1>4. ASSUME NEW s, NEW m \in Mask, UserBans(s, m) PROVE Idly
  BY <1>1, <1>4 DEF UserBans, LineActs
<1>5. ASSUME NEW e, NEW k, Act(k), Tell(e, members), e.t # "modes", Quiet PROVE Idly
  <2>1. UNCHANGED <<out, ask, me, vain>> /\ Meanwhile
    BY <1>5 DEF Act, Quiet
  <2> QED BY <1>5, <2>1, SameAside
<1>6. ASSUME NEW u \in User, NEW w \in User, UserJoins(u) \/ UserParts(u) \/ UserRenames(u, w)
      PROVE  Idly
  <2>1. CASE UserJoins(u)
    BY <1>5, <2>1 DEF UserJoins
  <2>2. CASE UserParts(u)
    BY <1>5, <2>2 DEF UserParts
  <2>3. CASE UserRenames(u, w)
    BY <1>5, <2>3 DEF UserRenames
  <2> QED BY <1>6, <2>1, <2>2, <2>3
<1>7. ASSUME AdminBitch \/ (\E m \in Mask : AdminBans(m)) \/ \E h \in Range(Host) : Authorise(h)
      PROVE  Idly
  <2>1. (Look \/ me' = me) /\ UNCHANGED <<inbox, ask, out, vain>> /\ Meanwhile
    BY <1>7 DEF AdminBitch, AdminBans, Authorise, Act
  <2>2. CASE me' = me
    BY <2>1, <2>2, SameAside
  <2>3. CASE Look
    <3>1. ASSUME NEW b \in Bot PROVE Aside(b)
      <4>1. me'[b] = [me[b] EXCEPT !.check = TRUE] /\ IsView(me[b])
        BY <2>3 DEF Look, DealInv
      <4>2. SameDeal(me[b], me'[b]) /\ me'[b].known = me[b].known /\ me'[b].jobs = me[b].jobs
            /\ me'[b].recent = me[b].recent
        BY <4>1 DEF IsView, Fields, SameDeal
      <4> QED BY <2>1, <4>2 DEF Aside
    <3> QED BY <2>1, <3>1 DEF Idly, Meanwhile, Settled
  <2> QED BY <2>1, <2>2, <2>3
<1> QED BY <1>2, <1>3, <1>4, <1>6, <1>7 DEF Others

LEMMA OthersIdle ==
    ASSUME DealInv,
           \/ Tick \/ \E b \in Bot : Rejoin(b) \/ GetOps(b)
           \/ \E b \in Bot : \E l \in me[b].recent : WindowEnds(b, l)
    PROVE  Idly
<1>0. IsTable(me) /\ \A b \in Bot : IsView(me[b])
  BY DEF DealInv
<1>1. CASE Tick
  <2>1. UNCHANGED <<inbox, ask, out, vain>> /\ Meanwhile
    BY <1>1 DEF Tick
  <2>2. ASSUME NEW b \in Bot PROVE Aside(b)
    <3>1. me'[b] = [me[b] EXCEPT !.jobs = {[j EXCEPT !.age = @ + 1] : j \in @}]
      BY <1>1 DEF Tick
    <3>2. /\ SameDeal(me[b], me'[b]) /\ me'[b].known = me[b].known /\ me'[b].recent = me[b].recent
          /\ me'[b].jobs = {[j EXCEPT !.age = @ + 1] : j \in me[b].jobs}
      BY <1>0, <3>1 DEF IsView, Fields, SameDeal
    <3>3. ASSUME NEW j \in me[b].jobs PROVE [j EXCEPT !.age = @ + 1].act = j.act
      BY <1>0, <3>3 DEF IsView, IsJob
    <3>4. Mode(me[b].jobs) = {} => Mode(me'[b].jobs) = {}
      <4>1. ASSUME NEW k \in Mode(me'[b].jobs) PROVE Mode(me[b].jobs) # {}
        <5>1. PICK j \in me[b].jobs : k = [j EXCEPT !.age = @ + 1] /\ k.act = "mode"
          BY <3>2, <4>1 DEF Mode
        <5>2. j \in Mode(me[b].jobs)
          BY <3>3, <5>1 DEF Mode
        <5> QED BY <5>2
      <4> QED BY <4>1
    <3> QED BY <2>1, <3>2, <3>4 DEF Aside
  <2> QED BY <2>1, <2>2 DEF Idly, Meanwhile, Settled
<1>2. ASSUME NEW b \in Bot, Rejoin(b) PROVE Idly
  <2> DEFINE e == [t |-> "join", u |-> b]
  <2>1. Tell(e, members \cup {b}) /\ UNCHANGED <<out, ask, me, vain>> /\ Meanwhile /\ e.t # "modes"
    BY <1>2 DEF Rejoin
  <2> HIDE DEF e
  <2> QED BY <2>1, SameAside
<1>3. ASSUME NEW b \in Bot, GetOps(b) PROVE Idly
  <2> DEFINE e == [t |-> "+o", u |-> b, s |-> "server"]
  <2>1. Tell(e, members) /\ UNCHANGED <<out, ask, me, vain>> /\ Meanwhile /\ e.t # "modes"
    BY <1>3 DEF GetOps
  <2> HIDE DEF e
  <2> QED BY <2>1, SameAside
<1>4. ASSUME NEW b \in Bot, NEW l, WindowEnds(b, l) PROVE Idly
  <2>1. /\ me' = [me EXCEPT ![b].recent = @ \ {l}] /\ UNCHANGED <<inbox, ask, out, vain, apart>>
        /\ ~InFlight
    BY <1>4 DEF WindowEnds, history
  <2>2. me'[b] = [me[b] EXCEPT !.recent = @ \ {l}] /\ \A x \in Bot \ {b} : me'[x] = me[x]
    BY <1>0, <2>1 DEF IsTable
  <2>3. /\ SameDeal(me[b], me'[b]) /\ me'[b].known = me[b].known /\ me'[b].jobs = me[b].jobs
        /\ me'[b].recent = me[b].recent \ {l}
    BY <1>0, <2>2 DEF IsView, Fields, SameDeal
  <2>4. \A x \in Bot : Aside(x)
    BY <2>1, <2>2, <2>3 DEF Aside, SameDeal
  <2> QED BY <2>1, <2>4 DEF Idly, Settled
<1> QED BY <1>1, <1>2, <1>3, <1>4

LEMMA IdleQuiet == ASSUME DealInv, KnownInv, QuietInv, Idly PROVE KnownInv' /\ QuietInv'
BY AsideQuiet DEF Idly

LEMMA SparedKept == ASSUME DealInv, SparedBots, [Next]_vars PROVE SparedBots'
<1>1. IsTable(out)
  BY DEF DealInv
<1>2. \A b \in Bot : \A l \in out'[b] \ out[b] : l.act = "kick" => l.tgt \notin Bot
  <2>1. CASE \E b \in Bot : \E w, J : Execute(b, w, J)
    BY <1>1, <2>1, Executed DEF Spares, Authorised
  <2> QED BY <2>1, SendersLook
<1> QED BY <1>2 DEF SparedBots

\* The server takes a line of a bot: the holder's revert heals the modes.
LEMMA RevertTaken ==
    ASSUME DealInv, QuietInv, ~apart, NEW b \in Bot, NEW l \in out[b], l.act = "mode", Take(b, l)
    PROVE  QuietInv'
<1>1. l \in Mode(out[b])
  BY DEF Mode
<1>2. Steady /\ Hurt /\ ~vain /\ ~clean
  BY <1>1 DEF QuietInv, Calm, CalmBot, Healed, HealedBot, Hurt
<1>3. PICK f \in BOOLEAN : /\ News(inbox[b], b, f, FALSE) /\ Backup(b, Bots, me[b])
                           /\ Mode(out[b]) = IF Holds(Bots, b) /\ ~f THEN {Revert} ELSE {}
                           /\ Mode(me[b].recent) \subseteq Mode(out[b])
  BY <1>2 DEF Hurt, HurtBot
<1>4. f = FALSE /\ Holds(Bots, b) /\ Mode(out[b]) = {Revert} /\ l = Revert
  BY <1>1, <1>3
<1>5. b \in ops /\ Works(l)
  BY <1>2, <1>4 DEF Holds, Bots, Works, Revert, Line
<1> DEFINE e == EventOf(l, b)
<1>6. Reverted(e, b) /\ NoDeal(e) /\ Tell(e, members) /\ ops' = ops
  BY <1>5 DEF Take, Change, EventOf, Reverted, NoDeal
<1>7. /\ UNCHANGED <<ask, me>> /\ out' = [out EXCEPT ![b] = @ \ {l}] /\ vain' = vain
      /\ IsTable(out) /\ IsTable(inbox) /\ ops \subseteq members
      /\ \A x \in Bot : IsSeq(inbox[x])
  BY <1>5 DEF Take, DealInv
<1> HIDE DEF e
<1>8. out'[b] = out[b] \ {l} /\ \A x \in Bot \ {b} : out'[x] = out[x]
  BY <1>7 DEF IsTable
<1>9. \A x \in Bot : inbox'[x] = IF x \in members THEN Append(inbox[x], e) ELSE inbox[x]
  BY <1>6, <1>7, ToldTo
<1>10. Steady'
  <2>1. \A x \in Bot : Steadied(x)
    BY <1>6, <1>7, <1>9 DEF Steadied
  <2>2. Bots' = Bots
    BY <1>6 DEF Bots
  <2> QED BY <1>2, <1>7, <2>1, <2>2, SteadyKept
<1>11. ASSUME NEW x \in Bot PROVE HealedBot(x, Bots, inbox'[x], me[x], out'[x], b)
  <2>1. CASE x = b
    <3>1. News(inbox[b], b, FALSE, FALSE)
      BY <1>3, <1>4
    <3>2. News(Append(inbox[b], e), b, FALSE, TRUE)
      BY <1>6, <1>7, <3>1, NewsTold, Zenon
    <3>3. b \in members /\ b \in Bots
      BY <1>5, <1>7 DEF Bots
    <3>4. Mode(out'[b]) = {}
      BY <1>4, <1>8 DEF Mode
    <3>5. News(inbox'[b], b, FALSE, TRUE)
      BY <1>9, <3>2, <3>3
    <3> QED BY <1>3, <1>4, <2>1, <3>3, <3>4, <3>5 DEF HealedBot
  <2>2. CASE x # b
    <3>1. PICK g \in BOOLEAN : /\ News(inbox[x], x, g, FALSE) /\ Backup(x, Bots, me[x])
                               /\ Mode(out[x]) = IF Holds(Bots, x) /\ ~g THEN {Revert} ELSE {}
                               /\ Mode(me[x].recent) \subseteq Mode(out[x])
      BY <1>2 DEF Hurt, HurtBot
    <3>2. Bots \in SUBSET Bot
      BY DEF Bots
    <3>3. ~Holds(Bots, x)
      BY <1>4, <2>2, <3>2, ModeHolder
    <3>4. Mode(out'[x]) = {} /\ Mode(me[x].recent) = {}
      BY <1>8, <2>2, <3>1, <3>3
    <3>5. News(inbox[x], b, g, FALSE)
      BY <3>1, NoNews
    <3>6. CASE x \in members
      <4>1. News(Append(inbox[x], e), b, g, TRUE)
        BY <1>6, <1>7, <3>5, NewsTold, Zenon
      <4>2. News(inbox'[x], b, g, TRUE)
        BY <1>9, <3>6, <4>1
      <4> QED BY <3>1, <3>3, <3>4, <4>2 DEF HealedBot
    <3>7. CASE x \notin members
      <4>1. News(inbox'[x], b, g, FALSE) /\ x \notin Bots
        BY <1>7, <1>9, <3>5, <3>7 DEF Bots
      <4>2. Mode(me[x].jobs) = {}
        BY <3>1, <4>1 DEF Backup
      <4> QED BY <3>1, <3>3, <3>4, <4>1, <4>2 DEF HealedBot
    <3> QED BY <3>6, <3>7
  <2> QED BY <2>1, <2>2
<1>12. Healed'
  <2>1. Bots' = Bots
    BY <1>6 DEF Bots
  <2> QED BY <1>7, <1>11, <2>1 DEF Healed
<1> QED BY <1>2, <1>7, <1>10, <1>12 DEF QuietInv

LEMMA TakeQuiet ==
    ASSUME DealInv, KnownInv, SparedBots, QuietInv, NEW b \in Bot, NEW l, Take(b, l)
    PROVE  KnownInv' /\ QuietInv'
<1> DEFINE e == EventOf(l, b)
<1>1. /\ l \in out[b] /\ UNCHANGED <<ask, me>> /\ out' = [out EXCEPT ![b] = @ \ {l}]
      /\ apart' = (apart \/ ops' \cap Bot # ops \cap Bot)
      /\ IsTable(out) /\ IsTable(inbox) /\ l.act \in LineActs
      /\ \A x \in Bot : IsSeq(inbox[x])
  BY DEF Take, DealInv
<1>2. out'[b] = out[b] \ {l} /\ \A x \in Bot \ {b} : out'[x] = out[x]
  BY <1>1 DEF IsTable
<1>3. inbox' = inbox \/ Tell(e, members)
  BY DEF Take, Change
<1>4. ASSUME NEW x \in Bot PROVE inbox'[x] = inbox[x] \/ (Tell(e, members) /\ inbox'[x] = Append(inbox[x], e))
  <2> HIDE DEF e
  <2> QED BY <1>1, <1>3, ToldTo
<1>5. KnownInv'
  <2> HIDE DEF e
  <2>1. ASSUME NEW x \in Bot PROVE KnownBot(inbox'[x], me'[x], ask'[x])
    BY <1>1, <1>4, KnownKept DEF KnownInv
  <2> QED BY <2>1 DEF KnownInv
<1>6. ASSUME ~apart', l.act # "mode" PROVE QuietInv'
  <2>1. ~apart /\ Bots' = Bots
    BY <1>1, <1>6 DEF Bots
  <2>2. (~clean => ~clean') /\ (~vain => ~vain') /\ e.t # "modes"
    BY <1>1, <1>6 DEF Take, Change, channel, EventOf, LineActs
  <2>3. inbox' = inbox \/ NoDeal(e)
    <3>1. CASE b \in ops /\ Works(l)
      <4>1. ops' = IF l.act \in {"deop", "kick"} THEN ops \ {l.tgt}
                   ELSE IF l.act = "reop" THEN ops \cup {l.tgt} ELSE ops
        BY <3>1 DEF Take, Change
      <4>2. /\ l.act = "deop" => l.tgt \in ops
            /\ l.act = "reop" => l.tgt \notin ops
        BY <3>1 DEF Works
      <4>3. l.act \in {"deop", "reop", "kick"} => l.tgt \notin Bot
        BY <1>1, <2>1, <4>1, <4>2 DEF SparedBots, Bots
      <4> QED BY <1>1, <1>6, <4>3 DEF NoDeal, EventOf, LineActs
    <3>2. CASE ~(b \in ops /\ Works(l))
      BY <3>2 DEF Take
    <3> QED BY <3>1, <3>2
  <2> HIDE DEF e
  <2>4. \A x \in Bot : SameNews(inbox[x], inbox'[x])
    BY <1>1, <1>4, <2>2, OtherNews
  <2>5. Mode(out'[b]) = Mode(out[b])
    BY <1>2, <1>6 DEF Mode
  <2>6. \A x \in Bot : Kept(x)
    BY <1>1, <1>2, <2>4, <2>5 DEF Kept
  <2>7. \A x \in Bot : Steadied(x)
    BY <1>1, <1>4, <2>3 DEF Steadied
  <2>8. Steady => Steady'
    BY <1>1, <2>1, <2>7, SteadyKept
  <2> QED BY <2>1, <2>2, <2>6, <2>8, QuietKept
<1>7. ASSUME ~apart', l.act = "mode" PROVE QuietInv'
  BY <1>1, <1>7, RevertTaken
<1> QED BY <1>5, <1>6, <1>7 DEF QuietInv

LEMMA AnswerQuiet ==
    ASSUME DealInv, KnownInv, QuietInv, NEW b \in Bot, NEW q, Answer(b, q)
    PROVE  KnownInv' /\ QuietInv'
<1> DEFINE e == CASE q = "who"   -> [t |-> "who", members |-> members, ops |-> ops]
                  [] q = "modes" -> [t |-> "324", clean |-> clean]
                  [] q = "bans"  -> [t |-> "368", bans |-> bans]
<1>1. /\ q \in ask[b] /\ ask' = [ask EXCEPT ![b] = @ \ {q}] /\ Tell(e, {b})
      /\ UNCHANGED <<out, me, apart, vain>> /\ q \in Queries /\ IsTable(ask) /\ IsTable(inbox)
      /\ \A x \in Bot : IsSeq(inbox[x])
  BY DEF Answer, channel, history, DealInv
<1>2. e.t # "modes" /\ (q = "modes" => e.t = "324")
  BY <1>1 DEF Queries
<1> HIDE DEF e
<1>3. ask'[b] = ask[b] \ {q} /\ \A x \in Bot \ {b} : ask'[x] = ask[x]
  BY <1>1 DEF IsTable
<1>4. inbox'[b] = Append(inbox[b], e) /\ \A x \in Bot \ {b} : inbox'[x] = inbox[x]
  BY <1>1, ToldTo
<1>5. KnownInv'
  <2>1. ASSUME NEW x \in Bot PROVE KnownBot(inbox'[x], me'[x], ask'[x])
    <3>1. CASE x = b /\ q = "modes"
      <4>1. Len(inbox'[b]) = Len(inbox[b]) + 1 /\ inbox'[b][Len(inbox[b]) + 1] = e /\ Len(inbox[b]) \in Nat
        BY <1>1, <1>4, SeqFacts
      <4>2. Len(inbox[b]) + 1 \in 1..Len(inbox'[b])
        BY <4>1
      <4> QED BY <1>2, <3>1, <4>1, <4>2 DEF KnownBot
    <3>2. CASE x = b /\ q # "modes"
      <4>1. \A k \in 1..Len(inbox[b]) : k \in 1..Len(inbox'[b]) /\ inbox'[b][k] = inbox[b][k]
        BY <1>1, <1>4, SeqFacts
      <4> QED BY <1>1, <1>3, <3>2, <4>1 DEF KnownBot, KnownInv
    <3>3. CASE x # b
      BY <1>1, <1>3, <1>4, <3>3 DEF KnownBot, KnownInv
    <3> QED BY <3>1, <3>2, <3>3
  <2> QED BY <2>1 DEF KnownInv
<1>6. ASSUME ~apart PROVE ~vain' /\ Calm'
  <2>1. ~Steady
    BY <1>1 DEF Steady, SteadyBot
  <2>2. Calm /\ ~vain
    BY <1>6, <2>1 DEF QuietInv
  <2>3. \A x \in Bot : SameNews(inbox[x], inbox'[x])
    BY <1>1, <1>2, <1>4, OtherNews
  <2>4. \A x \in Bot : Kept(x)
    BY <1>1, <2>3 DEF Kept
  <2> QED BY <1>1, <2>2, <2>4, AllKept
<1> QED BY <1>1, <1>5, <1>6 DEF QuietInv

\* A user moves the modes of a settled channel: every bot has it to read.
LEMMA UserModesQuiet ==
    ASSUME DealInv, KnownInv, QuietInv, NEW s \in Chanops, UserModes(s)
    PROVE  KnownInv' /\ QuietInv'
<1> DEFINE e == [t |-> "modes", clean |-> FALSE, s |-> s]
<1>1. /\ Tell(e, members) /\ UNCHANGED <<out, ask, me, ops, vain>> /\ ~clean'
      /\ IsTable(inbox) /\ ops \subseteq members
      /\ \A x \in Bot : IsSeq(inbox[x])
  BY DEF UserModes, Quiet, Act, DealInv
<1>2. Moved(e) /\ NoDeal(e) /\ ~Reverted(e, s)
  <2>1. s \notin Bot
    BY Dealing DEF Chanops
  <2> QED BY <2>1 DEF Moved, NoDeal, Reverted
<1> HIDE DEF e
<1>3. \A x \in Bot : inbox'[x] = IF x \in members THEN Append(inbox[x], e) ELSE inbox[x]
  BY <1>1, ToldTo
<1>4. KnownInv'
  <2>1. ASSUME NEW x \in Bot PROVE KnownBot(inbox'[x], me'[x], ask'[x])
    BY <1>1, <1>3, KnownKept DEF KnownInv
  <2> QED BY <2>1 DEF KnownInv
<1>5. ASSUME ~apart' PROVE ~vain' /\ Steady' /\ Hurt'
  <2>1. ~apart /\ Settled
    BY <1>5 DEF UserModes, Act, Meanwhile, Settled
  <2>2. Calm /\ Steady /\ ~vain
    BY <2>1, SettledCalm, SettledSteady DEF QuietInv
  <2>3. Steady'
    <3>1. \A x \in Bot : Steadied(x)
      BY <1>1, <1>2, <1>3 DEF Steadied
    <3>2. Bots' = Bots
      BY <1>1 DEF Bots
    <3> QED BY <1>1, <2>2, <3>1, <3>2, SteadyKept
  <2>4. ASSUME NEW x \in Bot PROVE HurtBot(x, Bots, inbox'[x], me[x], out[x])
    <3>1. /\ Mode(me[x].jobs) = {} /\ Mode(me[x].recent) = {} /\ Mode(out[x]) = {}
          /\ News(inbox[x], x, FALSE, FALSE)
      BY <2>2 DEF Calm, CalmBot
    <3>2. Backup(x, Bots, me[x])
      BY <3>1 DEF Backup
    <3>3. CASE x \in members
      <4>1. inbox[x] = <<>> /\ Len(inbox[x]) = 0
        BY <2>1 DEF Settled, InFlight
      <4>2. Len(inbox'[x]) = 1 /\ inbox'[x][1] = e
        <5>1. inbox'[x] = Append(inbox[x], e) /\ IsSeq(inbox[x])
          BY <1>1, <1>3, <3>3
        <5>2. /\ Len(Append(inbox[x], e)) = Len(inbox[x]) + 1
              /\ Append(inbox[x], e)[Len(inbox[x]) + 1] = e
          BY <5>1, SeqFacts
        <5>3. 0 + 1 = 1
          OBVIOUS
        <5> QED BY <4>1, <5>1, <5>2, <5>3
      <4>3. \A k \in 1..Len(inbox'[x]) : k = 1 /\ inbox'[x][k] = e
        BY <4>2
      <4>4. 1 \in 1..Len(inbox'[x]) /\ \A r : ~Reverted(e, r)
        BY <1>2, <4>2 DEF Moved, Reverted
      <4>5. News(inbox'[x], x, TRUE, FALSE)
        BY <1>2, <4>2, <4>3, <4>4 DEF News
      <4> QED BY <3>1, <3>2, <4>5 DEF HurtBot
    <3>4. CASE x \notin members
      <4>1. x \notin Bots /\ inbox'[x] = inbox[x]
        BY <1>1, <1>3, <3>4 DEF Bots
      <4>2. ~Holds(Bots, x)
        BY <4>1 DEF Holds
      <4> QED BY <3>1, <3>2, <4>1, <4>2 DEF HurtBot
    <3> QED BY <3>3, <3>4
  <2>5. Hurt'
    <3>1. Bots' = Bots
      BY <1>1 DEF Bots
    <3> QED BY <1>1, <2>4, <3>1 DEF Hurt
  <2> QED BY <1>1, <2>2, <2>3, <2>5
<1> QED BY <1>4, <1>5 DEF QuietInv

\* A bot reads a line that is not of the modes.
LEMMA ReadQuiet ==
    ASSUME DealInv, KnownInv, QuietInv, NEW b \in Bot, Read(b), Head(inbox[b]).t # "modes"
    PROVE  KnownInv' /\ QuietInv'
<1> DEFINE v == me[b]
           box == inbox[b]
           e == Head(box)
<1>1. /\ box # <<>> /\ inbox' = [inbox EXCEPT ![b] = Tail(@)] /\ See(b, v, e)
      /\ UNCHANGED <<clean, ops, apart, vain>>
      /\ IsTable(inbox) /\ IsTable(ask) /\ IsTable(out) /\ IsTable(me)
      /\ \A x \in Bot : IsSeq(inbox[x]) /\ IsView(me[x])
  BY DEF Read, channel, DealInv
<1>2. inbox'[b] = Tail(box) /\ \A x \in Bot \ {b} : inbox'[x] = inbox[x]
  BY <1>1 DEF IsTable
<1>3. PICK w, S : /\ Submit(b, w, S) /\ IsView(w) /\ (\A j \in S : IsJob(j)) /\ Mode(S) = {}
                  /\ w.jobs = v.jobs /\ Mode(w.recent) = Mode(v.recent)
                  /\ \A x \in Bot : ask[x] \subseteq ask'[x]
                  /\ w.in /\ ~w.known => "modes" \in ask'[b] \/ (v.in /\ ~v.known /\ e.t # "324")
                  /\ NoDeal(e) => /\ w.in = v.in /\ w.opped = v.opped /\ w.known = v.known
                                  /\ Dealt(b, w) = Dealt(b, v) /\ ask' = ask
  <2>1. Unmoved(b, e, v)
    <3> HIDE DEF v, e
    <3> QED BY <1>1, OthersUnmoved DEF v, e
  <2> QED BY <2>1 DEF Unmoved
<1>4. PICK u, J : /\ Execute(b, u, J) /\ IsView(u) /\ SameDeal(w, u)
                  /\ u.recent = w.recent /\ u.known = w.known /\ J \subseteq S
                  /\ Mode(u.jobs) \subseteq Mode(w.jobs)
  <2>1. IsView(w) /\ Submit(b, w, S) /\ \A j \in S : IsJob(j)
    BY <1>3
  <2>2. PICK u, J : /\ Execute(b, u, J) /\ IsView(u) /\ SameDeal(w, u)
                    /\ u.recent = w.recent /\ u.known = w.known
                    /\ J = {j \in S : deal_rank(b, w, JobOf[j.act]) = 0}
                    /\ \A k \in Mode(u.jobs) :
                          \/ k \in Mode(w.jobs)
                          \/ /\ k.age = 0 /\ w.opped /\ Mode(S) # {}
                             /\ deal_rank(b, w, JobOf["mode"]) # 0
    BY <2>1, SubmittedModes, ZenonT(120)
  <2> QED BY <1>3, <2>2
<1> DEFINE lines == LinesOf(b, u, J)
<1>5. /\ out'[b] = out[b] \cup lines /\ me'[b].recent = u.recent \cup lines
      /\ me'[b].jobs = u.jobs /\ me'[b].known = u.known /\ SameDeal(u, me'[b])
      /\ \A x \in Bot \ {b} : out'[x] = out[x] /\ SameModes(me[x], me'[x]) /\ SameDeal(me[x], me'[x])
  BY <1>1, <1>4, ExecutedModes
<1>6. Mode(lines) = {}
  <2>1. Mode(J) = {}
    BY <1>3, <1>4 DEF Mode
  <2> QED BY <2>1, ModeLinesOf
<1> HIDE DEF lines, e, box
<1>7. ASSUME NEW x \in Bot PROVE KnownBot(inbox'[x], me'[x], ask'[x])
  <2>1. CASE x # b
    BY <1>1, <1>2, <1>3, <1>5, <2>1, KnownKept DEF SameModes, SameDeal, KnownInv
  <2>2. CASE x = b
    <3>1. SUFFICES ASSUME me'[b].in /\ ~me'[b].known, "modes" \notin ask'[b]
                   PROVE  \E k \in 1..Len(inbox'[b]) : inbox'[b][k].t = "324"
      BY <2>2 DEF KnownBot
    <3>2. v.in /\ ~v.known /\ e.t # "324" /\ "modes" \notin ask[b]
      BY <1>3, <1>4, <1>5, <3>1 DEF SameDeal
    <3>3. PICK k \in 1..Len(box) : box[k].t = "324"
      BY <3>2 DEF KnownInv, KnownBot, box
    <3>4. /\ Len(box) \in Nat /\ Len(Tail(box)) = Len(box) - 1 /\ e = box[1]
          /\ \A i \in 1..Len(box) - 1 : Tail(box)[i] = box[i + 1]
      BY <1>1, SeqFacts DEF e, box
    <3>5. k # 1
      BY <3>2, <3>3, <3>4
    <3>6. k - 1 \in 1..Len(box) - 1 /\ (k - 1) + 1 = k
      BY <3>4, <3>5
    <3>7. Tail(box)[k - 1].t = "324" /\ k - 1 \in 1..Len(Tail(box))
      BY <3>3, <3>4, <3>6
    <3> QED BY <1>2, <3>7
  <2> QED BY <2>1, <2>2
<1>8. ASSUME NEW x \in Bot PROVE Kept(x)
  <2>1. CASE x = b
    <3>1. SameNews(inbox[b], inbox'[b])
      BY <1>1, <1>2, OtherNews DEF box, e
    <3>2. /\ Mode(out'[b]) = Mode(out[b]) \cup Mode(lines)
          /\ Mode(me'[b].recent) = Mode(u.recent) \cup Mode(lines)
      BY <1>5 DEF Mode
    <3> QED BY <1>3, <1>4, <1>5, <1>6, <2>1, <3>1, <3>2 DEF Kept
  <2>2. CASE x # b
    <3>1. SameNews(inbox[x], inbox'[x])
      BY <1>1, <1>2, <2>2, OtherNews
    <3> QED BY <1>5, <2>2, <3>1 DEF Kept, SameModes
  <2> QED BY <2>1, <2>2
<1>9. ASSUME Steady PROVE Steady'
  <2>1. NoDeal(e)
    <3>1. 1 \in 1..Len(box) /\ e = box[1]
      BY <1>1, SeqFacts DEF e, box
    <3> QED BY <1>9, <3>1 DEF Steady, SteadyBot, box
  <2>2. Dealt(b, me'[b]) = Dealt(b, w)
    BY <1>4, <1>5 DEF SameDeal, Dealt
  <2>3. Steadied(b)
    BY <1>1, <1>2, <1>3, <1>4, <1>5, <2>1, <2>2 DEF Steadied, SameDeal, box
  <2>4. ASSUME NEW x \in Bot \ {b} PROVE Steadied(x)
    <3>1. Dealt(x, me'[x]) = Dealt(x, me[x])
      BY <1>5 DEF SameDeal, Dealt
    <3> QED BY <1>2, <1>3, <1>5, <2>1, <3>1 DEF Steadied, SameDeal, SameModes
  <2>5. Bots' = Bots
    BY <1>1 DEF Bots
  <2> QED BY <1>1, <1>9, <2>3, <2>4, <2>5, SteadyKept
<1>10. ~apart => QuietInv'
  BY <1>1, <1>8, <1>9, QuietKept DEF Bots
<1> QED BY <1>1, <1>7, <1>10 DEF KnownInv, QuietInv

LEMMA SameRank ==
    ASSUME NEW b, NEW v, NEW w, SameDeal(v, w)
    PROVE  \A job : deal_rank(b, v, job) = deal_rank(b, w, job)
<1>1. Dealt(b, v) = Dealt(b, w) /\ v.opped = w.opped
  BY DEF SameDeal, Dealt
<1> QED BY <1>1 DEF deal_rank

\* What a bot does that reads of the modes: v was its picture, r its rank for
\* their job, done says that the modes are back.
ModesRead(b, v, e, r, done) ==
    /\ ask' = ask /\ SameDeal(v, me'[b]) /\ me'[b].known = v.known
    /\ \A x \in Bot \ {b} : /\ out'[x] = out[x] /\ SameModes(me[x], me'[x])
                            /\ SameDeal(me[x], me'[x])
    /\ \A k \in Mode(me'[b].jobs) :
          /\ ~done
          /\ k \in Mode(v.jobs) \/ (k.age = 0 /\ v.opped /\ On("enforcemodes") /\ r # 0)
    /\ done \/ ~On("enforcemodes") \/ ~v.opped \/ r # 0 =>
          /\ Mode(out'[b]) = Mode(out[b])
          /\ Mode(me'[b].recent) = Mode(v.recent) \ (IF done /\ e.s = b THEN {Revert} ELSE {})
    /\ /\ ~e.clean /\ e.s # b /\ On("enforcemodes") /\ v.opped /\ v.known /\ r = 0
       /\ Revert \notin v.recent
       => /\ Mode(out'[b]) = Mode(out[b]) \cup {Revert}
          /\ Mode(me'[b].recent) = Mode(v.recent) \cup {Revert}

LEMMA ModesSeen ==
    ASSUME IsTable(out), IsTable(me), NEW b \in Bot, \A x \in Bot : IsView(me[x]), NEW e,
           SeeModes(b, me[b], e), NEW v, v = me[b], NEW r, r = deal_rank(b, v, JobOf["mode"]),
           NEW done, done = (e.clean /\ v.known)
    PROVE  ModesRead(b, v, e, r, done)
<1> DEFINE w0 == [v EXCEPT !.clean = e.clean, !.jobs = {j \in @ : ~(done /\ j.act = "mode")}]
           S0 == IF ~done /\ e.s # b /\ On("enforcemodes") THEN {Job("mode", Chan, "modes")} ELSE {}
<1>0. IsView(v)
  OBVIOUS
<1>1. ask' = ask /\ Submit(b, IF done /\ e.s = b THEN Ack(w0, "mode", Chan) ELSE w0, S0)
  BY DEF SeeModes
<1>2. /\ IsView(w0) /\ SameDeal(v, w0) /\ w0.recent = v.recent /\ w0.known = v.known
      /\ w0.clean = e.clean /\ w0.jobs = {j \in v.jobs : ~(done /\ j.act = "mode")}
  BY <1>0 DEF IsView, Fields, SameDeal
<1> HIDE DEF w0
<1>3. PICK u, S : /\ Submit(b, u, S) /\ IsView(u) /\ SameDeal(v, u) /\ S = S0
                  /\ u.known = v.known /\ u.clean = e.clean /\ u.jobs = w0.jobs
                  /\ u.recent = v.recent \ (IF done /\ e.s = b THEN {Revert} ELSE {})
  <2>1. CASE done /\ e.s = b
    <3> DEFINE a == Ack(w0, "mode", Chan)
    <3>1. /\ IsView(a) /\ SameDeal(w0, a) /\ a.known = w0.known /\ a.clean = w0.clean
          /\ a.jobs = w0.jobs /\ a.recent = w0.recent \ {Revert}
      BY <1>2 DEF Ack, IsView, Fields, SameDeal, Revert
    <3>2. Submit(b, a, S0)
      BY <1>1, <2>1
    <3> HIDE DEF a, S0
    <3>3. SameDeal(v, a)
      BY <1>2, <3>1 DEF SameDeal
    <3> QED BY <1>2, <2>1, <3>1, <3>2, <3>3
  <2>2. CASE ~(done /\ e.s = b)
    <3>1. Submit(b, w0, S0)
      BY <1>1, <2>2
    <3>2. w0.recent = v.recent \ (IF done /\ e.s = b THEN {Revert} ELSE {})
      BY <1>2, <2>2
    <3> HIDE DEF S0
    <3> QED BY <1>2, <3>1, <3>2
  <2> QED BY <2>1, <2>2
<1>4. /\ \A j \in S : IsJob(j) /\ j.act = "mode"
      /\ Mode(S) # {} => ~done /\ On("enforcemodes") /\ e.s # b
  BY <1>3 DEF IsJob, Job, LineActs, Mode
<1>5. PICK x, J : /\ Execute(b, x, J) /\ IsView(x) /\ SameDeal(u, x)
                  /\ x.recent = u.recent /\ x.known = u.known /\ x.clean = u.clean
                  /\ J = {j \in S : deal_rank(b, u, JobOf[j.act]) = 0}
                  /\ \A k \in Mode(x.jobs) :
                        \/ k \in Mode(u.jobs)
                        \/ /\ k.age = 0 /\ u.opped /\ Mode(S) # {}
                           /\ deal_rank(b, u, JobOf["mode"]) # 0
  <2>1. IsView(u) /\ Submit(b, u, S) /\ \A j \in S : IsJob(j)
    BY <1>3, <1>4
  <2> QED BY <2>1, SubmittedModes, ZenonT(120)
<1> DEFINE lines == LinesOf(b, x, J)
<1>6. /\ out'[b] = out[b] \cup lines /\ me'[b].recent = x.recent \cup lines
      /\ me'[b].jobs = x.jobs /\ me'[b].known = x.known /\ SameDeal(x, me'[b])
      /\ \A y \in Bot \ {b} : out'[y] = out[y] /\ SameModes(me[y], me'[y]) /\ SameDeal(me[y], me'[y])
  BY <1>5, ExecutedModes
<1>7. /\ Mode(out'[b]) = Mode(out[b]) \cup Mode(lines)
      /\ Mode(me'[b].recent) = Mode(x.recent) \cup Mode(lines)
      /\ Mode(x.recent) = Mode(v.recent) \ (IF done /\ e.s = b THEN {Revert} ELSE {})
  <2> HIDE DEF lines
  <2> QED BY <1>3, <1>5, <1>6 DEF Mode
<1>8. deal_rank(b, u, JobOf["mode"]) = r /\ x.opped = v.opped /\ u.opped = v.opped
  BY <1>3, <1>5, SameRank DEF SameDeal
<1>9. ASSUME done \/ ~On("enforcemodes") \/ ~v.opped \/ r # 0 PROVE Mode(lines) = {}
  <2>1. ~x.opped \/ Mode(J) = {}
    BY <1>4, <1>5, <1>8, <1>9 DEF Mode
  <2> QED BY <2>1, ModeLinesOf
<1>10. ASSUME ~e.clean, e.s # b, On("enforcemodes"), v.opped, v.known, r = 0, Revert \notin v.recent
       PROVE  Mode(lines) = {Revert} /\ ~done
  <2>1. S = {Job("mode", Chan, "modes")} /\ ~done
    BY <1>3, <1>10
  <2>2. J = {Job("mode", Chan, "modes")}
    BY <1>4, <1>5, <1>8, <1>10, <2>1
  <2>3. x.opped /\ x.known /\ ~x.clean /\ Revert \notin x.recent
    BY <1>3, <1>5, <1>8, <1>10
  <2> QED BY <1>10, <2>1, <2>2, <2>3, ModeLinesOf
<1>11. ASSUME NEW k \in Mode(me'[b].jobs)
       PROVE  /\ ~done
              /\ k \in Mode(v.jobs) \/ (k.age = 0 /\ v.opped /\ On("enforcemodes") /\ r # 0)
  <2>1. \/ k \in Mode(u.jobs)
        \/ k.age = 0 /\ u.opped /\ Mode(S) # {} /\ r # 0
    BY <1>5, <1>6, <1>8, <1>11
  <2>2. k \in Mode(u.jobs) => ~done /\ k \in Mode(v.jobs)
    BY <1>2, <1>3 DEF Mode
  <2> QED BY <1>4, <1>8, <2>1, <2>2
<1>12. SameDeal(v, me'[b]) /\ me'[b].known = v.known
  BY <1>3, <1>5, <1>6 DEF SameDeal
<1> HIDE DEF lines
<1>13. ASSUME done \/ ~On("enforcemodes") \/ ~v.opped \/ r # 0
       PROVE  /\ Mode(out'[b]) = Mode(out[b])
              /\ Mode(me'[b].recent) = Mode(v.recent) \ (IF done /\ e.s = b THEN {Revert} ELSE {})
  BY <1>7, <1>9, <1>13
<1>14. ASSUME ~e.clean, e.s # b, On("enforcemodes"), v.opped, v.known, r = 0, Revert \notin v.recent
       PROVE  /\ Mode(out'[b]) = Mode(out[b]) \cup {Revert}
              /\ Mode(me'[b].recent) = Mode(v.recent) \cup {Revert}
  BY <1>7, <1>10, <1>14
<1> QED BY <1>1, <1>6, <1>11, <1>12, <1>13, <1>14 DEF ModesRead

\* A bot reads of the modes: the holder sends its revert, a backup queues one,
\* and drops it once it reads that the modes are back.
LEMMA ReadModesQuiet ==
    ASSUME DealInv, KnownInv, QuietInv, NEW b \in Bot, Read(b), Head(inbox[b]).t = "modes"
    PROVE  KnownInv' /\ QuietInv'
<1>1. /\ inbox[b] # <<>> /\ inbox' = [inbox EXCEPT ![b] = Tail(@)]
      /\ See(b, me[b], Head(inbox[b])) /\ UNCHANGED <<clean, ops, apart, vain>>
      /\ IsTable(inbox) /\ IsTable(out) /\ IsTable(me)
      /\ \A x \in Bot : IsSeq(inbox[x]) /\ IsView(me[x])
  BY DEF Read, channel, DealInv
<1>2. inbox'[b] = Tail(inbox[b]) /\ \A x \in Bot \ {b} : inbox'[x] = inbox[x]
  BY <1>1 DEF IsTable
<1>3. PICK v, e, r, done, box : /\ v = me[b] /\ box = inbox[b] /\ e = Head(box)
                                /\ r = deal_rank(b, v, JobOf["mode"]) /\ done = (e.clean /\ v.known)
  OBVIOUS
<1>4. SeeModes(b, me[b], e)
  BY <1>1, <1>3 DEF See, SeeOp, SeeDeop, SeeBan, SeeUnban, SeeKick, SeeJoin, SeePart, SeeNick,
         SeeWho,
                    SeeState, SeeBanList
<1>5. /\ ask' = ask /\ SameDeal(v, me'[b]) /\ me'[b].known = v.known
      /\ \A x \in Bot \ {b} : /\ out'[x] = out[x] /\ SameModes(me[x], me'[x])
                              /\ SameDeal(me[x], me'[x])
      /\ \A k \in Mode(me'[b].jobs) :
            /\ ~done
            /\ k \in Mode(v.jobs) \/ (k.age = 0 /\ v.opped /\ On("enforcemodes") /\ r # 0)
      /\ done \/ ~On("enforcemodes") \/ ~v.opped \/ r # 0 =>
            /\ Mode(out'[b]) = Mode(out[b])
            /\ Mode(me'[b].recent) = Mode(v.recent) \ (IF done /\ e.s = b THEN {Revert} ELSE {})
      /\ /\ ~e.clean /\ e.s # b /\ On("enforcemodes") /\ v.opped /\ v.known /\ r = 0
         /\ Revert \notin v.recent
         => /\ Mode(out'[b]) = Mode(out[b]) \cup {Revert}
            /\ Mode(me'[b].recent) = Mode(v.recent) \cup {Revert}
  <2>1. /\ IsTable(out) /\ IsTable(me) /\ (\A x \in Bot : IsView(me[x])) /\ SeeModes(b, me[b], e)
        /\ v = me[b] /\ r = deal_rank(b, v, JobOf["mode"]) /\ done = (e.clean /\ v.known)
    BY <1>1, <1>3, <1>4
  <2>2. ModesRead(b, v, e, r, done)
    BY <2>1, ModesSeen, ZenonT(60)
  <2> QED BY <2>2 DEF ModesRead
<1>6. IsSeq(box) /\ box # <<>> /\ e.t = "modes" /\ inbox'[b] = Tail(box)
  BY <1>1, <1>2, <1>3
<1>7. /\ Len(box) \in Nat /\ Len(box) > 0 /\ Len(Tail(box)) = Len(box) - 1 /\ e = box[1]
      /\ \A i \in 1..Len(box) - 1 : Tail(box)[i] = box[i + 1]
  BY <1>3, <1>6, SeqFacts
<1>8. ASSUME NEW x \in Bot PROVE KnownBot(inbox'[x], me'[x], ask'[x])
  <2>1. CASE x # b
    BY <1>1, <1>2, <1>5, <2>1, KnownKept DEF SameModes, SameDeal, KnownInv
  <2>2. CASE x = b
    <3>1. KnownBot(box, v, ask[b])
      BY <1>3 DEF KnownInv
    <3>2. ASSUME NEW k \in 1..Len(box), box[k].t = "324"
          PROVE  k - 1 \in 1..Len(Tail(box)) /\ Tail(box)[k - 1].t = "324"
      <4>1. k # 1
        BY <1>6, <1>7, <3>2
      <4>2. k - 1 \in 1..Len(box) - 1 /\ (k - 1) + 1 = k
        BY <1>7, <4>1
      <4> QED BY <1>7, <3>2, <4>2
    <3>3. me'[b].in = v.in /\ me'[b].known = v.known /\ ask'[b] = ask[b]
      BY <1>5 DEF SameDeal
    <3>4. KnownBot(Tail(box), v, ask[b])
      BY <3>1, <3>2 DEF KnownBot
    <3>5. KnownBot(inbox'[b], me'[b], ask'[b])
      BY <1>6, <3>3, <3>4 DEF KnownBot
    <3> QED BY <2>2, <3>5
  <2> QED BY <2>1, <2>2
<1>9. ASSUME ~apart PROVE QuietInv'
  <2>1. ~vain /\ Steady /\ (Hurt \/ Healed)
    <3>1. ~Calm
      <4>1. 1 \in 1..Len(box)
        BY <1>7
      <4> QED BY <1>3, <1>6, <1>7, <4>1 DEF Calm, CalmBot, News
    <3> QED BY <1>9, <3>1 DEF QuietInv
  <2>2. Bots' = Bots /\ Bots \in SUBSET Bot
    BY <1>1 DEF Bots
  <2>3. /\ v.opped <=> b \in Bots
        /\ b \in Bots => Dealt(b, v) = Bots /\ v.in /\ v.known
    BY <1>3, <2>1 DEF Steady, SteadyBot
  <2>4. b \in Bots => r \in Nat /\ (On("enforcemodes") => (r = 0 <=> Holds(Bots, b)))
    BY <1>3, <2>2, <2>3, ModeHolder
  <2>5. Steady'
    <3>1. Dealt(b, me'[b]) = Dealt(b, v)
      BY <1>5 DEF SameDeal, Dealt
    <3>2. Steadied(b)
      BY <1>1, <1>3, <1>5, <1>6, <3>1 DEF Steadied, SameDeal
    <3>3. ASSUME NEW x \in Bot \ {b} PROVE Steadied(x)
      BY <1>2, <1>5 DEF Steadied, SameDeal, SameModes, Dealt
    <3> QED BY <1>1, <2>1, <2>2, <3>2, <3>3, SteadyKept
  <2>6. ASSUME NEW x \in Bot \ {b} PROVE Kept(x)
    <3>1. SameNews(inbox[x], inbox'[x])
      BY <1>1, <1>2, OtherNews
    <3> QED BY <1>5, <3>1 DEF Kept, SameModes
  <2>7. ASSUME Hurt PROVE Hurt'
    <3>1. PICK f \in BOOLEAN : /\ News(box, b, f, FALSE) /\ Backup(b, Bots, v)
                               /\ Mode(out[b]) = IF Holds(Bots, b) /\ ~f THEN {Revert} ELSE {}
                               /\ Mode(v.recent) \subseteq Mode(out[b])
      BY <1>3, <2>7 DEF Hurt, HurtBot
    <3>2. f = TRUE /\ Moved(e) /\ News(Tail(box), b, FALSE, FALSE)
      BY <1>3, <1>6, <3>1, NewsRead, ZenonT(60)
    <3>3. ~e.clean /\ e.s # b /\ ~done
      BY <1>3, <3>2 DEF Moved
    <3>4. Mode(out[b]) = {} /\ Mode(v.recent) = {} /\ Revert \notin v.recent
      <4>1. Revert.act = "mode"
        BY DEF Revert, Line
      <4> QED BY <3>1, <3>2, <4>1 DEF Mode
    <3>5. ASSUME Holds(Bots, b) PROVE HurtBot(b, Bots, inbox'[b], me'[b], out'[b])
      <4>1. b \in Bots /\ On("enforcemodes") /\ r = 0
        BY <2>4, <3>5 DEF Holds
      <4>2. Mode(out'[b]) = {Revert} /\ Mode(me'[b].recent) = {Revert}
        BY <1>5, <2>3, <3>3, <3>4, <4>1
      <4>3. Backup(b, Bots, me'[b])
        BY <1>5, <3>1, <4>1 DEF Backup
      <4> QED BY <1>6, <3>2, <3>5, <4>2, <4>3 DEF HurtBot
    <3>6. ASSUME ~Holds(Bots, b) PROVE HurtBot(b, Bots, inbox'[b], me'[b], out'[b])
      <4>1. ~On("enforcemodes") \/ ~v.opped \/ r # 0
        BY <2>3, <2>4, <3>6
      <4>2. Mode(out'[b]) = {} /\ Mode(me'[b].recent) = {}
        BY <1>5, <3>4, <4>1
      <4>3. Backup(b, Bots, me'[b])
        BY <1>5, <2>3, <3>1, <3>6 DEF Backup
      <4> QED BY <1>6, <3>2, <3>6, <4>2, <4>3 DEF HurtBot
    <3>7. HurtBot(b, Bots, inbox'[b], me'[b], out'[b])
      BY <3>5, <3>6
    <3>8. ASSUME NEW x \in Bot \ {b} PROVE HurtBot(x, Bots, inbox'[x], me'[x], out'[x])
      BY <2>6, <2>7, KeptBot DEF Hurt
    <3> QED BY <1>1, <2>2, <2>7, <3>7, <3>8 DEF Hurt
  <2>8. ASSUME Healed PROVE Healed'
    <3>1. PICK s \in Bot : \A x \in Bot : HealedBot(x, Bots, inbox[x], me[x], out[x], s)
      BY <2>8 DEF Healed
    <3>2. PICK f \in BOOLEAN, t \in BOOLEAN :
                /\ News(box, s, f, t) /\ Backup(b, Bots, v) /\ Mode(out[b]) = {}
                /\ f => ~Holds(Bots, b) /\ (b \in Bots => t)
                /\ Mode(v.jobs) # {} => t
                /\ Mode(v.recent) # {} => t /\ s = b /\ b \in Bots
                /\ Mode(v.recent) \subseteq {Revert}
      BY <1>3, <3>1 DEF HealedBot
    <3>3. \/ f = TRUE /\ Moved(e) /\ News(Tail(box), s, FALSE, t)
          \/ f = FALSE /\ t = TRUE /\ Reverted(e, s) /\ News(Tail(box), s, FALSE, FALSE)
      BY <1>3, <1>6, <3>2, NewsRead, ZenonT(60)
    <3>4. ASSUME f = TRUE, Moved(e), News(Tail(box), s, FALSE, t)
          PROVE  HealedBot(b, Bots, inbox'[b], me'[b], out'[b], s)
      <4>1. ~done /\ ~Holds(Bots, b) /\ (b \in Bots => t)
        BY <1>3, <3>2, <3>4 DEF Moved
      <4>2. ~On("enforcemodes") \/ ~v.opped \/ r # 0
        BY <2>3, <2>4, <4>1
      <4>3. Mode(out'[b]) = {} /\ Mode(me'[b].recent) = Mode(v.recent)
        BY <1>5, <3>2, <4>1, <4>2
      <4>4. Backup(b, Bots, me'[b]) /\ (Mode(me'[b].jobs) # {} => t)
        BY <1>5, <2>3, <3>2, <4>1 DEF Backup
      <4> QED BY <1>6, <3>2, <3>4, <4>3, <4>4 DEF HealedBot
    <3>5. ASSUME Reverted(e, s), News(Tail(box), s, FALSE, FALSE)
          PROVE  HealedBot(b, Bots, inbox'[b], me'[b], out'[b], s)
      <4>1. e.clean /\ e.s = s
        BY <3>5 DEF Reverted
      <4>2. CASE b \in Bots
        <5>1. done
          BY <1>3, <2>3, <4>1, <4>2
        <5>2. Mode(me'[b].jobs) = {} /\ Mode(out'[b]) = {} /\ Mode(me'[b].recent) = {}
          BY <1>5, <3>2, <4>1, <5>1
        <5>3. Backup(b, Bots, me'[b])
          BY <5>2 DEF Backup
        <5> QED BY <1>6, <3>5, <5>2, <5>3 DEF HealedBot
      <4>3. CASE b \notin Bots
        <5>1. ~v.opped
          BY <2>3, <4>3
        <5>2. Mode(v.jobs) = {} /\ Mode(v.recent) = {}
          BY <3>2, <4>3 DEF Backup
        <5>3. Mode(me'[b].jobs) = {} /\ Mode(out'[b]) = {} /\ Mode(me'[b].recent) = {}
          BY <1>5, <3>2, <5>1, <5>2
        <5>4. Backup(b, Bots, me'[b])
          BY <5>3 DEF Backup
        <5> QED BY <1>6, <3>5, <5>3, <5>4 DEF HealedBot
      <4> QED BY <4>2, <4>3
    <3>6. ASSUME NEW x \in Bot \ {b} PROVE HealedBot(x, Bots, inbox'[x], me'[x], out'[x], s)
      BY <2>6, <3>1, KeptBot
    <3> QED BY <2>2, <3>1, <3>3, <3>4, <3>5, <3>6 DEF Healed
  <2> QED BY <1>1, <2>1, <2>5, <2>7, <2>8 DEF QuietInv
<1> QED BY <1>1, <1>8, <1>9 DEF KnownInv, QuietInv

\* The pictures are sound, and of the modes the bots know what they need.
QuietStrong == DealInv /\ KnownInv /\ SparedBots /\ QuietInv

LEMMA QuietStep == ASSUME QuietStrong, [Next]_vars PROVE KnownInv' /\ QuietInv'
<1>0. DealInv /\ KnownInv /\ SparedBots /\ QuietInv
  BY DEF QuietStrong
<1>1. ASSUME NEW b \in Bot, Read(b) PROVE KnownInv' /\ QuietInv'
  BY <1>0, <1>1, ReadQuiet, ReadModesQuiet
<1>2. ASSUME NEW b \in Bot, Sweep(b) \/ jobs_tick(b) PROVE KnownInv' /\ QuietInv'
  BY <1>0, <1>2, SweepQuiet, TickQuiet
<1>3. ASSUME NEW b \in Bot, NEW l, Take(b, l) PROVE KnownInv' /\ QuietInv'
  BY <1>0, <1>3, TakeQuiet
<1>4. ASSUME NEW b \in Bot, NEW q, Answer(b, q) PROVE KnownInv' /\ QuietInv'
  BY <1>0, <1>4, AnswerQuiet
<1>8. ASSUME NEW b \in Bot, NEW m, CheckEnds(b, m) PROVE KnownInv' /\ QuietInv'
  BY <1>0, <1>8, CheckQuiet
<1>5. ASSUME \/ Tick \/ \E b \in Bot : Rejoin(b) \/ GetOps(b)
             \/ \E b \in Bot : \E l \in me[b].recent : WindowEnds(b, l)
      PROVE  KnownInv' /\ QuietInv'
  BY <1>0, <1>5, OthersIdle, IdleQuiet
<1>6. CASE Others
  <2>1. CASE \E s \in Chanops \cap Active : UserModes(s)
    BY <1>0, <2>1, UserModesQuiet
  <2>2. CASE ~\E s \in Chanops \cap Active : UserModes(s)
    BY <1>0, <1>6, <2>2, UsersIdle, IdleQuiet
  <2> QED BY <2>1, <2>2
<1>7. CASE UNCHANGED vars
  <2>1. UNCHANGED <<ops, clean, out, inbox, ask, me, apart, vain>>
    BY <1>7 DEF vars, channel, history
  <2>2. KnownInv' /\ Calm' = Calm /\ Steady' = Steady /\ Hurt' = Hurt /\ Healed' = Healed
    BY <1>0, <2>1 DEF KnownInv, Calm, Steady, Hurt, Healed, Bots
  <2> QED BY <1>0, <2>1, <2>2 DEF QuietInv
<1> QED BY <1>1, <1>2, <1>3, <1>4, <1>5, <1>6, <1>7, <1>8 DEF Next

\* As long as lines take less than JOB_STEP_MS, and nobody acts, joins, gets or
\* loses ops before the last change is read by all, no bot sends a revert of
\* the modes that has nothing left to change (job_submit, jobs_tick,
\* jobs_drop): for any number of bots and any places of theirs in the deal.
THEOREM QuietBackups == Spec => []BackupsQuiet
<1>1. Init => QuietStrong
  <2> SUFFICES ASSUME Init PROVE QuietStrong
    OBVIOUS
  <2>1. DealInv
    BY DealInit
  <2>2. KnownInv
    BY DEF Init, Fresh, KnownInv, KnownBot
  <2>3. SparedBots
    BY DEF Init, SparedBots
  <2>4. Calm
    <3>1. ASSUME NEW b \in Bot PROVE CalmBot(b, inbox[b], me[b], out[b])
      <4>1. inbox[b] = <<>> /\ out[b] = {} /\ me[b].jobs = {} /\ me[b].recent = {}
        BY DEF Init, Fresh
      <4>2. Len(inbox[b]) = 0
        BY <4>1
      <4> QED BY <4>1, <4>2 DEF CalmBot, Mode, News
    <3> QED BY <3>1 DEF Calm
  <2>5. vain = FALSE
    BY DEF Init
  <2> QED BY <2>1, <2>2, <2>3, <2>4, <2>5 DEF QuietStrong, QuietInv
<1>2. ASSUME QuietStrong, [Next]_vars PROVE QuietStrong'
  <2>1. DealInv /\ SparedBots
    BY <1>2 DEF QuietStrong
  <2>2. DealInv' /\ SparedBots'
    BY <1>2, <2>1, DealStep, SparedKept
  <2>3. KnownInv' /\ QuietInv'
    BY <1>2, QuietStep
  <2> QED BY <2>2, <2>3 DEF QuietStrong
<1>3. QuietStrong => BackupsQuiet
  BY DEF QuietStrong, QuietInv, BackupsQuiet
<1> QED BY <1>1, <1>2, <1>3, PTL DEF Spec
=============================================================================
