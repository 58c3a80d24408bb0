------------------------------ MODULE Enforce ------------------------------
(***************************************************************************)
(* Enforcement in one channel (src/chanenf.rs, src/chanlive.rs and the     *)
(* MODE, KICK, JOIN and WHO handlers of src/irc_parser.rs).  Nobody tells  *)
(* the bots who acts: each deals the jobs over the trusted bots it sees    *)
(* opped; the holder of a job acts at once and the others keep the work in *)
(* their table for their rank times JOB_STEP_MS, in case it is still       *)
(* needed then.                                                            *)
(*                                                                         *)
(* The server is the truth; every bot has its own picture of the channel,  *)
(* made from a stream of lines that all bots get in the same order and     *)
(* with delays of their own.  A user of the model is one nick!user@host;   *)
(* a step of time (Tick) is JOB_STEP_MS.  Channel modes are as stored or   *)
(* not; half-ops go the way of ops and the dynamic limit is left out, as   *)
(* are the flood counters the same handlers feed.  The records of banned   *)
(* masks are those every bot has once BanSync's exchange is done.          *)
(***************************************************************************)
EXTENDS Integers, Sequences, FiniteSets, FiniteSetsExt, Functions, SequencesExt

CONSTANTS
    Bot, User, Mask,
    Deal,      \* the bots' places in the order of their hashes: [Bot -> Nat]
    Host,      \* the host a user comes from: [User -> hosts]
    Hits,      \* the hosts a mask matches: [Mask -> SUBSET hosts]
    BanTypes,  \* the masks tried for an automatic ban, in their order
    Rogue,     \* users that are not authorised to begin with
    Cost,      \* bound: what an act takes of the budget
    Active,    \* bound: the who change the channel
    Present,   \* users in the channel to begin with
    Written,   \* the records admins write: "on", "sticky"
    Lifted,    \* masks of sticky records whose ban may have been taken off just now
    Extra,     \* settings that are on besides bitch
    MaxJobs,   \* MAX_PENDING_JOBS
    MaxAge,    \* JOB_MAX_AGE_MS in steps
    MaxActs    \* bound: the budget of users, admins and the server

Settings == {"protectops", "revenge", "enforcemodes", "enforcebans", "dynamicbans", "stopnethack"}

ASSUME EnforceAssumption ==
    /\ IsFiniteSet(Bot) /\ Bot # {} /\ Bot \cap User = {}
    /\ Deal \in [Bot -> Nat] /\ \A a, b \in Bot : Deal[a] = Deal[b] => a = b
    /\ Hits \in [Mask -> SUBSET Range(Host)] /\ BanTypes \in Seq(Mask)
    /\ Written \subseteq {"on", "sticky"}
    /\ Rogue \subseteq User /\ Present \subseteq User /\ Active \subseteq User /\ Extra \subseteq Settings
    /\ MaxJobs \in Nat \ {0} /\ MaxAge \in Nat \ {0} /\ MaxActs \in Nat

Member == Bot \cup User

VARIABLES
    members, ops, clean, bans,  \* the channel on the server
    out,       \* lines of each bot the server has not seen yet
    inbox,     \* lines of the server each bot has not read yet
    ask,       \* WHO, MODE and MODE +b queries of each bot under way
    me,        \* what each bot knows: its Chan, jobs, enf_recent, offences, checks
    auth,      \* the authorised users
    bitch,     \* the channel setting
    rec,       \* ban records of the network: "none", "on", "sticky" or "off"
    acts,      \* bound: acts so far
    apart,     \* history: the bots may not have seen a need in the same step, with the same ops
    vain,      \* history: a line changed nothing, for want of its target or of a need
    refused    \* history: the server refused a line, or knew its target by another nick

channel == <<members, ops, clean, bans>>
config == <<auth, bitch, rec>>
history == <<apart, vain, refused>>
vars == <<channel, out, inbox, ask, me, config, acts, history>>

Authorised(x) == x \in Bot \cup auth
Matches(m, x) == x \in User /\ Host[x] \in Hits[m]
On(s) == s \in Extra

JobOf == [deop |-> 2, reop |-> 2, kick |-> 0, bannuh |-> 1, ban |-> 1, unban |-> 1, mode |-> 3]
Job(act, tgt, why) == [act |-> act, tgt |-> tgt, why |-> why]
Line(act, tgt) == [act |-> act, tgt |-> tgt]
Chan == "#"    \* the target of a mode job

Fresh(b, lifted) == [in |-> TRUE, opped |-> TRUE, roster |-> members, ops |-> ops, known |-> TRUE,
             clean |-> clean, listed |-> TRUE, bans |-> bans, check |-> TRUE,
             jobs |-> {}, recent |-> {}, passed |-> lifted, offended |-> {}]

\* A ban that was taken off again a moment ago hit nobody who is still here.
Init == /\ clean = TRUE /\ bans = {}
        /\ out = [b \in Bot |-> {}] /\ inbox = [b \in Bot |-> <<>>] /\ ask = [b \in Bot |-> {}]
        /\ auth = User \ Rogue /\ bitch = TRUE
        /\ \E lifted \in {{}, Lifted} :
             /\ members = Bot \cup {u \in Present : ~\E m \in lifted : Matches(m, u)}
             /\ ops = members
             /\ me = [b \in Bot |-> Fresh(b, lifted)]
             /\ rec = [m \in Mask |-> IF m \in lifted THEN "sticky" ELSE "none"]
             /\ acts = IF lifted = {} THEN 0 ELSE Cost["unban"]
        /\ apart = FALSE /\ vain = FALSE /\ refused = FALSE

---------------------------------------------------------------------------
\* deal_rank: -1 for a bot that takes no part, 0 for the one that acts at once.
DealtUnopped(b, v) == {b} \cup {x \in Bot \ {b} : x \in v.roster}
Dealt(b, v) == {b} \cup {x \in Bot \ {b} : x \in v.ops /\ x \in v.roster}
deal_rank(b, v, job) ==
    LET n == Cardinality(Dealt(b, v))
        pos == Cardinality({x \in Dealt(b, v) : Deal[x] < Deal[b]})
    IN IF ~v.opped THEN -1 ELSE (pos + n - (job % n)) % n

\* ban_hits_authorised and unauth_match over the bot's own member list.
HitsAuthorised(v, m) == \E x \in v.roster : Authorised(x) /\ Matches(m, x)
unauth_match(v, m) == {x \in v.roster : ~Authorised(x) /\ Matches(m, x)}

\* mask_overlaps_authorised: over the records.  act_ban keeps its answer for
\* 60 s: passed has the masks it is kept for (a refusal stays one: records are
\* only added here).
Overlaps(m) == \E x \in auth : Matches(m, x)
overlap_ok(v, m) == m \in v.passed \/ ~Overlaps(m)

\* ban_allowed: nobody authorised in the channel, nor any authorised record.
ban_allowed(v, m) == ~HitsAuthorised(v, m) /\ ~Overlaps(m)

\* auto_ban_mask: the first mask that hits the user and is allowed, if any is.
Fits(v, u, m) == Matches(m, u) /\ ban_allowed(v, m)
auto_ban_mask(v, u) ==
    {BanTypes[i] : i \in {k \in 1..Len(BanTypes) : /\ Fits(v, u, BanTypes[k])
                                                 /\ \A l \in 1..k - 1 : ~Fits(v, u, BanTypes[l])}}

\* entry_authorised, once more when the work is done.
FairGameAny(x) == x \in User
FairGame(x) == x \in User /\ ~Authorised(x)

\* job_exec, act_deop, act_reop, act_kick, act_ban, act_unban, exec_mode: what
\* is still needed when the work is done.
StillNeeded(b, v, j) ==
    CASE j.act = "deop"   -> j.tgt \in v.roster \cap v.ops /\ FairGame(j.tgt)
      [] j.act = "reop"   -> j.tgt \in v.roster \ (v.ops \cup {b}) /\ Authorised(j.tgt)
      [] j.act = "kick"   -> j.tgt \in v.roster /\ FairGame(j.tgt)
      [] j.act = "ban"    -> /\ j.tgt \notin v.bans /\ ~HitsAuthorised(v, j.tgt)
                             /\ overlap_ok(v, j.tgt)
      [] j.act = "unban"  -> j.tgt \in v.bans
      [] j.act = "mode"   -> On("enforcemodes") /\ v.known /\ ~v.clean
      [] j.act = "bannuh" -> ~Authorised(j.tgt) /\ auto_ban_mask(v, j.tgt) \ v.bans # {}

LineOf(v, j) == IF j.act = "bannuh" THEN {Line("ban", m) : m \in auto_ban_mask(v, j.tgt)}
                                    ELSE {Line(j.act, j.tgt)}

\* The lines a set of jobs sends: those in enf_recent (and bans set a moment
\* ago) wait for their echo or for the end of their window.
LinesOf(b, v, J) ==
    IF ~v.opped THEN {}
    ELSE (UNION {LineOf(v, j) : j \in {k \in J : StillNeeded(b, v, k)}}) \ v.recent

\* exec_ban_nuh: the record every bot learns of the ban by.
RecordsOf(v, J) ==
    IF ~v.opped THEN {}
    ELSE UNION {auto_ban_mask(v, j.tgt) : j \in {k \in J : k.act = "bannuh" /\ ~Authorised(k.tgt)}}

InForce == {"on", "sticky"}
Banned(lines) == {l.tgt : l \in {k \in lines : k.act = "ban"}}

\* The jobs run now: bot b's picture becomes v.  A changed record changes
\* cfg_gen, after which every bot looks at the ops again.
Execute(b, v, J) ==
    \E lines \in {LinesOf(b, v, J)}, new \in {RecordsOf(v, J)} :
    LET after == [me EXCEPT ![b] = [v EXCEPT !.recent = @ \cup lines,
                                           !.passed = @ \cup Banned(lines)]]
    IN /\ out' = [out EXCEPT ![b] = @ \cup lines]
       /\ rec' = [m \in Mask |-> IF m \in new /\ rec[m] \notin InForce THEN "on" ELSE rec[m]]
       /\ me' = IF new = {} THEN after ELSE [x \in Bot |-> [after[x] EXCEPT !.check = TRUE]]

\* job_submit: rank 0 runs it, the others keep it unless it waits already or
\* the table is full.
\* (\E over one value, here and below, names it and has TLC compute it once.)
Waiting(v, j) == \E q \in v.jobs : q.act = j.act /\ q.tgt = j.tgt
Submit(b, view, work) ==
    \E v \in {view}, S \in {work} :
    \E mine \in {{j \in S : deal_rank(b, v, JobOf[j.act]) = 0}} :
    LET new == {[act |-> j.act, tgt |-> j.tgt, why |-> j.why, age |-> 0] :
                   j \in {k \in S \ mine : v.opped /\ ~Waiting(v, k)}}
        room == Min({MaxJobs - Cardinality(v.jobs), Cardinality(new)})
    IN \E K \in {L \in SUBSET new : Cardinality(L) = room} :
         Execute(b, [v EXCEPT !.jobs = @ \cup K], mine)

\* offence: the hosts that hurt someone authorised, for bantime.
offence(v, s) == [v EXCEPT !.offended = @ \cup {Host[s]}]

\* revenge: the first offence costs ops, the next the place in the channel.
Revenge(v, u) == IF Host[u] \notin v.offended THEN {Job("deop", u, "revenge")}
                 ELSE {Job("bannuh", u, "revenge"), Job("kick", u, "revenge")}

\* recent_ack
Ack(v, act, tgt) == [v EXCEPT !.recent = @ \ {Line(act, tgt)}]

---------------------------------------------------------------------------
(***************************************************************************)
(* What a bot does with a line of the server: the picture changes first    *)
(* (handle_mode_change, chanlive::apply), then on_mode, on_kick and the    *)
(* others look at who did it.                                              *)
(***************************************************************************)
Unauthorised(s) == s \in User /\ ~Authorised(s)
Asks(b, q) == ask' = [ask EXCEPT ![b] = @ \cup q]
Plain(b, v) == Submit(b, v, {}) /\ UNCHANGED ask

Opped(v, u) == [v EXCEPT !.ops = IF u \in v.roster THEN @ \cup {u} ELSE @]

SeeOpIdle(b, v, e) ==
    /\ e.t = "+o" /\ UNCHANGED ask
    /\ Submit(b, IF e.u = b THEN [Opped(v, b) EXCEPT !.opped = TRUE] ELSE Ack(Opped(v, e.u), "reop", e.u), {})

\* +o: for the bot itself, else for a member, who may have to lose it again.
SeeOp(b, v, e) ==
    /\ e.t = "+o" /\ UNCHANGED ask
    /\ IF e.u = b THEN Submit(b, [Opped(v, b) EXCEPT !.opped = TRUE, !.check = TRUE], {})
       ELSE Submit(b, Ack(Opped(v, e.u), "reop", e.u),
                   IF e.u \notin v.roster \/ Authorised(e.u) THEN {}
                   ELSE IF bitch THEN {Job("deop", e.u, "bitch")}
                   ELSE IF On("stopnethack") /\ e.s = "server" THEN {Job("deop", e.u, "stopnethack")}
                   ELSE {})

\* -o: the bot itself reads the channel anew to find a helper; an authorised
\* member gets ops back, and whoever took them is dealt with.
SeeDeop(b, v, e) ==
    /\ e.t = "-o"
    /\ IF e.u = b
       THEN /\ Submit(b, [v EXCEPT !.opped = FALSE, !.roster = {}, !.ops = {}], {})
            /\ Asks(b, {"who"})
       ELSE /\ LET hurt == e.u \in v.roster /\ Authorised(e.u) /\ Unauthorised(e.s)
                   w == Ack([v EXCEPT !.ops = @ \ {e.u}], "deop", e.u)
               IN Submit(b, IF hurt /\ On("revenge") THEN offence(w, e.s) ELSE w,
                         IF ~hurt THEN {}
                         ELSE {j \in {Job("reop", e.u, "protectops")} : On("protectops")}
                              \cup {j \in Revenge(v, e.s) : On("revenge")})
            /\ UNCHANGED ask

SeeBan(b, v, e) ==
    /\ e.t = "+b" /\ UNCHANGED ask
    /\ LET hurt == On("revenge") /\ Unauthorised(e.s) /\ HitsAuthorised(v, e.m)
           w == [v EXCEPT !.bans = @ \cup {e.m}]
       IN Submit(b, IF hurt THEN offence(w, e.s) ELSE w,
                 IF hurt THEN Revenge(v, e.s) ELSE {})

SeeUnban(b, v, e) == e.t = "-b" /\ Plain(b, Ack([v EXCEPT !.bans = @ \ {e.m}], "unban", e.m))

SeeModesKept(b, v, e) ==
    /\ e.t = "modes" /\ UNCHANGED ask
    /\ Submit(b, IF e.clean /\ v.known /\ e.s = b THEN Ack([v EXCEPT !.clean = e.clean], "mode", Chan)
                 ELSE [v EXCEPT !.clean = e.clean],
              IF ~(e.clean /\ v.known) /\ e.s # b /\ On("enforcemodes") THEN {Job("mode", Chan, "modes")} ELSE {})

SeeModesUnapplied(b, v, e) == e.t = "modes" /\ Plain(b, v)

\* A mode that is not a member's: back as stored ends the wait of a backup,
\* and the window of the bot's own revert.
SeeModes(b, v, e) ==
    LET done == e.clean /\ v.known
        w == [v EXCEPT !.clean = e.clean, !.jobs = {j \in @ : ~(done /\ j.act = "mode")}]
    IN /\ e.t = "modes" /\ UNCHANGED ask
       /\ Submit(b, IF done /\ e.s = b THEN Ack(w, "mode", Chan) ELSE w,
                 IF ~done /\ e.s # b /\ On("enforcemodes") THEN {Job("mode", Chan, "modes")} ELSE {})

\* KICK: the bot itself is out, and forgets what it knew of modes and bans.
SeeKick(b, v, e) ==
    /\ e.t = "kick" /\ UNCHANGED ask
    /\ IF e.u = b
       THEN Submit(b, [v EXCEPT !.in = FALSE, !.opped = FALSE, !.known = FALSE, !.clean = TRUE,
                                !.listed = FALSE, !.bans = {}], {})
       ELSE LET hurt == e.u \in v.roster /\ Authorised(e.u) /\ Unauthorised(e.s) /\ On("revenge")
                w == Ack([v EXCEPT !.roster = @ \ {e.u}, !.ops = @ \ {e.u}], "kick", e.u)
            IN Submit(b, IF hurt THEN offence(w, e.s) ELSE w,
                      IF hurt THEN Revenge(v, e.s) ELSE {})

\* JOIN: of the bot itself, which now asks for members, modes and bans.
SeeJoin(b, v, e) ==
    /\ e.t = "join"
    /\ IF e.u = b
       THEN /\ Submit(b, [v EXCEPT !.in = TRUE, !.opped = FALSE, !.roster = {}, !.ops = {},
                                   !.known = FALSE, !.clean = TRUE, !.listed = FALSE, !.bans = {}], {})
            /\ Asks(b, {"who", "modes", "bans"})
       ELSE Plain(b, [v EXCEPT !.roster = @ \cup {e.u}, !.ops = @ \ {e.u}])

SeePart(b, v, e) ==
    e.t = "part" /\ Plain(b, [v EXCEPT !.roster = @ \ {e.u}, !.ops = @ \ {e.u}])

\* on_nick: the entry is renamed, the jobs and the windows are not.
Renamed(S, u, w) == IF u \in S THEN (S \ {u}) \cup {w} ELSE S
SeeNick(b, v, e) ==
    e.t = "nick" /\ Plain(b, [v EXCEPT !.roster = Renamed(@, e.u, e.w), !.ops = Renamed(@, e.u, e.w)])

\* 352 and 315, 324, 367 and 368.
SeeWho(b, v, e) ==
    e.t = "who" /\ Plain(b, [v EXCEPT !.roster = @ \cup e.members, !.check = TRUE,
                                     !.ops = (@ \ e.members) \cup e.ops, !.opped = b \in e.ops])
SeeState(b, v, e) == e.t = "324" /\ Plain(b, [v EXCEPT !.known = TRUE, !.clean = e.clean])
SeeBanList(b, v, e) == e.t = "368" /\ Plain(b, [v EXCEPT !.listed = TRUE, !.bans = e.bans])

See(b, v, e) == \/ SeeOp(b, v, e) \/ SeeDeop(b, v, e) \/ SeeBan(b, v, e) \/ SeeUnban(b, v, e)
                \/ SeeModes(b, v, e) \/ SeeKick(b, v, e) \/ SeeJoin(b, v, e) \/ SeePart(b, v, e)
                \/ SeeNick(b, v, e) \/ SeeWho(b, v, e) \/ SeeState(b, v, e) \/ SeeBanList(b, v, e)

Read(b) == /\ inbox[b] # <<>>
           /\ inbox' = [inbox EXCEPT ![b] = Tail(@)]
           /\ \E v \in {me[b]}, e \in {Head(inbox[b])} : See(b, v, e)
           /\ UNCHANGED <<channel, auth, bitch, acts, apart, vain, refused>>

---------------------------------------------------------------------------
\* chan_sweep: unauthorised ops when there is reason to look, modes, bans.
OpWork(v) == IF v.check /\ bitch
             THEN {Job("deop", u, "bitch") : u \in {x \in v.roster \cap v.ops : ~Authorised(x)}}
             ELSE {}
ModeWork(v) == {j \in {Job("mode", Chan, "modes")} : On("enforcemodes") /\ v.known /\ ~v.clean}

\* ban_sweep.  skip: records known to overlap someone authorised; idle: those
\* that matched nobody for banidle.
Listed(skip) == {m \in Mask \ skip : rec[m] \in InForce}
ProtectNone(v) == {}
Protect(v) == {Job("unban", m, "bans") : m \in {x \in v.bans : On("protectops") /\ HitsAuthorised(v, x)}}
Kicks(v, m) == {Job("kick", u, "bans") : u \in {x \in unauth_match(v, m) : Line("kick", x) \notin v.recent}}
BanWork(v, skip, idle) ==
    LET kept(m) == rec[m] = "sticky" \/ ~On("dynamicbans")
    IN IF ~v.listed THEN {}
       ELSE UNION {
         Protect(v),
         {Job("ban", m, "bans") : m \in {x \in Listed(skip) \ v.bans : kept(x) \/ unauth_match(v, x) # {}}},
         {Job("unban", m, "bans") :
            m \in {x \in Listed(skip) \cap v.bans \cap idle : ~kept(x) /\ unauth_match(v, x) = {}}},
         UNION {Kicks(v, m) : m \in Listed(skip)},
         {Job("unban", m, "bans") : m \in {x \in v.bans : rec[x] = "off"}},
         UNION {Kicks(v, m) :
            m \in {x \in v.bans : On("enforcebans") /\ ~HitsAuthorised(v, x)}} }

chan_sweep(b, v, skip, idle) ==
    Submit(b, [v EXCEPT !.check = FALSE], OpWork(v) \cup ModeWork(v) \cup BanWork(v, skip, idle))

InFlight == \E b \in Bot : inbox[b] # <<>> \/ out[b] # {} \/ ask[b] # {}
Meanwhile == apart' = (apart \/ InFlight)

Sweep(b) ==
    /\ me[b].in /\ me[b].opped
    /\ UNCHANGED <<channel, inbox, ask, auth, bitch, acts, vain, refused>>
    /\ \E skip \in SUBSET {m \in Mask : rec[m] \in InForce /\ Overlaps(m) /\ m \notin me[b].passed} :
         \E idle \in SUBSET {m \in me[b].bans : rec[m] \in InForce /\ ~InFlight} :
            chan_sweep(b, me[b], skip, idle)
    /\ apart' = (apart \/ out' # out \/ me'[b].jobs # me[b].jobs)

\* jobs_tick: re-dealt every time; work queued under +bitch goes with it.
Due(b, j) == LET v == me[b]
                 r == deal_rank(b, v, JobOf[j.act])
             IN ~v.in \/ j.age > MaxAge \/ r < 0 \/ j.age >= r
Runs(b, j) == /\ me[b].in /\ j.age <= MaxAge /\ deal_rank(b, me[b], JobOf[j.act]) >= 0
              /\ (j.why = "bitch" => bitch)

jobs_tick(b) ==
    \E due \in {{j \in me[b].jobs : Due(b, j)}} :
       /\ due # {}
       /\ UNCHANGED <<channel, inbox, ask, auth, bitch, acts, history>>
       /\ Execute(b, [me[b] EXCEPT !.jobs = @ \ due], {j \in due : Runs(b, j)})

\* A step of time.  The loop turns more than once a step, so what is due is
\* done before.
Tick == /\ \E b \in Bot : me[b].jobs # {}
        /\ \A b \in Bot : \A j \in me[b].jobs : ~Due(b, j)
        /\ me' = [b \in Bot |-> [me[b] EXCEPT !.jobs = {[j EXCEPT !.age = @ + 1] : j \in @}]]
        /\ Meanwhile /\ UNCHANGED <<channel, out, inbox, ask, config, acts, vain, refused>>

\* The end of a window in which a bot does not send the same line again; an
\* answer of the server takes less.
WindowEnds(b, l) ==
    /\ l \in me[b].recent /\ ~InFlight
    /\ me' = [me EXCEPT ![b].recent = @ \ {l}]
    /\ UNCHANGED <<channel, out, inbox, ask, config, acts, history>>

\* The minute of a check of act_ban is over, which matters once the answer
\* would be another.
CheckEnds(b, m) ==
    /\ m \in me[b].passed /\ Overlaps(m)
    /\ me' = [me EXCEPT ![b].passed = @ \ {m}]
    /\ UNCHANGED <<channel, out, inbox, ask, config, acts, history>>

---------------------------------------------------------------------------
(***************************************************************************)
(* The server, its users and the admins (external).  It tells everyone in  *)
(* the channel of every change, in one order.                              *)
(***************************************************************************)
Tell(e, S) == inbox' = [b \in Bot |-> IF b \in S THEN Append(inbox[b], e) ELSE inbox[b]]

Chanops == ops \cap User
\* A line of a bot: refused if the bot has no ops, without effect if there is
\* nothing to change.
Works(l) == CASE l.act = "deop"  -> l.tgt \in ops
              [] l.act = "reop"  -> l.tgt \in members \ ops
              [] l.act = "kick"  -> l.tgt \in members
              [] l.act = "ban"   -> l.tgt \notin bans
              [] l.act = "unban" -> l.tgt \in bans
              [] l.act = "mode"  -> ~clean
EventOf(l, s) == CASE l.act = "deop"  -> [t |-> "-o", u |-> l.tgt, s |-> s]
                   [] l.act = "reop"  -> [t |-> "+o", u |-> l.tgt, s |-> s]
                   [] l.act = "kick"  -> [t |-> "kick", u |-> l.tgt, s |-> s]
                   [] l.act = "ban"   -> [t |-> "+b", m |-> l.tgt, s |-> s]
                   [] l.act = "unban" -> [t |-> "-b", m |-> l.tgt, s |-> s]
                   [] l.act = "mode"  -> [t |-> "modes", clean |-> TRUE, s |-> s]
Change(l, s) ==
    /\ members' = IF l.act = "kick" THEN members \ {l.tgt} ELSE members
    /\ ops' = IF l.act \in {"deop", "kick"} THEN ops \ {l.tgt}
              ELSE IF l.act = "reop" THEN ops \cup {l.tgt} ELSE ops
    /\ bans' = IF l.act = "ban" THEN bans \cup {l.tgt}
               ELSE IF l.act = "unban" THEN bans \ {l.tgt} ELSE bans
    /\ clean' = (clean \/ l.act = "mode")
    /\ Tell(EventOf(l, s), members)

\* The target goes by another nick now.
Slipped(l) == l.act = "deop" /\ \E x \in Chanops : Host[x] = Host[l.tgt]

Take(b, l) ==
    /\ l \in out[b] /\ UNCHANGED <<ask, me, config, acts>>
    /\ out' = [out EXCEPT ![b] = @ \ {l}]
    /\ IF b \in ops /\ Works(l) THEN Change(l, b) /\ UNCHANGED <<vain, refused>>
       ELSE /\ UNCHANGED <<channel, inbox>>
            /\ refused' = (refused \/ b \notin ops \/ Slipped(l))
            /\ vain' = (vain \/ (b \in ops /\ l.act = "mode"))
    /\ apart' = (apart \/ ops' \cap Bot # ops \cap Bot)

Answer(b, q) ==
    /\ q \in ask[b] /\ (q = "modes" => "who" \notin ask[b]) /\ (q = "bans" => "modes" \notin ask[b])
    /\ ask' = [ask EXCEPT ![b] = @ \ {q}]
    /\ Tell(CASE q = "who"   -> [t |-> "who", members |-> members, ops |-> ops]
              [] q = "modes" -> [t |-> "324", clean |-> clean]
              [] q = "bans"  -> [t |-> "368", bans |-> bans], {b})
    /\ UNCHANGED <<channel, out, me, config, acts, history>>

\* The bot joins again after a kick (check_joins), and somebody gives it ops.
Rejoin(b) == /\ ~me[b].in /\ b \notin members /\ inbox[b] = <<>>
             /\ members' = members \cup {b} /\ Tell([t |-> "join", u |-> b], members \cup {b})
             /\ Meanwhile /\ UNCHANGED <<ops, clean, bans, out, ask, me, config, acts, vain, refused>>
GetOps(b) == /\ b \in members \ ops
             /\ ops' = ops \cup {b} /\ Tell([t |-> "+o", u |-> b, s |-> "server"], members)
             /\ Meanwhile /\ UNCHANGED <<members, clean, bans, out, ask, me, config, acts, vain, refused>>

Act(k) == /\ acts + Cost[k] <= MaxActs /\ acts' = acts + Cost[k] /\ Meanwhile
          /\ UNCHANGED <<vain, refused>>
Quiet == UNCHANGED <<out, ask, me, config>>

UserOps(s, u) == /\ Act("op") /\ s \in (Chanops \cap Active) \cup {"server"} /\ u \in (members \cap User) \ ops
                 /\ Change(Line("reop", u), s) /\ Quiet
UserDeops(s, x) == Act("deop") /\ s \in Chanops \cap Active /\ x \in ops \ {s} /\ Change(Line("deop", x), s) /\ Quiet
UserKicks(s, x) == Act("kick") /\ s \in Chanops \cap Active /\ x \in members \ {s} /\ Change(Line("kick", x), s) /\ Quiet
UserBans(s, m) == Act("ban") /\ s \in Chanops \cap Active /\ m \notin bans /\ Change(Line("ban", m), s) /\ Quiet
UserModes(s) == /\ Act("mode") /\ s \in Chanops \cap Active /\ clean /\ clean' = FALSE
                /\ Tell([t |-> "modes", clean |-> FALSE, s |-> s], members)
                /\ UNCHANGED <<members, ops, bans>> /\ Quiet
UserJoins(u) == /\ Act("join") /\ u \in User \ members /\ ~\E m \in bans : Matches(m, u)
                /\ members' = members \cup {u} /\ Tell([t |-> "join", u |-> u], members)
                /\ UNCHANGED <<ops, clean, bans>> /\ Quiet
UserParts(u) == /\ Act("part") /\ u \in members \cap User
                /\ members' = members \ {u} /\ ops' = ops \ {u}
                /\ Tell([t |-> "part", u |-> u], members)
                /\ UNCHANGED <<clean, bans>> /\ Quiet
UserRenames(u, w) == /\ Act("nick") /\ u \in members \cap User /\ w \in User \ members /\ Host[u] = Host[w]
                     /\ members' = Renamed(members, u, w) /\ ops' = Renamed(ops, u, w)
                     /\ Tell([t |-> "nick", u |-> u, w |-> w], members)
                     /\ UNCHANGED <<clean, bans>> /\ Quiet

\* An admin writes a record or a setting (cfg_gen), or makes a user known.
Look == me' = [b \in Bot |-> [me[b] EXCEPT !.check = TRUE]]
AdminBans(m) == /\ Act("record") /\ Look
                /\ \E r \in IF rec[m] \in InForce THEN {"off"} ELSE {k \in Written : ~Overlaps(m)} :
                      rec' = [rec EXCEPT ![m] = r]
                /\ UNCHANGED <<channel, out, inbox, ask, auth, bitch>>
AdminBitch == /\ Act("bitch") /\ bitch' = ~bitch /\ Look
              /\ UNCHANGED <<channel, out, inbox, ask, auth, rec>>
Authorise(h) == /\ Act("auth") /\ auth' = auth \cup {u \in User : Host[u] = h}
                /\ UNCHANGED <<channel, out, inbox, ask, me, bitch, rec>>

Others == \/ \E s \in (Chanops \cap Active) \cup {"server"}, u \in User : UserOps(s, u)
          \/ \E s \in Chanops \cap Active, x \in Member : UserDeops(s, x) \/ UserKicks(s, x)
          \/ \E s \in Chanops \cap Active, m \in Mask : UserBans(s, m)
          \/ \E s \in Chanops \cap Active : UserModes(s)
          \/ \E u \in User : UserJoins(u) \/ UserParts(u) \/ \E w \in User : UserRenames(u, w)
          \/ \E m \in Mask : AdminBans(m)
          \/ AdminBitch
          \/ \E h \in Range(Host) : Authorise(h)

Next == \/ \E b \in Bot : Read(b) \/ Sweep(b) \/ jobs_tick(b) \/ Rejoin(b) \/ GetOps(b)
        \/ \E b \in Bot : \E l \in out[b] : Take(b, l)
        \/ \E b \in Bot : \E l \in me[b].recent : WindowEnds(b, l)
        \/ \E b \in Bot : \E m \in me[b].passed : CheckEnds(b, m)
        \/ \E b \in Bot : \E q \in ask[b] : Answer(b, q)
        \/ Tick \/ Others

Spec == Init /\ [][Next]_vars

\* The loop turns, windows end, time passes, the server answers; nobody has to
\* give a bot ops, nor any user to do anything.
Fairness == /\ \A b \in Bot : WF_vars(Read(b)) /\ WF_vars(jobs_tick(b)) /\ WF_vars(Sweep(b))
            /\ WF_vars(\E b \in Bot : (\E l \in out[b] : Take(b, l)) \/ (\E q \in ask[b] : Answer(b, q)))
            /\ WF_vars(\E b \in Bot : \E l \in me[b].recent : WindowEnds(b, l))
            /\ WF_vars(Tick)
FairSpec == Spec /\ Fairness

---------------------------------------------------------------------------
LineType == [act : {"deop", "reop", "kick"}, tgt : Member] \cup [act : {"ban", "unban"}, tgt : Mask]
            \cup {Line("mode", Chan)}
View == [in : BOOLEAN, opped : BOOLEAN, roster : SUBSET Member, ops : SUBSET Member,
         known : BOOLEAN, clean : BOOLEAN, listed : BOOLEAN, bans : SUBSET Mask, check : BOOLEAN,
         recent : SUBSET LineType, passed : SUBSET Mask, offended : SUBSET Range(Host)]

\* The jobs of a bot are few, of known kinds and no two alike (job_submit);
\* only members of its own list have ops, and no line waits without a window.
TypeOK ==
    /\ members \subseteq Member /\ ops \subseteq members /\ clean \in BOOLEAN /\ bans \subseteq Mask
    /\ auth \subseteq User /\ bitch \in BOOLEAN /\ rec \in [Mask -> {"none", "on", "sticky", "off"}]
    /\ \A b \in Bot :
         /\ out[b] \subseteq LineType /\ ask[b] \subseteq {"who", "modes", "bans"}
         /\ [f \in DOMAIN me[b] \ {"jobs"} |-> me[b][f]] \in View
         /\ me[b].ops \subseteq me[b].roster
         /\ Cardinality(me[b].jobs) <= MaxJobs
         /\ \A j, k \in me[b].jobs : (j.act = k.act /\ j.tgt = k.tgt) => j = k
         /\ \A j \in me[b].jobs : j.act \in DOMAIN JobOf /\ j.age \in 0 .. MaxAge + 1

\* Nothing is under way: every bot has read what the server had to say.
Settled == ~InFlight

\* The deal works without a word between the bots: once everybody has read
\* everything, every job has exactly one holder among the bots with ops (deal_rank).
OneHolder == Settled => \A job \in Range(JobOf) :
    LET holders == {b \in Bot : deal_rank(b, me[b], job) = 0}
    IN Cardinality(holders) = IF \E b \in Bot : b \in ops THEN 1 ELSE 0

\* As long as lines take less than JOB_STEP_MS, and nobody acts, joins or gets
\* ops before the last change is read by all, no bot sends a revert of the
\* modes that has nothing left to change: the backups keep quiet (job_submit,
\* jobs_tick, jobs_drop).
BackupsQuiet == vain => apart

\* Whatever was true when the work was queued, no line against an authorised
\* user leaves, nor a ban that hits one the bot sees in the channel; one that is
\* absent can be hit only while the bot keeps a check of that mask from before
\* there was a record of them (act_deop, act_kick, act_ban).
AuthorisedSpared == [][\A b \in Bot : \A l \in out'[b] \ out[b] :
    /\ l.act \in {"deop", "kick"} => ~Authorised(l.tgt)
    /\ l.act = "ban" => \A x \in auth : Matches(l.tgt, x) =>
                            x \notin me'[b].roster /\ l.tgt \in me[b].passed]_vars

\* "A bot or an authorised user is never banned": whatever check a bot keeps.
\* One that is absent can be (README, section 5); no run checks it.
NeverBanned == [][\A b \in Bot : \A l \in out'[b] \ out[b] :
    l.act = "ban" => \A x \in auth : ~Matches(l.tgt, x)]_vars

SomeoneOpped == \E b \in Bot : b \in ops

\* Under +bitch no unauthorised member keeps ops for good while a bot has
\* them, unless the server refused a line or knew its target by another nick.
RogueOpsGo == []<>~(bitch /\ SomeoneOpped /\ ~refused /\ ~(Chanops \subseteq auth))

\* Under enforcemodes the channel does not stay away from its stored modes
\* while a bot has ops.
ModesRestored == []<>~(On("enforcemodes") /\ SomeoneOpped /\ ~clean)

\* Under protectops a ban that hits an authorised member is lifted.
FriendsUnbanned ==
    []<>~(On("protectops") /\ SomeoneOpped /\ \E m \in bans, x \in members \cap auth : Matches(m, x))
=============================================================================
