------------------------------ MODULE Lockout ------------------------------
(***************************************************************************)
(* How a bot gets back into a managed channel it is locked out of          *)
(* (src/channel.rs, the 405/473/474/475/367/368 and MODE handlers of       *)
(* src/irc_parser.rs, the CMD_CHAN_* handlers of src/hub_client.rs and the *)
(* sealed ~B2 commands of src/bot_comms.rs): the asker retries its JOINs   *)
(* and asks the other bots to lift a ban, to invite it or to tell it the   *)
(* key; the helper does so while it is in the channel, opped where it must *)
(* be.  The c| record of the channel (its key, whether it is managed) goes *)
(* to the hub and to the other bot with last-writer-wins stamps.           *)
(*                                                                         *)
(* Time runs in rounds (Tick) of one JOIN retry; the server answers a JOIN *)
(* and lists bans within the round.  Ages stop at the largest value that   *)
(* is told apart.  Stamps are kept as ranks, per channel; clocks agree, so *)
(* a new stamp is the newest.  The server, the hub and the people in the   *)
(* channels are external.                                                  *)
(***************************************************************************)
EXTENDS Integers, Sequences, SequencesExt, FiniteSets, FiniteSetsExt, LWW

CONSTANTS
    Chans,           \* the managed channels, in the order of state.chans
    Why,             \* Why[c]: what happens to c: bans, +i, keys, removals, kicks...
    Mask,            \* ban masks
    Hits,            \* Hits[b]: the masks that match bot b's hostmask
    Keys,            \* channel keys
    Trusted,         \* state.trusted_bots: the asker itself, "gone" bots, the helper
    JoinRetry,       \* JOIN_RETRY_TIME, in rounds, as the following
    MinInterval,     \* CHAN_REQUEST_MIN_INTERVAL
    RetryTime,       \* CHAN_REQUEST_RETRY_TIME
    MaxRetries,      \* CHAN_REQUEST_MAX_RETRIES
    Cooloff,         \* CHAN_REQUEST_COOLOFF
    AcceptWindow,    \* CHAN_REPLY_ACCEPT_WINDOW
    JobTTL,          \* UNBAN_JOB_TTL
    MaxJobs,         \* MAX_UNBAN_JOBS
    MaxRemovals,     \* UNBAN_MAX_REMOVALS
    MaxEvents,       \* bound: things people, the network and the hub do
    MaxLost,         \* bound: messages that are lost or late
    NoKey, Idle      \* no key; no JOIN under way, no unban job

Chan == Range(Chans)
Kind == {"ban", "inv", "key"}
Bot == {"asker", "helper"}
Key == Keys \cup {NoKey}

ASSUME LockoutAssumption ==
    /\ {JoinRetry, MinInterval, RetryTime, MaxRetries, Cooloff, AcceptWindow,
        JobTTL, MaxJobs, MaxRemovals, MaxEvents, MaxLost} \subseteq Nat
    /\ DOMAIN Why = Chan /\ NoKey \notin Keys
    /\ RetryTime <= Cooloff /\ AcceptWindow <= Cooloff

VARIABLES
    srv,       \* server: ban masks, key, +i and the asker's invitation, per channel
    joining,   \* JOINs under way: the key sent, or Idle
    chan,      \* chan[b][c]: status In, i_am_opped, is_managed, key, timestamp
    join,      \* age of last_join_attempt
    off,       \* join_disabled
    asked,     \* asked[c][k]: age of last_access_request
    count,     \* access_retry_count
    last,      \* age of last_chan_request_sent
    turn,      \* chan_req_fallback_idx
    hub,       \* hub[b]: the bot's hub link is up
    rec,       \* the hub's c| records
    net,       \* requests and answers under way between the bots
    job,       \* the helper's unban jobs, by channel, or Idle
    feed,      \* 367 and 368 lines on their way to the helper
    events, lost   \* bounds used up

asker == <<join, off, asked, count, last, turn>>
helper == <<job, feed>>
bounds == <<events, lost>>
vars == <<srv, joining, chan, asker, hub, rec, net, helper, bounds>>

Aged(age, most) == IF age > most THEN age ELSE age + 1
End == "end"    \* 368

---------------------------------------------------------------------------
(* Initial states: the asker is out of every channel, the helper is in and *)
(* opped; the bots and the hub know the channels' keys.                    *)
Fresh(c, k) == [in |-> FALSE, opped |-> FALSE, managed |-> TRUE, key |-> k, ts |-> 0]

Init == /\ srv = [c \in Chan |-> [bans |-> {}, key |-> NoKey, inv |-> FALSE, invited |-> FALSE]]
        /\ joining = [c \in Chan |-> Idle]
        /\ chan = [b \in Bot |-> [c \in Chan |->
              [Fresh(c, NoKey) EXCEPT !.in = (b = "helper"), !.opped = (b = "helper")]]]
        /\ join = [c \in Chan |-> JoinRetry + 1] /\ off = {}
        /\ asked = [c \in Chan |-> [k \in Kind |-> Cooloff + 1]]
        /\ count = [c \in Chan |-> [k \in Kind |-> 0]]
        /\ last = MinInterval /\ turn = 1
        /\ hub = [b \in Bot |-> TRUE]
        /\ rec = [c \in Chan |-> [managed |-> TRUE, key |-> NoKey, ts |-> 0]]
        /\ net = {} /\ job = [c \in Chan |-> Idle] /\ feed = <<>>
        /\ events = 0 /\ lost = 0

Event == events < MaxEvents /\ events' = events + 1
Loss == lost < MaxLost /\ lost' = lost + 1

---------------------------------------------------------------------------
(* c| records.  Ranks of the three stamps of a channel, oldest 0.          *)
Stamps(ch, rc, c) == {ch[b][c].ts : b \in Bot} \cup {rc[c].ts}
Rank(ts, in) == Cardinality({t \in in : t < ts})
RankedChan(ch, rc) == [b \in Bot |-> [c \in Chan |->
    [ch[b][c] EXCEPT !.ts = Rank(@, Stamps(ch, rc, c))]]]
RankedRec(ch, rc) == [c \in Chan |-> [rc[c] EXCEPT !.ts = Rank(@, Stamps(ch, rc, c))]]
Store(ch, rc) == chan' = RankedChan(ch, rc) /\ rec' = RankedRec(ch, rc)

\* lww_next_ts: now is past every stamp of the channel.
NewTs(c) == Max(Stamps(chan, rec, c)) + 1

\* chan_line as the hub merges it: the hub keeps the newer record.
Line(v) == [managed |-> v.managed, key |-> v.key, ts |-> v.ts]
Merged(rc, v) == IF lww_accepts(v.ts, v.managed, rc.ts, rc.managed) THEN Line(v) ELSE rc

\* push_channel by the bots in bs of what they hold about c in ch.
Pushed(ch, bs, c) == [rec EXCEPT ![c] =
    IF \E b \in bs : hub[b] THEN Merged(@, ch[CHOOSE b \in bs : hub[b]][c]) ELSE @]

\* sync_channel_line: a record without a key leaves the key; a channel no
\* longer managed is left.
Synced(v, r) ==
    IF ~lww_accepts(r.ts, r.managed, v.ts, v.managed) THEN v
    ELSE [v EXCEPT !.managed = r.managed, !.ts = r.ts,
                   !.key = IF r.key = NoKey THEN @ ELSE r.key,
                   !.in = @ /\ (r.managed \/ ~v.managed),
                   !.opped = @ /\ (r.managed \/ ~v.managed)]

\* CMD_CONFIG_DATA with the c| line of c; a channel that is managed again is
\* joined at once.
SyncRec(b, c) ==
    /\ hub[b] /\ Synced(chan[b][c], rec[c]) # chan[b][c]
    /\ LET v == Synced(chan[b][c], rec[c])
       IN  /\ Store([chan EXCEPT ![b][c] = v], rec)
           /\ joining' = IF b = "asker" /\ v.managed /\ ~chan[b][c].managed /\ ~v.in
                         THEN [joining EXCEPT ![c] = v.key] ELSE joining
    /\ UNCHANGED <<srv, asker, hub, net, helper, bounds>>

\* An admin of the mesh adds or removes the channel.
HubEdits(c) ==
    /\ "del" \in Why[c] /\ Event
    /\ Store(chan, [rec EXCEPT ![c] = [@ EXCEPT !.managed = ~@, !.ts = NewTs(c)]])
    /\ UNCHANGED <<srv, joining, asker, hub, net, helper, lost>>

HubDown(b) == /\ hub[b] /\ Event /\ hub' = [hub EXCEPT ![b] = FALSE]
              /\ UNCHANGED <<srv, joining, chan, asker, rec, net, helper, lost>>

\* generate_config_payload: every c| line the bot has goes to the hub.
HubUp(b) ==
    /\ ~hub[b] /\ hub' = [hub EXCEPT ![b] = TRUE]
    /\ Store(chan, [c \in Chan |-> Merged(rec[c], chan[b][c])])
    /\ UNCHANGED <<srv, joining, asker, net, helper, bounds>>

---------------------------------------------------------------------------
(* Asking.                                                                 *)

\* access_fallback: the next trusted bot that is not the asker itself.
FallbackTurns == {i \in 1..Len(Trusted) : Trusted[i] # "asker"}
Following(t) == (t % Len(Trusted)) + 1
FallbackTurn == IF Trusted[turn] # "asker" THEN turn
                ELSE CHOOSE i \in FallbackTurns :
                        \A j \in FallbackTurns : (i - turn) % Len(Trusted) <= (j - turn) % Len(Trusted)

\* Mutant: given up for good, whatever time has passed.
UsedUpForGood(c, k) == count[c][k] >= MaxRetries

\* The retries of a kind are used up and the quiet spell is not over.
UsedUp(c, k) == count[c][k] >= MaxRetries /\ asked[c][k] <= Cooloff

\* The early returns of access_request.
MayAsk(c, k) == /\ chan["asker"][c].managed /\ c \notin off
                /\ ~UsedUp(c, k) /\ asked[c][k] >= RetryTime /\ last >= MinInterval

Request(c, k, via) == [t |-> "ask", c |-> c, k |-> k, via |-> via, key |-> NoKey]

\* access_request: over the hub, else to one trusted bot; a bot that is gone
\* counts as asked.
access_request(c, k) ==
    IF ~MayAsk(c, k) \/ (~hub["asker"] /\ FallbackTurns = {})
    THEN UNCHANGED <<asked, count, last, turn, net>>
    ELSE /\ asked' = [asked EXCEPT ![c][k] = 0]
         /\ count' = [count EXCEPT ![c][k] = IF @ >= MaxRetries THEN 1 ELSE @ + 1]
         /\ last' = 0
         /\ IF hub["asker"]
            THEN turn' = turn /\ net' = net \cup {Request(c, k, "hub")}
            ELSE /\ turn' = Following(FallbackTurn)
                 /\ net' = IF Trusted[FallbackTurn] = "helper"
                           THEN net \cup {Request(c, k, "b2")} ELSE net

---------------------------------------------------------------------------
(* Joining.                                                                *)
Due(c) == /\ chan["asker"][c].managed /\ c \notin off
          /\ ~chan["asker"][c].in /\ join[c] > JoinRetry

\* check_joins: JOIN, with the key if there is one, wherever it is due.
CheckJoins ==
    /\ \E c \in Chan : Due(c)
    /\ joining' = [c \in Chan |-> IF Due(c) THEN chan["asker"][c].key ELSE joining[c]]
    /\ join' = [c \in Chan |-> IF Due(c) THEN 0 ELSE join[c]]
    /\ UNCHANGED <<srv, chan, off, asked, count, last, turn, hub, rec, net, helper, bounds>>

\* Why the server refuses the JOIN of c; an invitation opens a +i channel.
Denials(c, key) == {k \in Kind : CASE k = "ban" -> srv[c].bans \cap Hits["asker"] # {}
                                   [] k = "inv" -> srv[c].inv /\ ~srv[c].invited
                                   [] k = "key" -> srv[c].key \notin {NoKey, key}}

\* Answers may overtake one another: the send queue spreads the JOINs.
Answered(c) == /\ joining[c] # Idle
               /\ joining' = [joining EXCEPT ![c] = Idle]

\* 474, 473, 475: on_lockout and its +i twin.
JoinDenied(c, k) ==
    /\ Answered(c) /\ k \in Denials(c, joining[c])
    /\ IF chan["asker"][c].managed THEN access_request(c, k)
       ELSE UNCHANGED <<asked, count, last, turn, net>>
    /\ UNCHANGED <<srv, chan, join, off, hub, rec, helper, bounds>>

\* on_join of the bot itself: a channel removed meanwhile is left at once.
Joined(c) ==
    /\ Answered(c) /\ Denials(c, joining[c]) = {}
    /\ srv' = [srv EXCEPT ![c].invited = FALSE]
    /\ chan' = [chan EXCEPT !["asker"][c].in = @ \/ chan["asker"][c].managed,
                            !["asker"][c].opped = FALSE]
    /\ UNCHANGED <<asker, hub, rec, net, helper, bounds>>

\* 405: no more JOINs of this channel until the next connection.
TooMany(c) == /\ "405" \in Why[c] /\ Event /\ Answered(c)
              /\ off' = off \cup {c}
              /\ UNCHANGED <<srv, chan, join, asked, count, last, turn, hub, rec, net, helper, lost>>

\* KICK of the bot.
Kicked(c) == /\ "kick" \in Why[c] /\ chan["asker"][c].in /\ Event
             /\ chan' = [chan EXCEPT !["asker"][c].in = FALSE, !["asker"][c].opped = FALSE]
             /\ UNCHANGED <<srv, joining, asker, hub, rec, net, helper, lost>>

\* disconnect and the next 001: reset_status.
Reconnect == /\ Event
             /\ chan' = [chan EXCEPT !["asker"] = [c \in Chan |->
                    [chan["asker"][c] EXCEPT !.in = FALSE, !.opped = FALSE]]]
             /\ joining' = [c \in Chan |-> Idle]
             /\ srv' = [c \in Chan |-> [srv[c] EXCEPT !.invited = FALSE]]
             /\ join' = [c \in Chan |-> JoinRetry + 1] /\ off' = {}
             /\ asked' = [c \in Chan |-> [k \in Kind |-> Cooloff + 1]]
             /\ count' = [c \in Chan |-> [k \in Kind |-> 0]]
             /\ UNCHANGED <<last, turn, hub, rec, net, helper, lost>>

---------------------------------------------------------------------------
(* Helping.                                                                *)
Listing(c) == [i \in 1..Cardinality(srv[c].bans) |->
                  [c |-> c, m |-> SetToSeq(srv[c].bans)[i]]] \o <<[c |-> c, m |-> End]>>

ActiveJobs == {c \in Chan : job[c] # Idle}

\* unban_job_start: one walk per channel at a time; the ban list query may
\* be lost.
unban_job_start(c, who) ==
    IF c \in ActiveJobs \/ Cardinality(ActiveJobs) >= MaxJobs
    THEN UNCHANGED <<job, feed, lost>>
    ELSE /\ job' = [job EXCEPT ![c] = [who |-> who, age |-> 0, removed |-> 0]]
         /\ \/ feed' = feed \o Listing(c) /\ UNCHANGED lost
            \/ Loss /\ UNCHANGED feed

\* Mutant: ops for the key, a key for the rest.
CanServeSwapped(c, k) == /\ chan["helper"][c].in
                         /\ IF k # "key" THEN chan["helper"][c].key # NoKey ELSE chan["helper"][c].opped

\* access_service and chan_elect_cannot: what the helper can do now.
CanServe(c, k) == /\ chan["helper"][c].in
                  /\ IF k = "key" THEN chan["helper"][c].key # NoKey ELSE chan["helper"][c].opped

\* CMD_CHAN_ACTION, CMD_CHAN_DO and the UNBAN, INVITE and KEY commands.
Serve(m) ==
    /\ m \in net /\ m.t = "ask"
    /\ IF ~CanServe(m.c, m.k) \/ (m.via = "hub" /\ ~hub["helper"])
       THEN net' = net \ {m} /\ UNCHANGED <<srv, helper, lost>>
       ELSE CASE m.k = "ban" -> /\ net' = net \ {m} /\ UNCHANGED srv
                                /\ unban_job_start(m.c, "asker")
              [] m.k = "inv" -> /\ net' = net \ {m}
                                /\ srv' = [srv EXCEPT ![m.c].invited = TRUE]
                                /\ UNCHANGED <<helper, lost>>
              [] m.k = "key" -> /\ net' = (net \ {m}) \cup
                                     {[m EXCEPT !.t = "keyis", !.key = chan["helper"][m.c].key]}
                                /\ UNCHANGED <<srv, helper, lost>>
    /\ UNCHANGED <<joining, chan, asker, hub, rec, events>>

\* Another bot of the mesh asks the helper to lift its bans.
OtherAsks(c) == /\ "other" \in Why[c] /\ Event /\ CanServe(c, "ban")
                /\ unban_job_start(c, "other")
                /\ UNCHANGED <<srv, joining, chan, asker, hub, rec, net>>

\* Another handler of the helper asks for the ban list (chanlive::request).
HelperLists(c) == /\ "list" \in Why[c] /\ Event /\ feed' = feed \o Listing(c)
                  /\ UNCHANGED <<srv, joining, chan, asker, hub, rec, net, job, lost>>

\* The mask comes off for the bot the job is for.
Matches(c, m) == IF job[c] = Idle THEN FALSE
                 ELSE m \in Hits[job[c].who] /\ job[c].removed < MaxRemovals

\* 367: unban_note_ban.
Feed367 ==
    /\ feed # <<>> /\ Head(feed).m # End /\ feed' = Tail(feed)
    /\ LET c == Head(feed).c
           m == Head(feed).m
       IN  IF Matches(c, m) /\ chan["helper"][c].in /\ chan["helper"][c].opped
           THEN /\ srv' = [srv EXCEPT ![c].bans = @ \ {m}]
                /\ job' = [job EXCEPT ![c].removed = @ + 1]
           ELSE UNCHANGED <<srv, job>>
    /\ UNCHANGED <<joining, chan, asker, hub, rec, net, bounds>>

\* 368: unban_finish, whoever asked for the list.
Feed368 ==
    /\ feed # <<>> /\ Head(feed).m = End /\ feed' = Tail(feed)
    /\ job' = [job EXCEPT ![Head(feed).c] = Idle]
    /\ UNCHANGED <<srv, joining, chan, asker, hub, rec, net, bounds>>

---------------------------------------------------------------------------
(* The key answer.                                                         *)

Acceptable(m) == LET v == chan["asker"][m.c]
                 IN  v.managed /\ ~v.in /\ asked[m.c]["key"] <= AcceptWindow /\ v.key # m.key

\* access_accept_key: the key is stored with a new stamp, pushed and tried.
AcceptKey(m) ==
    /\ m \in net /\ m.t = "keyis" /\ net' = net \ {m}
    /\ IF Acceptable(m)
       THEN LET ch == [chan EXCEPT !["asker"][m.c].key = m.key, !["asker"][m.c].ts = NewTs(m.c)]
            IN  /\ Store(ch, Pushed(ch, {"asker"}, m.c))
                /\ join' = [join EXCEPT ![m.c] = JoinRetry + 1]
       ELSE UNCHANGED <<chan, rec, join>>
    /\ UNCHANGED <<srv, joining, off, asked, count, last, turn, hub, helper, bounds>>

Lose(m) == /\ m \in net /\ Loss /\ net' = net \ {m}
           /\ UNCHANGED <<srv, joining, chan, asker, hub, rec, helper, events>>

---------------------------------------------------------------------------
(* The people in the channels.                                             *)
Ban(c, m) == /\ "ban" \in Why[c] /\ m \notin srv[c].bans /\ Event
             /\ srv' = [srv EXCEPT ![c].bans = @ \cup {m}]
             /\ UNCHANGED <<joining, chan, asker, hub, rec, net, helper, lost>>

\* MODE +k, -k, +i or -i: handle_mode_change and on_mode of the bots that
\* are in the channel, which stamp and push the record.
Seen(c, f, v) ==
    LET bs == {b \in Bot : chan[b][c].in /\ chan[b][c].managed}
        ch == [b \in Bot |-> [chan[b] EXCEPT ![c] =
                 IF b \in bs THEN [@ EXCEPT !.key = IF f = "key" THEN v ELSE @, !.ts = NewTs(c)]
                 ELSE @]]
    IN  Store(ch, Pushed(ch, bs, c))

SetKey(c, k) == /\ "key" \in Why[c] /\ k # srv[c].key /\ Event
                /\ srv' = [srv EXCEPT ![c].key = k] /\ Seen(c, "key", k)
                /\ UNCHANGED <<joining, asker, hub, net, helper, lost>>

SetInvite(c) == /\ "inv" \in Why[c] /\ Event
                /\ srv' = [srv EXCEPT ![c].inv = ~@] /\ Seen(c, "inv", ~srv[c].inv)
                /\ UNCHANGED <<joining, asker, hub, net, helper, lost>>

\* Somebody takes or gives the helper's ops.
HelperOp(c) == /\ "op" \in Why[c] /\ chan["helper"][c].in /\ Event
               /\ chan' = [chan EXCEPT !["helper"][c].opped = ~@]
               /\ UNCHANGED <<srv, joining, asker, hub, rec, net, helper, lost>>

---------------------------------------------------------------------------
\* unban_expire: the 368 never came.
Expired(c) == job[c].age >= JobTTL

\* A round passes; unban_expire drops the walks that were never closed.  A
\* round in which a message stays under way counts as a lost message.
Tick ==
    /\ \A c \in Chan : joining[c] = Idle /\ ~Due(c)
    /\ feed = <<>>
    /\ IF net = {} THEN UNCHANGED lost ELSE Loss
    /\ join' = [c \in Chan |-> Aged(join[c], JoinRetry)]
    /\ asked' = [c \in Chan |-> [k \in Kind |-> Aged(asked[c][k], Cooloff)]]
    /\ last' = IF last >= MinInterval THEN last ELSE last + 1
    /\ job' = [c \in Chan |-> IF job[c] = Idle THEN Idle
                              ELSE IF Expired(c) THEN Idle
                              ELSE [job[c] EXCEPT !.age = Min({@ + 1, JobTTL})]]
    /\ UNCHANGED <<srv, joining, chan, off, count, turn, hub, rec, net, feed, events>>

Bots == \/ CheckJoins \/ Feed367 \/ Feed368 \/ Tick
        \/ \E c \in Chan : Joined(c) \/ (\E k \in Kind : JoinDenied(c, k))
        \/ \E m \in net : Serve(m) \/ AcceptKey(m)
        \/ \E b \in Bot : HubUp(b) \/ (\E c \in Chan : SyncRec(b, c))

World == \/ \E c \in Chan : \/ HubEdits(c) \/ TooMany(c) \/ Kicked(c) \/ OtherAsks(c)
                             \/ HelperLists(c) \/ SetInvite(c) \/ HelperOp(c)
                             \/ \E m \in Mask : Ban(c, m)
                             \/ \E k \in Key : SetKey(c, k)
         \/ \E b \in Bot : HubDown(b)
         \/ \E m \in net : Lose(m)
         \/ Reconnect

Next == Bots \/ World

Spec == Init /\ [][Next]_vars

\* The bots' loops run and the server answers; a message that is
\* neither lost nor late arrives.  Nothing is assumed of hub links or people.
FairSpec ==
    /\ Spec /\ WF_vars(CheckJoins) /\ WF_vars(Tick) /\ WF_vars(Feed367) /\ WF_vars(Feed368)
    /\ \A c \in Chan :
          /\ WF_vars(Joined(c) \/ \E k \in Kind : JoinDenied(c, k))
          /\ \A b \in Bot : WF_vars(SyncRec(b, c))
          /\ \A k \in Kind : WF_vars(\E m \in net : m.c = c /\ m.k = k /\ (Serve(m) \/ AcceptKey(m)))

---------------------------------------------------------------------------
(* Properties.                                                             *)

\* Every variable keeps its shape; a bot keeps within its unban jobs.
TypeOK ==
    /\ srv \in [Chan -> [bans : SUBSET Mask, key : Key, inv : BOOLEAN, invited : BOOLEAN]]
    /\ joining \in [Chan -> Key \cup {Idle}]
    /\ chan \in [Bot -> [Chan -> [in : BOOLEAN, opped : BOOLEAN, managed : BOOLEAN, key : Key, ts : 0..2]]]
    /\ join \in [Chan -> 0..JoinRetry + 1] /\ off \subseteq Chan
    /\ asked \in [Chan -> [Kind -> 0..Cooloff + 1]]
    /\ count \in [Chan -> [Kind -> 0..MaxRetries]]
    /\ last \in 0..MinInterval /\ turn \in 1..Len(Trusted)
    /\ hub \in [Bot -> BOOLEAN]
    /\ rec \in [Chan -> [managed : BOOLEAN, key : Key, ts : 0..2]]
    /\ net \subseteq [t : {"ask", "keyis"}, c : Chan, k : Kind, via : {"hub", "b2"}, key : Key]
    /\ job \in [Chan -> {Idle} \cup [who : {"asker", "other"}, age : 0..JobTTL, removed : 0..MaxRemovals]]
    /\ Cardinality(ActiveJobs) <= MaxJobs
    /\ \A i \in DOMAIN feed : feed[i].c \in Chan /\ feed[i].m \in Mask \cup {End}

Wanted(c) == chan["asker"][c].managed /\ c \notin off

\* check_joins and access_request: a channel the bot stays locked out of is
\* asked for again and again, with and without a helper or a hub, whatever
\* other channel it is locked out of at the same time: the spacing between
\* requests, the limits per channel and kind and the cool-off starve none.
AskedAgain == \A c \in Chan :
    <>[](Wanted(c) /\ ~chan["asker"][c].in) => []<>(\E k \in Kind : asked[c][k] = 0)

\* The helper can lift every lockout of c and hears the asker.
Helped(c) == /\ Wanted(c) /\ chan["helper"][c].in /\ chan["helper"][c].opped
             /\ srv[c].key # NoKey => chan["helper"][c].key = srv[c].key
             /\ hub["asker"] /\ hub["helper"]

\* access_request, access_service, unban_note_ban and access_accept_key: a
\* bot with a willing helper on the hub gets into the channel, whatever was
\* lost, in the middle of whichever ban list the walk was, and whoever else
\* asked.
GetsIn == \A c \in Chan : <>[]Helped(c) => []<>(chan["asker"][c].in)

\* access_fallback: the same without a hub, one trusted bot per attempt.  Two
\* channels can miss each other's turn (README, section 5); no run checks it.
GetsInAlone == \A c \in Chan :
    <>[](Wanted(c) /\ ~hub["asker"] /\ chan["helper"][c].in /\ chan["helper"][c].opped
         /\ (srv[c].key # NoKey => chan["helper"][c].key = srv[c].key))
    => []<>(chan["asker"][c].in)

\* unban_expire, unban_finish: no walk keeps its slot, whether its list was
\* lost, closed by the 368 of another list or cut short by a -o.
SlotsFreed == \A c \in Chan : []<>(job[c] = Idle)

\* sync_channel_line, on_join: a channel that is removed for good is left for
\* good, a JOIN that was under way included.
RemovedStaysLeft == \A c \in Chan : <>[](~chan["asker"][c].managed) => <>[](~chan["asker"][c].in)

\* access_accept_key: "so a stray reply cannot rewrite a good key".  A late one can
\* (README, section 5); no run checks it.
GoodKeyKept == [][\A c \in Chan :
    (chan["asker"][c].key # NoKey /\ chan["asker"][c].key = srv[c].key /\ srv'[c].key = srv[c].key)
    => chan'["asker"][c].key = chan["asker"][c].key]_vars
=============================================================================
