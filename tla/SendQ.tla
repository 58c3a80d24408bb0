------------------------------- MODULE SendQ -------------------------------
(***************************************************************************)
(* The output queue of the IRC link (src/sendq.rs) together with the parts *)
(* of src/irc_client.rs that feed, drain and clear it.                     *)
(*                                                                         *)
(* The bot is single threaded: enqueue, release, the main loop and         *)
(* disconnect all run drain to its end before anything else happens.  The  *)
(* loop inside drain is modelled one write per step; pc says that it is    *)
(* running and what follows it.  A write may fail at any of these steps.   *)
(*                                                                         *)
(* Time is the distance to the last refill (mono_ms() - last_ms); it does  *)
(* not advance while drain runs, because a write only appends to the       *)
(* socket buffer.                                                          *)
(***************************************************************************)
EXTENDS Integers, Sequences, FiniteSets, Functions

CONSTANTS
    Line,          \* finished lines the bot may send: records, see LineShape
    MAX_SENDQ,     \* lines held, all lanes together
    Limits,        \* pairs <<burst, interval>> a D| sendq setting leaves after set_limits' clamping
    ModesTokens,   \* values of the 005 MODES= token; 0 stands for "not sent"
    ModesDefault,  \* ISUPPORT_MODES_DEFAULT
    ModesMax,      \* ISUPPORT_MODES_MAX
    PackBudget,    \* size at which take_protection stops packing
    MaxHold,       \* bound: nesting depth of hold
    MaxElapsed,    \* bound: time since the last refill that is told apart
    MaxWindow      \* bound: length of the observation window

\* SENDQ_LANE_PROTO, SENDQ_LANE_PROT, SENDQ_LANE_REST
PROTO == 0
PROT  == 1
REST  == 2
Lanes == {PROTO, PROT, REST}

\* Lines are told apart by verb, channel, the one mode change they carry (if
\* any) and its argument; size is what the line adds to a packed MODE line.
LineShape == [verb : STRING, chan : STRING, sign : STRING, letter : STRING,
              arg : STRING, size : Nat]

ASSUME SendQAssumption ==
    /\ Line \subseteq LineShape
    /\ MAX_SENDQ \in Nat \ {0}
    /\ Limits # {} /\ Limits \subseteq (Nat \ {0}) \X Nat
    /\ ModesTokens \subseteq Nat
    /\ ModesDefault \in Nat \ {0}
    /\ ModesMax \in Nat \ {0}
    /\ PackBudget \in Nat
    /\ MaxHold \in Nat \ {0}
    /\ MaxElapsed \in Nat
    /\ MaxWindow \in Nat

VARIABLES
    q,          \* q.q: the three lanes
    total,      \* q.total
    burst,      \* q.burst
    interval,   \* q.interval_ms
    credit,     \* q.credit_ms
    elapsed,    \* mono_ms() - q.last_ms
    hold,       \* q.hold
    modes,      \* isup.modes
    connected,  \* S_CONNECTED (and state.irc present)
    pc,         \* "idle", or what runs after the drain in progress
    quiet,      \* history: nobody asks for another line
    wcount,     \* history: lines written in the observation window
    welapsed    \* history: age of the observation window

queueVars == <<q, total>>
limitVars == <<burst, interval>>
creditVars == <<credit, elapsed>>
windowVars == <<wcount, welapsed>>
vars == <<q, total, burst, interval, credit, elapsed, hold, modes, connected,
          pc, quiet, wcount, welapsed>>

---------------------------------------------------------------------------
\* Classification of a line.

ProtoVerbs == {"PONG", "PING", "NICK", "USER", "PASS", "QUIT", "CAP"}

\* "MODE #chan", or a list letter without an argument.
mode_is_query(l) == l.letter = "" \/ (l.arg = "" /\ l.letter \in {"b", "e", "I"})

lane_of(l) == IF l.verb \in ProtoVerbs THEN PROTO
              ELSE IF l.verb = "KICK" \/ (l.verb = "MODE" /\ ~mode_is_query(l))
                   THEN PROT
                   ELSE REST

\* Exactly one signed letter of known argument rule, with the argument it needs.
NeedsArg(l) == l.letter \in {"o", "v", "h", "b", "e", "I", "k"}
               \/ (l.letter = "l" /\ l.sign = "+")
NoArg(l) == l.letter \in {"i", "m", "n", "p", "s", "t"}
            \/ (l.letter = "l" /\ l.sign = "-")
mode_item_parse(l) == /\ l.verb = "MODE"
                      /\ l.sign # ""
                      /\ \/ NeedsArg(l) /\ l.arg # ""
                         \/ NoArg(l) /\ l.arg = ""

Least(a, b) == IF a < b THEN a ELSE b

\* The first n lines of lane s may leave as one MODE line.
PackLimit == IF modes < 1 THEN ModesDefault ELSE Least(modes, ModesMax)
PackOK(s, n) == /\ n <= PackLimit
                /\ \A i \in 1..n : mode_item_parse(s[i]) /\ s[i].chan = s[1].chan
                /\ n > 1 => FoldFunctionOnSet(LAMBDA a, b : a + b, 0,
                                [i \in 1..n |-> s[i].size], 1..n) <= PackBudget

\* take_protection: how many lines of the head of lane s the next write uses.
TakesPack(s, n) == IF mode_item_parse(s[1])
                   THEN PackOK(s, n) /\ (n < Len(s) => ~PackOK(s, n + 1))
                   ELSE n = 1

---------------------------------------------------------------------------
\* The token bucket.

Cap == burst * interval
\* Mutant: credit is not capped.
RefilledUncapped == credit + elapsed
Refilled == Least(credit + elapsed, Cap)

\* refill, as the head of drain
refill == credit' = Refilled /\ elapsed' = 0

EmptyLanes == [k \in Lanes |-> <<>>]

\* clear: empty lanes and a full bucket.
clear == /\ q' = EmptyLanes
         /\ total' = 0
         /\ credit' = Cap
         /\ elapsed' = 0

\* Call drain; next is what its caller does afterwards.
StartDrain(t, next) == IF t = 0 THEN pc' = "idle" /\ UNCHANGED creditVars
                                ELSE pc' = next /\ refill

---------------------------------------------------------------------------
Init == /\ q = EmptyLanes
        /\ total = 0
        /\ \E p \in Limits : burst = p[1] /\ interval = p[2] /\ credit = p[1] * p[2]
        /\ elapsed = 0
        /\ hold = 0
        /\ modes = 0
        /\ connected = FALSE
        /\ pc = "idle"
        /\ quiet = FALSE
        /\ wcount = 0
        /\ welapsed = 0

\* lane_pop of the oldest line of a lane
Pop(k) == [q EXCEPT ![k] = Tail(@)]

\* Mutant: a full queue gives up the oldest line of any lane.
VictimsAnyLane(lane) == {k \in Lanes : q[k] # <<>>}

\* make_room: the lane that gives up its oldest line, or none of them.
Victims(lane) == IF q[REST] # <<>> THEN {REST}
                 ELSE IF lane # REST /\ q[PROT] # <<>> THEN {PROT} ELSE {}

IsQueued(l) == \E i \in 1..Len(q[PROT]) : q[PROT][i] = l

Push(qq, l) == [qq EXCEPT ![lane_of(l)] = Append(@, l)]

\* enqueue, called by send_line while the link is up: a line already waiting
\* in the protection lane is not queued twice, one there is no room for is
\* refused, any other is queued and the queue drained unless it is held.
Duplicate(l) == lane_of(l) = PROT /\ IsQueued(l)
Refused(l) == ~Duplicate(l) /\ total >= MAX_SENDQ /\ Victims(lane_of(l)) = {}
\* Mutant: the evicted line stays counted.
QueueMiscounted(l) == \/ total < MAX_SENDQ /\ q' = Push(q, l) /\ total' = total + 1
                      \/ /\ total >= MAX_SENDQ
                         /\ \E v \in Victims(lane_of(l)) : q' = Push(Pop(v), l)
                         /\ total' = total + 1
Queue(l) == \/ total < MAX_SENDQ /\ q' = Push(q, l) /\ total' = total + 1
            \/ /\ total >= MAX_SENDQ
               /\ \E v \in Victims(lane_of(l)) : q' = Push(Pop(v), l)
               /\ total' = total

enqueue(l) ==
    /\ pc = "idle" /\ connected /\ ~quiet
    /\ \/ /\ Duplicate(l) \/ Refused(l)
          /\ UNCHANGED <<queueVars, creditVars, pc>>
       \/ /\ ~Duplicate(l) /\ Queue(l)
          /\ IF hold = 0 THEN StartDrain(total', "return")
                         ELSE UNCHANGED <<creditVars, pc>>
    /\ UNCHANGED <<limitVars, hold, modes, connected, quiet, windowVars>>

Hold == /\ pc = "idle" /\ ~quiet /\ hold < MaxHold
        /\ hold' = hold + 1
        /\ UNCHANGED <<queueVars, limitVars, creditVars, modes, connected, pc,
                       quiet, windowVars>>

\* Mutant: a release without a hold is counted.
ReleaseUnderflow ==
    /\ pc = "idle"
    /\ hold' = hold - 1
    /\ IF hold = 1 THEN StartDrain(total, "return") ELSE UNCHANGED <<creditVars, pc>>
    /\ UNCHANGED <<queueVars, limitVars, modes, connected, quiet, windowVars>>

\* release: the outermost one drains what the hold kept back.
release == /\ pc = "idle" /\ hold > 0
           /\ hold' = hold - 1
           /\ IF hold = 1 THEN StartDrain(total, "return")
                          ELSE UNCHANGED <<creditVars, pc>>
           /\ UNCHANGED <<queueVars, limitVars, modes, connected, quiet, windowVars>>

\* The main loop after a poll round.  Handlers that hold also release before
\* they return to the loop.
PollDrain == /\ pc = "idle" /\ connected /\ hold = 0 /\ total > 0
             /\ StartDrain(total, "return")
             /\ UNCHANGED <<queueVars, limitVars, hold, modes, connected, quiet,
                            windowVars>>

\* The main loop sizes its poll timeout: credit is refilled, nothing is sent.
next_ms == /\ pc = "idle" /\ connected /\ hold = 0 /\ total > 0
           /\ refill
           /\ UNCHANGED <<queueVars, limitVars, hold, modes, connected, pc, quiet,
                          windowVars>>

\* Mutant: one credit is always kept back.
MayWriteOffByOne == total > 0 /\ credit > interval
MayWrite == total > 0 /\ credit >= interval

\* One round of the loop in drain whose write succeeds.  (Unpaced lines,
\* interval 0, are not counted in the window.)
DrainWrite ==
    /\ pc # "idle" /\ MayWrite
    /\ \/ q[PROTO] # <<>> /\ q' = Pop(PROTO) /\ total' = total - 1
       \/ /\ q[PROTO] = <<>> /\ q[PROT] # <<>>
          /\ \E n \in 1..Len(q[PROT]) :
                /\ TakesPack(q[PROT], n)
                /\ q' = [q EXCEPT ![PROT] = SubSeq(@, n + 1, Len(@))]
                /\ total' = total - n
       \/ /\ q[PROTO] = <<>> /\ q[PROT] = <<>>
          /\ q' = Pop(REST) /\ total' = total - 1
    /\ credit' = credit - interval
    /\ wcount' = IF interval = 0 THEN wcount ELSE wcount + 1
    /\ UNCHANGED <<limitVars, elapsed, hold, modes, connected, pc, quiet, welapsed>>

\* Mutant: disconnect leaves the queue as it is.
LinkGoneUncleared == /\ connected' = FALSE
                     /\ modes' = 0
                     /\ pc' = "idle"
                     /\ wcount' = 0 /\ welapsed' = 0
                     /\ UNCHANGED <<queueVars, creditVars>>

\* What irc_client::disconnect leaves of the link: the queue cleared and the
\* 005 values reset.  A fresh window is opened, as the bucket is full again.
LinkGone == /\ clear
            /\ connected' = FALSE
            /\ modes' = 0
            /\ pc' = "idle"
            /\ wcount' = 0 /\ welapsed' = 0

\* write_raw fails: the queue is emptied and the link dropped.
DrainFail == /\ pc # "idle" /\ MayWrite
             /\ LinkGone
             /\ UNCHANGED <<limitVars, hold, quiet>>

\* The loop in drain ends; disconnect goes on to drop the link.
DrainEnd == /\ pc # "idle" /\ ~MayWrite
            /\ \/ pc = "return" /\ pc' = "idle"
                  /\ UNCHANGED <<queueVars, creditVars, modes, connected,
                                 windowVars>>
               \/ pc = "disconnect" /\ LinkGone
            /\ UNCHANGED <<limitVars, hold, quiet>>

\* irc_client::disconnect: last chance for the queued lines, then drop.
disconnect == /\ pc = "idle" /\ connected
              /\ IF total = 0 THEN LinkGone /\ UNCHANGED limitVars
                 ELSE /\ StartDrain(total, "disconnect")
                      /\ UNCHANGED <<queueVars, limitVars, connected, modes,
                                     windowVars>>
              /\ UNCHANGED <<hold, quiet>>

\* irc_client::connect: new link, empty queue, full burst.
connect == /\ pc = "idle" /\ ~connected /\ hold = 0
           /\ clear
           /\ connected' = TRUE
           /\ modes' = 0
           /\ wcount' = 0 /\ welapsed' = 0
           /\ UNCHANGED <<limitVars, hold, pc, quiet>>

\* The server's 005 arrives.
isupport == /\ pc = "idle" /\ connected
            /\ modes' \in ModesTokens
            /\ UNCHANGED <<queueVars, limitVars, creditVars, hold, connected, pc,
                           quiet, windowVars>>

\* set_limits: the stored credit is cut to the new cap, never raised.  A new
\* observation window starts with the new limits.
set_limits(b, i) == /\ pc = "idle" /\ ~quiet
                    /\ burst' = b /\ interval' = i
                    /\ credit' = Least(credit, b * i)
                    /\ wcount' = 0 /\ welapsed' = 0
                    /\ UNCHANGED <<queueVars, elapsed, hold, modes, connected, pc, quiet>>

\* A millisecond passes.  The observation window may start anew at any time.
Tick == /\ pc = "idle"
        /\ elapsed < MaxElapsed
        /\ elapsed' = elapsed + 1
        /\ \/ welapsed < MaxWindow /\ welapsed' = welapsed + 1 /\ wcount' = wcount
           \/ welapsed' = 0 /\ wcount' = 0
        /\ UNCHANGED <<queueVars, limitVars, credit, hold, modes, connected, pc, quiet>>

\* From here on nobody asks for a line and nothing else touches the link.
Quiesce == /\ pc = "idle" /\ ~quiet
           /\ quiet' = TRUE
           /\ UNCHANGED <<queueVars, limitVars, creditVars, hold, modes, connected,
                          pc, windowVars>>

Next == \/ \E l \in Line : enqueue(l)
        \/ Hold \/ release \/ PollDrain \/ next_ms
        \/ DrainWrite \/ DrainFail \/ DrainEnd
        \/ disconnect \/ connect \/ isupport
        \/ \E p \in Limits : set_limits(p[1], p[2])
        \/ Tick \/ Quiesce

Spec == Init /\ [][Next]_vars

\* The main loop polls again and again, a drain it started goes on, a handler
\* that holds releases, and time does not stand still (strongly fair: the
\* clock advances however often the loop turns).
Fairness == /\ WF_vars(PollDrain)
            /\ WF_vars(DrainWrite \/ DrainEnd)
            /\ WF_vars(release)
            /\ SF_vars(Tick)
FairSpec == Spec /\ Fairness

---------------------------------------------------------------------------
\* Lanes, counters and history keep their types: credit never goes below zero,
\* a hold is never released more often than taken (the u32 of q.hold).
TypeOK == /\ q \in [Lanes -> Seq(Line)]
          /\ total \in Nat
          /\ <<burst, interval>> \in Limits
          /\ credit \in Nat
          /\ elapsed \in 0..MaxElapsed
          /\ hold \in 0..MaxHold
          /\ modes \in ModesTokens \cup {0}
          /\ connected \in BOOLEAN
          /\ pc \in {"idle", "return", "disconnect"}
          /\ quiet \in BOOLEAN
          /\ wcount \in Nat
          /\ welapsed \in 0..MaxWindow

\* Lines in one lane, and in all of them.
Waiting(qq, k) == Len(qq[k])
Held(qq) == Waiting(qq, PROTO) + Waiting(qq, PROT) + Waiting(qq, REST)

\* The line count that make_room and drain rely on is the number of lines in
\* the lanes, and however lines are dropped, packed and cleared the queue
\* never holds more than MAX_SENDQ.
QueueBounded == /\ total = Held(q)
                /\ total <= MAX_SENDQ

\* The reason sendq exists: in any window of time on one link and with
\* unchanged limits, whatever mix of enqueue, release, poll and disconnect
\* drains the queue, at most burst + window/interval lines are written.
Paced == wcount * interval <= Cap + welapsed

\* A line queued for one connection is never there for the next: while the
\* link is down nothing is queued and no drain is in progress.
NothingQueuedOffline == ~connected => total = 0 /\ pc = "idle"

\* Whatever fills the queue, a PONG or registration line once accepted is
\* not evicted: outside a drain lane 0 only grows while the link is up.
ProtocolNeverEvicted ==
    [][pc = "idle" /\ connected /\ connected' =>
         /\ Len(q[PROTO]) <= Len(q'[PROTO])
         /\ SubSeq(q'[PROTO], 1, Len(q[PROTO])) = q[PROTO]]_vars

\* Once the callers fall silent, pacing, holds and packing let every queued
\* line out (or the link goes): the queue does not get stuck with lines in it.
EventuallyDrained == quiet ~> (total = 0)
=============================================================================
