------------------------------- MODULE OpSeek -------------------------------
(***************************************************************************)
(* How a bot without ops in its channels gets them from another bot        *)
(* (check_joins of src/channel.rs, the WHO and MODE o handlers of          *)
(* src/irc_parser.rs, the CMD_OP_* and CMD_CHAN_DO "op" handlers of        *)
(* src/hub_client.rs, OPME of src/bot_comms.rs): the seeker re-reads the   *)
(* channel with WHO, picks a trusted op at its end and asks it, over the   *)
(* hub or by a sealed message; the helper gives ops, or holds an OP_GRANT  *)
(* that came before its own +o.                                            *)
(*                                                                         *)
(* Time runs in rounds (Tick) of 30 seconds; the server answers WHO within *)
(* the round.  A round is longer than OP_REQUEST_MIN_INTERVAL and          *)
(* OP_GRANT_HOLD_SECS: whether two requests of one round are far enough    *)
(* apart is a choice, and a hold does not outlive its round.  The helper   *)
(* stands for every trusted op; it stays in the channels.  Server, hub and *)
(* people are external.                                                    *)
(***************************************************************************)
EXTENDS Integers, FiniteSets, FiniteSetsExt

CONSTANTS
    Chan,        \* channels both bots are in
    Bitch,       \* channels under +bitch: ops are for authorised members
    EmptyWho,    \* rounds after which an unanswered WHO is repeated
    Refresh,     \* ROSTER_REFRESH_INTERVAL
    Pending,     \* rounds an unanswered op request is waited for
    Backdate,    \* rounds taken off when nobody could be asked
    Reset,       \* rounds after which the attempts are given back
    MaxTries,    \* op requests before giving up
    MaxEvents,   \* bound: things people and hub links do
    MaxLost      \* bound: messages and answers that are lost or late

ASSUME OpSeekAssumption ==
    /\ {EmptyWho, Refresh, Pending, Backdate, Reset, MaxTries, MaxEvents, MaxLost} \subseteq Nat
    /\ Backdate <= Pending /\ Pending <= Reset /\ Bitch \subseteq Chan

VARIABLES
    in,        \* channels the seeker is in
    opped,     \* channels the seeker has ops in (i_am_opped)
    roster,    \* channels the seeker has a roster of
    asking,    \* channels whose WHO is under way
    who,       \* age of last_who_request
    wait,      \* channels with op_request_pending
    req,       \* age of last_op_request_time
    tries,     \* op_request_retry_count
    sent,      \* an op request left in this round (last_op_request_sent)
    hub,       \* the seeker's hub link is up
    net,       \* messages under way
    hop,       \* channels the helper has ops in
    listed,    \* channels whose roster at the helper lists the seeker
    held,      \* channels with an OP_GRANT for the seeker held (op_grant_held)
    vouched,   \* the helper's records authorise the seeker's hostmask
    deaf,      \* channels whose trusted op is there and never answers
    failed,    \* history: rounds since an OP_FAILED for the channel, without a WHO
    events, lost

seek == <<roster, asking, who, wait, req, tries, sent>>
helper == <<hop, listed, held, vouched, deaf>>
vars == <<in, opped, seek, hub, net, helper, failed, events, lost>>

Event == events < MaxEvents /\ events' = events + 1
Loss == lost < MaxLost /\ lost' = lost + 1
Aged(age, most) == IF age > most THEN age ELSE age + 1
TooLate == Backdate + 2         \* later than RetriedSoon allows
NotFailed == TooLate + 1        \* no OP_FAILED to be retried

---------------------------------------------------------------------------
Init == /\ in = Chan /\ opped = {} /\ roster = {} /\ asking = Chan
        /\ who = [c \in Chan |-> 0] /\ wait = {}
        /\ req = [c \in Chan |-> Reset + 1] /\ tries = [c \in Chan |-> 0] /\ sent = FALSE
        /\ hub = TRUE /\ net = {}
        /\ hop \in SUBSET Chan /\ listed = Chan /\ held = {} /\ deaf \in SUBSET hop
        /\ vouched = TRUE
        /\ failed = [c \in Chan |-> NotFailed] /\ events = 0 /\ lost = 0

---------------------------------------------------------------------------
(* The seeker.                                                             *)

\* WHO for every channel of cs.
AskWho(cs) == /\ asking' = asking \cup cs /\ roster' = roster \ cs
              /\ who' = [c \in Chan |-> IF c \in cs THEN 0 ELSE who[c]]
              /\ failed' = [c \in Chan |-> IF c \in cs THEN NotFailed ELSE failed[c]]

Seeking == in \ opped

\* Mutant: a roster once read is good.
StaleEmpty(c) == c \notin roster /\ who[c] > EmptyWho

Stale(c) == (c \notin roster /\ who[c] > EmptyWho) \/ who[c] > Refresh

TimedOut(c) == c \in wait /\ req[c] > Pending /\ tries[c] < MaxTries
ToRead == {c \in Seeking : Stale(c) \/ TimedOut(c)}

\* check_joins, for the channels the bot is in and has no ops in.
CheckOps == /\ ToRead # {} /\ AskWho(ToRead)
            /\ wait' = wait \ {c \in Seeking : ~Stale(c) /\ TimedOut(c)}
            /\ UNCHANGED <<in, opped, req, tries, sent, hub, net, helper, events, lost>>

\* Too many attempts, not long enough ago.
GaveUp(c) == tries[c] >= MaxTries /\ req[c] <= Reset

\* The attempts, one more; given back when the last one is long ago.
Tried(c) == IF tries[c] >= MaxTries THEN 1 ELSE tries[c] + 1

Msg(t, c) == [t |-> t, c |-> c]

\* on_end_of_who: 315.  The roster shows the helper as it is now.
EndOfWho(c) ==
    /\ c \in asking /\ asking' = asking \ {c} /\ roster' = roster \cup {c}
    /\ IF c \notin Seeking
       THEN /\ wait' = wait \ {c} /\ tries' = [tries EXCEPT ![c] = 0]
            /\ UNCHANGED <<req, sent, net>>
       ELSE IF (c \in wait /\ req[c] < Pending) \/ GaveUp(c)
       THEN UNCHANGED <<wait, req, tries, sent, net>>
       ELSE IF c \notin hop
       THEN /\ wait' = wait \cup {c} /\ req' = [req EXCEPT ![c] = Backdate]
            /\ tries' = [tries EXCEPT ![c] = IF @ >= MaxTries THEN 0 ELSE @]
            /\ UNCHANGED <<sent, net>>
       ELSE /\ wait' = wait \cup {c} /\ req' = [req EXCEPT ![c] = 0]
            /\ \/ /\ tries' = [tries EXCEPT ![c] = Tried(c)]
                  /\ sent' = TRUE
                  /\ net' = net \cup {Msg(IF hub THEN "request" ELSE "opme", c)}
               \/ /\ sent       \* too close to another channel's request
                  /\ tries' = [tries EXCEPT ![c] = IF @ >= MaxTries THEN 0 ELSE @]
                  /\ UNCHANGED <<sent, net>>
    /\ UNCHANGED <<in, opped, who, hub, helper, failed, events, lost>>

\* The WHO or its answer is lost.
WhoLost(c) == /\ c \in asking /\ Loss /\ asking' = asking \ {c}
              /\ UNCHANGED <<in, opped, roster, who, wait, req, tries, sent, hub, net, helper, failed, events>>

\* The effect on the seeker of the helper's MODE +o in the channels of cs.
Given(cs) == LET got == (cs \cap in) \ deaf
             IN  /\ opped' = opped \cup got /\ wait' = wait \ got
                 /\ tries' = [c \in Chan |-> IF c \in got THEN 0 ELSE tries[c]]

\* CMD_OP_FAILED: pending requests of every channel are called off.
OpFailed(m) ==
    /\ m \in net /\ m.t = "failed" /\ net' = net \ {m}
    /\ wait' = {} /\ req' = [c \in Chan |-> IF c \in wait THEN Backdate ELSE req[c]]
    /\ failed' = [c \in Chan |-> IF c \in wait \cap Seeking /\ tries[c] < MaxTries THEN 0 ELSE failed[c]]
    /\ UNCHANGED <<in, opped, roster, asking, who, tries, sent, hub, helper, events, lost>>

\* MODE -o of the seeker: the channel is read again before anyone is asked.
Deopped(c) ==
    /\ c \in opped /\ Event /\ opped' = opped \ {c}
    /\ IF c \in wait THEN UNCHANGED <<asking, roster, who, failed>> ELSE AskWho({c})
    /\ UNCHANGED <<in, wait, req, tries, sent, hub, net, helper, lost>>

\* KICK of the seeker, and its rejoin: on_join reads the channel.
Rejoined(c) ==
    /\ Event /\ opped' = opped \ {c} /\ AskWho({c})
    /\ UNCHANGED <<in, wait, req, tries, sent, hub, net, helper, lost>>

HubLink == /\ Event /\ hub' = ~hub
           /\ UNCHANGED <<in, opped, seek, net, helper, failed, lost>>

---------------------------------------------------------------------------
(* The hub: it tells the helper, has it elected, or refuses.               *)
HubPasses(m) == /\ m \in net /\ m.t = "request"
                /\ \E t \in {"grant", "do"} : net' = (net \ {m}) \cup {Msg(t, m.c)}
                /\ UNCHANGED <<in, opped, seek, hub, helper, failed, events, lost>>

HubRefuses(m) == /\ m \in net /\ m.t = "request" /\ Loss
                 /\ net' = (net \ {m}) \cup {Msg("failed", m.c)}
                 /\ UNCHANGED <<in, opped, seek, hub, helper, failed, events>>

---------------------------------------------------------------------------
(* The helper.                                                             *)

\* CMD_OP_GRANT: +o now, or once the helper has ops itself.
OpGrant(m) ==
    /\ m \in net /\ m.t = "grant" /\ net' = net \ {m}
    /\ IF m.c \in hop THEN Given({m.c}) /\ UNCHANGED held
       ELSE held' = held \cup {m.c} /\ UNCHANGED <<opped, wait, tries>>
    /\ UNCHANGED <<in, roster, asking, who, req, sent, hub, hop, listed, vouched, deaf, failed, events, lost>>

\* chan_elect_cannot, and under +bitch member_authorised: an asker that is
\* not in the roster, or not authorised by the records, is not vouched for.
MayOp(c) == c \in hop /\ (c \in Bitch => c \in listed /\ vouched)

\* CMD_CHAN_DO "op": checked again; a refusal comes back through the hub.
ChanDo(m) ==
    /\ m \in net /\ m.t = "do"
    /\ IF MayOp(m.c) THEN Given({m.c}) /\ net' = net \ {m}
       ELSE net' = (net \ {m}) \cup {Msg("failed", m.c)} /\ UNCHANGED <<opped, wait, tries>>
    /\ UNCHANGED <<in, roster, asking, who, req, sent, hub, helper, failed, events, lost>>

\* OPME by PRIVMSG: the server ignores the MODE of a helper without ops.
OpMe(m) == /\ m \in net /\ m.t = "opme" /\ net' = net \ {m}
           /\ Given({m.c} \cap hop)
           /\ UNCHANGED <<in, roster, asking, who, req, sent, hub, helper, failed, events, lost>>

\* MODE +o of the helper: grant_held_ops.
HelperOpped(c) ==
    /\ c \notin hop \cup deaf /\ Event /\ hop' = hop \cup {c} /\ held' = held \ {c}
    /\ Given(({c} \cap held \cap listed) \ opped)
    /\ UNCHANGED <<in, roster, asking, who, req, sent, hub, net, listed, vouched, deaf, failed, lost>>

\* MODE -o of the helper, which reads the channel again.
HelperDeopped(c) == /\ c \in hop \ deaf /\ Event /\ hop' = hop \ {c} /\ listed' = listed \ {c}
                    /\ UNCHANGED <<in, opped, seek, hub, net, held, vouched, deaf, failed, lost>>

\* Its periodic WHO while it has no ops, and the answer.
HelperReads(c) == /\ c \in listed \ hop /\ Event /\ listed' = listed \ {c}
                  /\ UNCHANGED <<in, opped, seek, hub, net, hop, held, vouched, deaf, failed, lost>>
HelperRead(c) == /\ c \notin listed /\ listed' = listed \cup {c}
                 /\ UNCHANGED <<in, opped, seek, hub, net, hop, held, vouched, deaf, failed, events, lost>>

\* An admin changes the records that authorise the seeker, or its hostmask
\* no longer fits them.
Records == /\ Bitch # {} /\ Event /\ vouched' = ~vouched
           /\ UNCHANGED <<in, opped, seek, hub, net, hop, listed, held, deaf, failed, lost>>

---------------------------------------------------------------------------
Tick == /\ ToRead = {} /\ asking = {} /\ listed = Chan
        /\ IF net = {} THEN UNCHANGED lost ELSE Loss
        /\ who' = [c \in Chan |-> Aged(who[c], Refresh)]
        /\ req' = [c \in Chan |-> Aged(req[c], Reset)]
        /\ failed' = [c \in Chan |-> IF c \notin Seeking THEN NotFailed
                                     ELSE IF failed[c] = NotFailed THEN NotFailed
                                     ELSE Min({failed[c] + 1, TooLate})]
        /\ sent' = FALSE /\ held' = {}
        /\ UNCHANGED <<in, opped, roster, asking, wait, tries, hub, net, hop, listed, vouched, deaf, events>>

Lose(m) == /\ m \in net /\ Loss /\ net' = net \ {m}
           /\ UNCHANGED <<in, opped, seek, hub, helper, failed, events>>

Handle(m) == OpFailed(m) \/ HubPasses(m) \/ OpGrant(m) \/ ChanDo(m) \/ OpMe(m)

Next == \/ CheckOps \/ Tick \/ HubLink \/ Records
        \/ \E c \in Chan : \/ EndOfWho(c) \/ WhoLost(c) \/ Deopped(c) \/ Rejoined(c)
                           \/ HelperOpped(c) \/ HelperDeopped(c) \/ HelperReads(c) \/ HelperRead(c)
        \/ \E m \in net : Handle(m) \/ HubRefuses(m) \/ Lose(m)

Spec == Init /\ [][Next]_vars

\* The bots' loops run, the server answers, and a message that is neither
\* lost nor late arrives.
FairSpec == /\ Spec /\ WF_vars(CheckOps) /\ WF_vars(Tick)
            /\ \A c \in Chan : /\ WF_vars(EndOfWho(c)) /\ WF_vars(HelperRead(c))
                               /\ WF_vars(\E m \in net : m.c = c /\ Handle(m))

---------------------------------------------------------------------------
(* Properties.                                                             *)

\* Every variable keeps its shape; the attempts stay within their bound.
TypeOK == /\ {in, opped, roster, asking, wait, hop, listed, held, deaf} \subseteq SUBSET Chan
          /\ who \in [Chan -> 0..Refresh + 1] /\ req \in [Chan -> 0..Reset + 1]
          /\ tries \in [Chan -> 0..MaxTries] /\ {sent, hub, vouched} \subseteq BOOLEAN
          /\ net \subseteq [t : {"request", "grant", "do", "failed", "opme"}, c : Chan]
          /\ failed \in [Chan -> 0..NotFailed]

\* check_joins, on_end_of_who: a bot that has a willing op in its channel
\* gets ops, whatever was lost or refused, however often the helper had no
\* ops, or did not vouch for it, when it was asked, and whatever the other
\* channels ask for.  Under +bitch willing means that its records vouch for
\* the bot.
GetsOps == \A c \in Chan :
    <>[](c \in hop \ deaf /\ (c \in Bitch => vouched)) => []<>(c \in opped)

\* grant_held_ops, CMD_OP_GRANT: no grant stays held past the helper's own
\* +o, from where it could be given much later.
HoldsEnd == held \cap hop = {}

\* grant_held_ops: "grant the OP_GRANTs held while we had none, for nicks
\* still in the channel and not opped".  Some are dropped (README, section 5);
\* no run checks it.
HeldHonoured == [][\A c \in (hop' \ hop) \cap held \cap Seeking : c \in opped']_vars

\* CMD_OP_FAILED: "Clear pending so the channel manager retries in ~30 s".  It
\* does so later (README, section 5); no run checks it.
RetriedSoon == \A c \in Chan : failed[c] # NotFailed => failed[c] <= Backdate + 1
=============================================================================
