-------------------------------- MODULE Chat --------------------------------
(***************************************************************************)
(* The admins' DCC chats (src/dcc.rs) and the listings that wait for the   *)
(* hub's times (the activity queries of src/commands.rs).                  *)
(*                                                                         *)
(* A chat has one of a few slots.  The same admin's next request replaces  *)
(* it, and the slot may go to another chat while a listing asked for in    *)
(* the first is still parked.                                              *)
(*                                                                         *)
(* A frame opens or does not (module Sealed): a line is the command it     *)
(* seals, "junk" if it does not open under the key of the chat's owner.    *)
(* dcc_token is random: it is the number of the offer here.  The poll      *)
(* token's generation drops the events of a socket that is gone, so an     *)
(* event is always one of the slot's present socket.                       *)
(***************************************************************************)
EXTENDS Integers, FiniteSets, FiniteSetsExt

CONSTANTS
    User,             \* users with a record, by nick!user@host
    Slots,            \* DCC_MAX_SESSIONS
    MaxParked,        \* MAX_ACTIVITY_QUERIES
    OfferTimeout,     \* DCC_OFFER_TIMEOUT, in rounds of the loop
    ConnectTimeout,   \* DCC_CONNECT_TIMEOUT
    IdleTimeout,      \* DCC_IDLE_TIMEOUT
    QueryTimeout,     \* ACTIVITY_QUERY_TIMEOUT
    MaxOffers,        \* bound: offers
    MaxQueries,       \* bound: listings asked for
    MaxEvents,        \* bound: hub links lost or made, promotions, restarts
    None              \* no slot, no user

VARIABLES
    dcc,      \* dcc[i]: state.dcc[i]
    parked,   \* state.activity_queries
    admins,   \* users whose record is of type a
    hub,      \* the hub link is authenticated
    wire,     \* queries the hub has yet to answer
    offers,   \* offers made
    asked,    \* history: who asked for each listing, in which chat
    answers,  \* history: who got each listing, in which chat
    got,      \* history: how often each listing was answered; 2 is more than once
    events    \* bound: events so far

vars == <<dcc, parked, admins, hub, wire, offers, asked, answers, got, events>>

Slot == 0..Slots - 1
Query == 1..MaxQueries
Phase == {"free", "offered", "connecting", "open"}

ASSUME ChatAssumption == None \notin User /\ None \notin Slot

\* DccSession::default; id is dcc_token, age the time since phase_since or
\* last_active.
Free == [phase |-> "free", user |-> None, id |-> 0, age |-> 0, failed |-> FALSE]

Init == /\ dcc = [i \in Slot |-> Free] /\ parked = {}
        /\ admins = User /\ hub \in BOOLEAN /\ wire = {} /\ offers = 0
        /\ asked = {} /\ answers = {} /\ got = [q \in Query |-> 0] /\ events = 0

---------------------------------------------------------------------------
(* Chats                                                                   *)

\* Mutant: only an open chat is replaced.
ReplacedOpen(u) == [i \in Slot |->
    IF dcc[i].phase = "open" /\ dcc[i].user = u THEN Free ELSE dcc[i]]

\* One chat per user: a new request replaces any earlier one.
Replaced(u) == [i \in Slot |->
    IF dcc[i].phase # "free" /\ dcc[i].user = u THEN Free ELSE dcc[i]]

NewOffer(u) == [phase |-> "offered", user |-> u, id |-> offers + 1, age |-> 0,
                failed |-> FALSE]

\* offer: the first free slot is offered, if there is one.
Offered(u) == LET d == Replaced(u)
                  F == {i \in Slot : d[i].phase = "free"} IN
    IF F = {} THEN d
    ELSE [d EXCEPT ![Min(F)] = NewOffer(u)]

offer(u) == /\ dcc' = Offered(u)
            /\ offers' = IF \E i \in Slot : dcc'[i].id = offers + 1 THEN offers + 1 ELSE offers

\* The command dcc, over PRIVMSG.
AskChat(u) == /\ u \in admins /\ offers < MaxOffers
              /\ offer(u)
              /\ UNCHANGED <<parked, admins, hub, wire, asked, answers, got, events>>

\* handle_ctcp: the client's reply to the offer; its address is refused or
\* the connect fails at once (give_up), or the connect is under way.
HandleCtcp(i) == /\ dcc[i].phase = "offered"
                 /\ dcc' \in {[dcc EXCEPT ![i] = Free],
                              [dcc EXCEPT ![i].phase = "connecting", ![i].age = 0]}
                 /\ UNCHANGED <<parked, admins, hub, wire, offers, asked, answers, got, events>>

\* on_connect: refused, or open and greeted; the greeting may meet an error.
OnConnect(i) == /\ dcc[i].phase = "connecting"
                /\ dcc' \in {[dcc EXCEPT ![i] = Free]} \cup
                            {[dcc EXCEPT ![i].phase = "open", ![i].age = 0, ![i].failed = b] :
                                 b \in BOOLEAN}
                /\ UNCHANGED <<parked, admins, hub, wire, offers, asked, answers, got, events>>

\* handle_event, on a chat that failed; the lines that arrive are below.
HandleEvent(i) == /\ dcc[i].phase = "open" /\ dcc[i].failed
                  /\ dcc' = [dcc EXCEPT ![i] = Free]
                  /\ UNCHANGED <<parked, admins, hub, wire, offers, asked, answers, got, events>>

---------------------------------------------------------------------------
(* Listings                                                                *)

\* Mutant: any open chat in the slot will do.
DccGoneAny(q) == q.slot # None /\ dcc[q.slot].phase # "open"

\* The chat the listing was asked for in has closed since.
DccGone(q) == q.slot # None /\ (dcc[q.slot].phase # "open" \/ dcc[q.slot].id # q.id)

\* activity_finish for the queries Q: where their replies go (divert_reply).
Receiver(q) == [q |-> q.q, user |-> IF q.slot = None THEN q.user ELSE dcc[q.slot].user,
                id |-> IF q.slot = None THEN 0 ELSE dcc[q.slot].id]
Finished(Q) == {q \in Q : ~DccGone(q)}
activity_finish(Q) ==
    /\ answers' = answers \cup {Receiver(q) : q \in Finished(Q)}
    /\ got' = [k \in Query |->
                 IF got[k] < 2 /\ \E q \in Finished(Q) : q.q = k THEN got[k] + 1 ELSE got[k]]

\* activity_park: the hub can be asked and there is room.
MayPark == hub /\ Cardinality(parked) < MaxParked

\* activity_run: parked, or answered at once from local times: the hub cannot
\* be asked, or has nothing to add.
Listing(u, i, id) == LET k == Cardinality(asked) + 1
                         q == [q |-> k, user |-> u, slot |-> i, id |-> id, age |-> 0] IN
    /\ k \in Query
    /\ asked' = asked \cup {[q |-> k, user |-> u, id |-> id]}
    /\ \/ /\ MayPark
          /\ parked' = parked \cup {q} /\ wire' = wire \cup {k}
          /\ UNCHANGED <<answers, got>>
       \/ activity_finish({q}) /\ UNCHANGED <<parked, wire>>

\* admins, opers or match over PRIVMSG.
AskListing(u) == /\ Listing(u, None, 0)
                 /\ UNCHANGED <<dcc, admins, hub, offers, events>>

\* Mutant: every part is answered, the last one takes the command off the list.
AnsweredEach(q, more) == {p \in parked : p.q = q}

\* Mutant: the last part takes the command off the list unanswered.
AnsweredWhole(q, more) == {}

\* activity_reply: the command is answered with the last part.
Answered(q, more) == IF more THEN {} ELSE {p \in parked : p.q = q}

ActivityReply(q, more) == /\ q \in wire
                          /\ wire' = IF more THEN wire ELSE wire \ {q}
                          /\ parked' = IF more THEN parked ELSE {p \in parked : p.q # q}
                          /\ activity_finish(Answered(q, more))
                          /\ UNCHANGED <<dcc, admins, hub, offers, asked, events>>

---------------------------------------------------------------------------
(* Lines of a chat (read, handle_dcc_line); one read runs several in turn. *)

Readable(i) == dcc[i].phase = "open" /\ ~dcc[i].failed

\* The client closed, or the line is no sealed command of the owner, or the
\* owner is no admin any more.
ReadEnd(i) == /\ Readable(i) /\ dcc' = [dcc EXCEPT ![i] = Free]
              /\ UNCHANGED <<parked, admins, hub, wire, offers, asked, answers, got, events>>

\* A listing, with the chat as its context.
ReadListing(i) == /\ Readable(i) /\ dcc[i].user \in admins
                  /\ Listing(dcc[i].user, i, dcc[i].id)
                  /\ dcc' = [dcc EXCEPT ![i].age = 0]
                  /\ UNCHANGED <<admins, hub, offers, events>>

\* Any other command; a second dcc is refused in a chat.  Its replies may
\* meet an error or fill the buffer.
ReadOther(i) == /\ Readable(i) /\ dcc[i].user \in admins
                /\ \E b \in BOOLEAN : dcc' = [dcc EXCEPT ![i].age = 0, ![i].failed = b]
                /\ UNCHANGED <<parked, admins, hub, wire, offers, asked, answers, got, events>>

---------------------------------------------------------------------------
(* The round of the main loop: activity_tick, then check_timeouts.         *)

\* Mutant: an answer is waited for as long as the hub link is up.
OverdueOffline == IF hub THEN {} ELSE {q \in parked : q.age + 1 >= QueryTimeout}

Overdue == {q \in parked : q.age + 1 >= QueryTimeout}

\* Mutant: a connect that hangs is left to the operating system.
TimedOutOpen(s) == \/ s.phase = "offered" /\ s.age + 1 > OfferTimeout
                   \/ s.phase = "open" /\ s.age + 1 > IdleTimeout

TimedOut(s) == \/ s.phase = "offered" /\ s.age + 1 > OfferTimeout
               \/ s.phase = "connecting" /\ s.age + 1 > ConnectTimeout
               \/ s.phase = "open" /\ s.age + 1 > IdleTimeout

\* Replies of activity_tick may fill a chat's buffer or meet an error.
Filled == {q.slot : q \in Finished(Overdue)} \ {None}

\* Ages stop growing at the last one that is told apart.
Older(r, last) == [r EXCEPT !.age = IF @ < last THEN @ + 1 ELSE @]
LastAge == Max({OfferTimeout, ConnectTimeout, IdleTimeout})

Tick == /\ activity_finish(Overdue)
        /\ parked' = {Older(q, QueryTimeout - 1) : q \in parked \ Overdue}
        /\ \E F \in SUBSET Filled : dcc' = [i \in Slot |->
              IF TimedOut(dcc[i]) \/ dcc[i].failed \/ i \in F THEN Free
              ELSE IF dcc[i].phase = "free" THEN dcc[i] ELSE Older(dcc[i], LastAge)]
        /\ UNCHANGED <<admins, hub, wire, offers, asked, events>>

---------------------------------------------------------------------------
Event == events < MaxEvents /\ events' = events + 1

\* The hub link goes, with the answers under way, or is back.
HubLink == /\ Event /\ hub' = ~hub /\ wire' = {}
           /\ UNCHANGED <<dcc, parked, admins, offers, asked, answers, got>>

\* An admin's record is demoted or promoted.
Demote(u) == /\ Event /\ admins' = IF u \in admins THEN admins \ {u} ELSE admins \cup {u}
             /\ UNCHANGED <<dcc, parked, hub, wire, offers, asked, answers, got>>

\* close_all: the process ends or is replaced; what was parked goes with it.
CloseAll == /\ Event /\ dcc' = [i \in Slot |-> Free] /\ parked' = {} /\ wire' = {}
            /\ hub' = FALSE
            /\ UNCHANGED <<admins, offers, asked, answers, got>>

Next == \/ \E u \in User : AskChat(u) \/ AskListing(u) \/ Demote(u)
        \/ \E i \in Slot : \/ HandleCtcp(i) \/ OnConnect(i) \/ HandleEvent(i)
                          \/ ReadEnd(i) \/ ReadListing(i) \/ ReadOther(i)
        \/ \E q \in Query, more \in BOOLEAN : ActivityReply(q, more)
        \/ Tick \/ HubLink \/ CloseAll

Spec == Init /\ [][Next]_vars

\* The loop turns at least once a second.
FairSpec == Spec /\ WF_vars(Tick)

---------------------------------------------------------------------------
TypeOK == /\ dcc \in [Slot -> [phase : Phase, user : User \cup {None}, id : 0..MaxOffers,
                               failed : BOOLEAN, age : 0..LastAge]]
          /\ parked \subseteq [q : Query, user : User, slot : Slot \cup {None}, id : 0..MaxOffers,
                               age : 0..QueryTimeout - 1]
          /\ Cardinality(parked) <= MaxParked
          /\ got \in [Query -> 0..2]

\* dcc::offer: a user never has two chats, whatever phase the first is in and
\* however often it is asked for again.
OneChatPerUser == \A i, j \in Slot :
    dcc[i].phase # "free" /\ dcc[i].user = dcc[j].user => i = j

\* activity_finish: a listing goes to the user who asked for it, in the chat
\* it was asked for in, never to the next chat of the slot.
AnswersAsker == answers \subseteq asked

\* activity_reply, activity_tick: the hub's answer, in parts, late or never,
\* and the timeout never answer a command twice.
AnsweredOnce == \A q \in Query : got[q] <= 1

\* activity_park: a parked listing is not lost; it stays parked, is answered,
\* or its chat was closed before the answer came.
NoneForgotten == [][CloseAll \/ \A p \in parked :
    DccGone(p) \/ got'[p.q] > 0 \/ \E r \in parked' : r.q = p.q]_vars

\* activity_tick: with or without an answer of the hub, no listing stays
\* parked for ever.
NoneKept == \A q \in Query : []<>(\A p \in parked : p.q # q)

\* check_timeouts: no offer, connect or chat keeps its slot for ever, unless
\* its owner types commands for ever.
ChatsEnd == \A i \in Slot : <>[][~ReadOther(i)]_vars =>
    \A n \in 1..MaxOffers : dcc[i].id = n ~> dcc[i].id # n

---------------------------------------------------------------------------
(* Why the invariants hold: a session in use has an owner and a number of  *)
(* its own, and a parked listing knows the owner of its chat.              *)
Session == [phase : Phase, user : User \cup {None}, id : Nat, age : Nat,
            failed : BOOLEAN]

SessionSound(i) ==
    /\ dcc[i].phase = "free" => dcc[i].user = None /\ dcc[i].id = 0
    /\ dcc[i].phase # "free" => dcc[i].user \in User /\ dcc[i].id \in 1..offers

ParkedSound(p) ==
    /\ p \in [q : Query, user : User, slot : Slot \cup {None}, id : Nat, age : Nat]
    /\ [q |-> p.q, user |-> p.user, id |-> p.id] \in asked
    /\ \/ p.slot = None /\ p.id = 0
       \/ /\ p.slot \in Slot /\ p.id \in 1..offers
          /\ dcc[p.slot].id = p.id => dcc[p.slot].user = p.user

ChatInv == /\ dcc \in [Slot -> Session] /\ offers \in Nat
           /\ \A i \in Slot : SessionSound(i)
           /\ \A p \in parked : ParkedSound(p)
           /\ OneChatPerUser /\ AnswersAsker
=============================================================================
