-------------------------------- MODULE Nick --------------------------------
(***************************************************************************)
(* The bot's nick: the one it wants, the one it believes to have and the   *)
(* one the server knows it by.  Connecting, alternates, the reclaim in     *)
(* check_status (src/irc_client.rs), 001, NICK, 433/432/437                *)
(* (src/irc_parser.rs), givenick and chnick (src/commands.rs), SETNICK     *)
(* (src/bot_comms.rs).  The server is external: it answers each NICK in    *)
(* the order it gets them and may rename the bot itself.                   *)
(*                                                                         *)
(* A nick is a pair <<t, k>>: t itself (k = 0) or its k-th alternate.      *)
(***************************************************************************)
EXTENDS Integers, Sequences, FiniteSets

CONSTANTS
    Target,     \* the nicks a bot may be told to use
    NAlt,       \* alternates generate_new_nick makes of a target (13)
    Takeable,   \* nicks other users may hold
    Invalid,    \* targets this server refuses as erroneous (432)
    Renames,    \* nicks the server may force on the bot
    Givenick,   \* is the givenick command used?
    Budget,     \* bound: lost links, renames, givenicks, chnicks, all together
    MaxMsgs     \* bound: NICKs and answers under way when another NICK is sent

Nicks == Target \X (0..NAlt)
Own(t) == <<t, 0>>
NoNick == <<"none", 0>>

ASSUME NickAssumption ==
    /\ IsFiniteSet(Target) /\ Target # {} /\ "none" \notin Target /\ NAlt \in Nat
    /\ Takeable \subseteq Nicks /\ Invalid \subseteq Target /\ Renames \subseteq Nicks
    /\ Givenick \in BOOLEAN /\ Budget \in Nat /\ MaxMsgs \in Nat \ {0}

VARIABLES
    target,    \* state.target_nick
    current,   \* state.current_nick
    attempt,   \* state.nick_generation_attempt
    refused,   \* state.nick_refused: a target or "none"
    released,  \* NICK_TAKE_TIME since givenick has not passed
    phase,     \* "off", "registering" (connected), "authed" (001 received)
    actual,    \* the nick the server has for the bot; NoNick before 001
    taken,     \* nicks other users hold
    toServer,  \* NICK lines under way
    toBot,     \* answers under way
    left       \* what is left of Budget

botVars == <<target, current, attempt, refused, released, phase>>
netVars == <<toServer, toBot>>
vars == <<target, current, attempt, refused, released, phase, actual, taken, toServer,
          toBot, left>>

Msg == [type : {"001", "433", "432"}, nick : Nicks]
       \cup [type : {"NICK"}, old : Nicks, nick : Nicks]

Init == /\ target \in Target /\ current = Own(target)
        /\ attempt = 0 /\ refused = "none" /\ released = FALSE
        /\ phase = "off" /\ actual = NoNick
        /\ taken \in SUBSET Takeable
        /\ toServer = <<>> /\ toBot = <<>> /\ left = Budget

Spend == left > 0 /\ left' = left - 1

\* connect: NICK (and USER) with the target.
connect == /\ phase = "off"
           /\ phase' = "registering"
           /\ current' = Own(target) /\ refused' = "none"
           /\ toServer' = <<Own(target)>>
           /\ UNCHANGED <<target, attempt, released, actual, taken, toBot, left>>

\* disconnect, the registration watchdog included.
Lost == /\ phase # "off"
        /\ IF phase = "authed" THEN Spend ELSE UNCHANGED left
        /\ phase' = "off" /\ actual' = NoNick /\ toServer' = <<>> /\ toBot' = <<>>
        /\ UNCHANGED <<target, current, attempt, refused, released, taken>>

\* generate_new_nick: the next alternate is assumed and asked for; past the
\* last one the count starts over and nothing is sent.
generate_new_nick == IF attempt < NAlt
                     THEN /\ current' = <<target, attempt + 1>> /\ attempt' = attempt + 1
                          /\ toServer' = Append(toServer, current')
                     ELSE attempt' = 0 /\ UNCHANGED <<current, toServer>>

\* check_status: ask for the target again, once the hold of a givenick is over.
Reclaim == /\ phase = "authed"
           /\ current # Own(target) /\ refused # target /\ ~released
           /\ Len(toServer) + Len(toBot) < MaxMsgs
           /\ toServer' = Append(toServer, Own(target))
           /\ UNCHANGED <<botVars, actual, taken, toBot, left>>

ReleaseOver == /\ released /\ released' = FALSE
               /\ UNCHANGED <<target, current, attempt, refused, phase, actual, taken,
                              netVars, left>>

givenick == /\ Givenick /\ phase = "authed" /\ Spend /\ Len(toServer) + Len(toBot) < MaxMsgs
            /\ generate_new_nick
            /\ released' = TRUE
            /\ UNCHANGED <<target, refused, phase, actual, taken, toBot>>

\* chnick, or SETNICK from another bot.
chnick(t) == /\ phase = "authed" /\ t # target /\ Spend
             /\ target' = t
             /\ UNCHANGED <<current, attempt, refused, released, phase, actual, taken, netVars>>

---------------------------------------------------------------------------
\* Lines from the server.

Receive(type) == toBot # <<>> /\ Head(toBot).type = type /\ toBot' = Tail(toBot)

on_welcome == /\ Receive("001")
              /\ phase' = "authed" /\ current' = Head(toBot).nick
              /\ UNCHANGED <<target, attempt, refused, released, actual, taken, toServer, left>>

\* Mutant: every NICK line is taken for the bot's own.
IsMineAlways == TRUE
IsMine == Head(toBot).old = current

on_nick == /\ Receive("NICK")
           /\ current' = IF IsMine THEN Head(toBot).nick ELSE current
           /\ attempt' = IF IsMine /\ Head(toBot).nick = Own(target) THEN 0 ELSE attempt
           /\ UNCHANGED <<target, refused, released, phase, actual, taken, toServer, left>>

\* Mutant: a 433 is as final as a 432.
FinalAny(m) == m.nick = Own(target)

\* 432 is final for the target; before 001 another nick is tried.
Final(m) == m.type = "432" /\ m.nick = Own(target)
on_nick_refused ==
    /\ Receive("433") \/ Receive("432")
    /\ refused' = IF Final(Head(toBot)) THEN target ELSE refused
    /\ IF phase = "authed" THEN UNCHANGED <<current, attempt, toServer>> ELSE generate_new_nick
    /\ UNCHANGED <<target, released, phase, actual, taken, left>>

---------------------------------------------------------------------------
\* The server and the other users (external).

\* The server handles a NICK of the bot.  One for the nick it already has
\* gets no answer.
Answer(m) == toBot' = Append(toBot, m)
ServerNick ==
    /\ toServer # <<>> /\ toServer' = Tail(toServer)
    /\ LET n == Head(toServer)
       IN  \/ n[1] \in Invalid /\ n[2] = 0 /\ Answer([type |-> "432", nick |-> n])
              /\ UNCHANGED actual
           \/ /\ ~(n[1] \in Invalid /\ n[2] = 0) /\ n \in taken
              /\ Answer([type |-> "433", nick |-> n]) /\ UNCHANGED actual
           \/ /\ ~(n[1] \in Invalid /\ n[2] = 0) /\ n \notin taken
              /\ actual' = n
              /\ IF actual = NoNick THEN Answer([type |-> "001", nick |-> n])
                 ELSE IF actual = n THEN UNCHANGED toBot
                 ELSE Answer([type |-> "NICK", old |-> actual, nick |-> n])
    /\ UNCHANGED <<botVars, taken, left>>

ServerRenames(n) == /\ actual # NoNick /\ n # actual /\ n \notin taken /\ Spend
                    /\ actual' = n
                    /\ Answer([type |-> "NICK", old |-> actual, nick |-> n])
                    /\ UNCHANGED <<botVars, taken, toServer>>

OtherTakes(n) == /\ n \notin taken /\ n # actual
                 /\ taken' = taken \cup {n}
                 /\ UNCHANGED <<botVars, actual, netVars, left>>
OtherLeaves(n) == /\ n \in taken /\ taken' = taken \ {n}
                  /\ UNCHANGED <<botVars, actual, netVars, left>>

\* Another user on a channel of the bot changes his nick.
OtherRenames(o, n) == /\ actual # NoNick /\ o \in taken /\ n \notin taken \cup {actual} /\ Spend
                      /\ taken' = (taken \ {o}) \cup {n}
                      /\ Answer([type |-> "NICK", old |-> o, nick |-> n])
                      /\ UNCHANGED <<botVars, actual, toServer>>

Next == \/ connect \/ Lost \/ Reclaim \/ ReleaseOver \/ givenick
        \/ \E t \in Target : chnick(t)
        \/ on_welcome \/ on_nick \/ on_nick_refused
        \/ ServerNick \/ \E n \in Renames : ServerRenames(n)
        \/ \E n \in Takeable : OtherTakes(n) \/ OtherLeaves(n)
        \/ \E o, n \in Takeable : OtherRenames(o, n)

Spec == Init /\ [][Next]_vars

\* The loop turns, and both sides handle what they are sent.
Fairness == /\ WF_vars(connect) /\ WF_vars(Reclaim) /\ WF_vars(ReleaseOver)
            /\ WF_vars(ServerNick) /\ WF_vars(on_welcome \/ on_nick \/ on_nick_refused)
FairSpec == Spec /\ Fairness

---------------------------------------------------------------------------
\* The bot's nick is always one it was given or an alternate it can make.
TypeOK == /\ target \in Target /\ current \in Nicks
          /\ attempt \in 0..NAlt /\ refused \in Target \cup {"none"}
          /\ released \in BOOLEAN /\ phase \in {"off", "registering", "authed"}
          /\ actual \in Nicks \cup {NoNick} /\ taken \subseteq Takeable
          /\ toServer \in Seq(Nicks) /\ toBot \in Seq(Msg)
          /\ left \in 0..Budget

\* The bot answers commands sent to current_nick and recognises itself in
\* JOIN, KICK, MODE and WHO by it: once every NICK is answered it is the
\* nick the server has, however requests, refusals and renames crossed.
NickKnown == phase = "authed" /\ toServer = <<>> /\ toBot = <<>> => current = actual

\* "Will try to regain primary nick after 20 seconds until it accomplishes
\* the task": a registered bot whose target stays free and valid has it.
Free == phase = "authed" /\ Own(target) \notin taken /\ target \notin Invalid
RegainsNick == (<>[]Free) => <>[](current = Own(target) /\ actual = Own(target))
=============================================================================
