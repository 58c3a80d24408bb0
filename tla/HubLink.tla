------------------------------ MODULE HubLink ------------------------------
(***************************************************************************)
(* The link to the hub (src/hub_client.rs): dialling, the v2 handshake,    *)
(* the watchdog of check_status (src/irc_client.rs), the hub list and the  *)
(* rotation of the bot's identity key (src/commands.rs).  The hub is       *)
(* external: it challenges whoever names a bot, accepts a signature made   *)
(* with the key registered for it, and registers a new key sent on an      *)
(* authenticated link.                                                     *)
(*                                                                         *)
(* Identity keys are numbered.  The session key is left to two facts: that *)
(* it was derived from a challenge of this link (keyed), and whether the   *)
(* hub's signature on that challenge was checked (verified, a history).    *)
(***************************************************************************)
EXTENDS Integers, Sequences, FiniteSets, SequencesExt

CONSTANTS
    Hub,       \* hub addresses
    Pinned,    \* those configured with a pinned key
    Delay,     \* HUB_RECONNECT_DELAY
    HoldOff,   \* the longer wait after picking a hub that is not pinned
    Zombie,    \* 120 s of the watchdog
    MaxKey,    \* bound: identity keys
    Budget,    \* bound: hub list changes and restarts, all together
    Loss,      \* may frames under way be lost when the link is closed?
    Kill       \* may the process be killed within rekey?

ASSUME HubLinkAssumption ==
    /\ IsFiniteSet(Hub) /\ Hub # {} /\ "none" \notin Hub /\ Pinned \subseteq Hub
    /\ \A c \in {Delay, HoldOff, Zombie, MaxKey} : c \in Nat \ {0}
    /\ Budget \in Nat /\ Loss \in BOOLEAN /\ Kill \in BOOLEAN

VARIABLES
    hubs,           \* state.hubs
    current_hub,    \* state.hub / current_hub; "none" without a socket
    auth,           \* state.hub_auth_state; "Complete" iff hub_authenticated
    keyed,          \* state.hub_session_key is set
    sinceAttempt,   \* now - last_hub_connect_attempt
    sinceActivity,  \* now - last_hub_activity, counted from the dial before the ACK
    myKey,          \* state.hub_key
    diskKey,        \* hub_key in the config file
    pc,             \* "idle", or "rekey": the new key is pushed but not saved
    regKey,         \* the key the hub has for this bot (external)
    toHub, toBot,   \* frames under way
    verified,       \* history: the hub's signature was checked on this link
    left            \* what is left of Budget

linkVars == <<current_hub, auth, keyed, verified, sinceActivity, toBot>>
keyVars == <<myKey, diskKey, regKey>>
vars == <<hubs, current_hub, auth, keyed, sinceAttempt, sinceActivity, myKey, diskKey, pc,
          regKey, toHub, toBot, verified, left>>

Smaller(a, b) == IF a < b THEN a ELSE b
Spend == left > 0 /\ left' = left - 1

\* Frames to the hub: the bot's name, a signature by key k, the new key k.
Frame(t, k) == [type |-> t, key |-> k]

Init == /\ hubs \in SUBSET Hub
        /\ current_hub = "none" /\ auth = "None" /\ keyed = FALSE /\ verified = FALSE
        /\ sinceAttempt = Delay /\ sinceActivity = 0
        /\ myKey = 1 /\ diskKey = 1 /\ regKey = 1 /\ pc = "idle"
        /\ toHub = <<>> /\ toBot = <<>> /\ left = Budget

---------------------------------------------------------------------------
\* The link is closed.  Of the frames under way the hub still gets the first
\* n (all of them, unless they can be lost); they may register a new key.
Registers(fs) == {i \in 1..Len(fs) : fs[i].type = "pub"}
LastKey(fs) == IF Registers(fs) = {} THEN regKey
               ELSE fs[CHOOSE i \in Registers(fs) : \A j \in Registers(fs) : j <= i].key
Flushed(fs) == \E n \in (IF Loss THEN 0 ELSE Len(fs))..Len(fs) :
                  regKey' = LastKey(SubSeq(fs, 1, n))

NoLink == /\ current_hub' = "none" /\ auth' = "None" /\ keyed' = FALSE /\ verified' = FALSE
          /\ sinceActivity' = 0 /\ toBot' = <<>>

\* disconnect: an error, end of file, an answer that does not verify.
disconnect == Flushed(toHub) /\ NoLink /\ toHub' = <<>> /\ sinceAttempt' = 0

\* A dial of hub h, made now: it is connected and named the bot, or failed.
\* A hub without a pinned key is never dialled.
Dials(h) == IF h \notin Pinned
            THEN NoLink /\ toHub' = <<>> /\ sinceAttempt' = -HoldOff
            ELSE /\ sinceAttempt' = 0
                 /\ \/ NoLink /\ toHub' = <<>>
                    \/ /\ current_hub' = h /\ auth' = "SentUuid"
                       /\ keyed' = FALSE /\ verified' = FALSE /\ sinceActivity' = 0
                       /\ toHub' = <<Frame("uuid", 0)>> /\ toBot' = <<>>

connect == /\ pc = "idle" /\ current_hub = "none" /\ sinceAttempt >= Delay
           /\ \E h \in hubs : Dials(h)
           /\ UNCHANGED <<hubs, keyVars, pc, left>>

---------------------------------------------------------------------------
\* Frames from the hub.

Receive(type) == /\ pc = "idle" /\ current_hub # "none"
                 /\ toBot # <<>> /\ Head(toBot) = type
Answered(f) == toHub' = Append(toHub, f) /\ toBot' = Tail(toBot)

\* Mutant: the hub's signature is not checked.
SignatureAny(f) == f \in {"challenge", "forged"}

\* Mutant: it is checked with the bot's own key; nobody signs with that.
SignatureOwnKey(f) == f = "own"

SignatureOK(f) == f = "challenge"
handle_challenge ==
    /\ \E t \in {"challenge", "forged"} : Receive(t)
    /\ auth = "SentUuid"
    /\ IF SignatureOK(Head(toBot))
       THEN /\ auth' = "SentSignature" /\ keyed' = TRUE
            /\ verified' = (Head(toBot) = "challenge")
            /\ Answered(Frame("sig", myKey))
            /\ sinceActivity' = 0
            /\ UNCHANGED <<current_hub, sinceAttempt, regKey>>
       ELSE disconnect
    /\ UNCHANGED <<hubs, myKey, diskKey, pc, left>>

\* The ACK is sealed with the session key.
handle_ack ==
    /\ Receive("ack") /\ auth = "SentSignature"
    /\ auth' = "Complete" /\ sinceActivity' = 0 /\ toBot' = Tail(toBot)
    /\ UNCHANGED <<hubs, current_hub, keyed, verified, sinceAttempt, keyVars, pc, toHub, left>>

\* Anything else the hub sends on an authenticated link.
HandleData ==
    /\ Receive("data") /\ auth = "Complete"
    /\ sinceActivity' = 0 /\ toBot' = Tail(toBot)
    /\ UNCHANGED <<hubs, current_hub, auth, keyed, verified, sinceAttempt, keyVars, pc, toHub,
                   left>>

\* End of file or an error on the socket.
Lost == /\ pc = "idle" /\ current_hub # "none"
        /\ disconnect
        /\ UNCHANGED <<hubs, myKey, diskKey, pc, left>>

\* check_status: the watchdog; drop_link does not count as an attempt.
ZombieLink == current_hub # "none" /\ auth = "Complete" /\ sinceActivity > Zombie
Watchdog == /\ pc = "idle" /\ ZombieLink
            /\ Flushed(toHub) /\ NoLink /\ toHub' = <<>>
            /\ UNCHANGED <<hubs, myKey, diskKey, pc, sinceAttempt, left>>

---------------------------------------------------------------------------
\* Commands.

\* +hub: without a link the bot dials at once, whichever hub it picks.
cmd_add_hub(h) ==
    /\ pc = "idle" /\ h \notin hubs /\ h \in Pinned /\ Spend
    /\ hubs' = hubs \cup {h}
    /\ IF current_hub = "none" THEN \E g \in hubs' : Dials(g)
                               ELSE UNCHANGED <<linkVars, sinceAttempt, toHub>>
    /\ UNCHANGED <<keyVars, pc>>

\* -hub: the link to that hub is dropped and another hub dialled.
cmd_del_hub(h) ==
    /\ pc = "idle" /\ h \in hubs /\ Spend
    /\ hubs' = hubs \ {h}
    /\ IF current_hub # h THEN UNCHANGED <<linkVars, sinceAttempt, toHub, regKey>>
       ELSE IF hubs' = {} THEN disconnect
       ELSE Flushed(toHub) /\ \E g \in hubs' : Dials(g)
    /\ UNCHANGED <<myKey, diskKey, pc>>

\* rekey: the new public key is pushed on the old session ...
RekeyPush == /\ pc = "idle" /\ auth = "Complete" /\ hubs # {} /\ myKey < MaxKey
             /\ toHub' = Append(toHub, Frame("pub", myKey + 1))
             /\ pc' = "rekey"
             /\ UNCHANGED <<hubs, linkVars, sinceAttempt, keyVars, left>>

\* ... then the new private key is saved, and the bot reconnects with it.
RekeySave == /\ pc = "rekey" /\ pc' = "idle"
             /\ myKey' = myKey + 1 /\ diskKey' = myKey + 1
             /\ Flushed(toHub) /\ \E g \in hubs : Dials(g)
             /\ UNCHANGED <<hubs, left>>

\* The process is killed and started again with the config file's key.
Restart == /\ Kill \/ pc = "idle"
           /\ Spend
           /\ pc' = "idle" /\ myKey' = diskKey
           /\ Flushed(toHub) /\ NoLink /\ toHub' = <<>> /\ sinceAttempt' = Delay
           /\ UNCHANGED <<hubs, diskKey>>

Tick == /\ pc = "idle" /\ ~ZombieLink
        /\ sinceAttempt' = Smaller(sinceAttempt + 1, Delay)
        /\ sinceActivity' = IF current_hub = "none" THEN 0 ELSE Smaller(sinceActivity + 1, Zombie + 1)
        /\ UNCHANGED <<hubs, current_hub, auth, keyed, verified, keyVars, pc, toHub, toBot, left>>

---------------------------------------------------------------------------
\* The hub (external).

\* It answers a name with its challenge, a good signature with the ACK (it
\* closes the link of a bad one), and registers a new key.
HubAnswers ==
    /\ current_hub # "none" /\ toHub # <<>>
    /\ LET f == Head(toHub)
       IN  \/ /\ f.type = "uuid" /\ toBot' = Append(toBot, "challenge")
              /\ toHub' = Tail(toHub) /\ regKey' = regKey
              /\ UNCHANGED <<current_hub, auth, keyed, verified, sinceActivity, sinceAttempt>>
           \/ /\ f.type = "sig" /\ f.key = regKey /\ toBot' = Append(toBot, "ack")
              /\ toHub' = Tail(toHub) /\ regKey' = regKey
              /\ UNCHANGED <<current_hub, auth, keyed, verified, sinceActivity, sinceAttempt>>
           \/ f.type = "sig" /\ f.key # regKey /\ pc = "idle" /\ disconnect
           \/ /\ f.type = "pub" /\ regKey' = f.key /\ toHub' = Tail(toHub)
              /\ UNCHANGED <<linkVars, sinceAttempt>>
    /\ UNCHANGED <<hubs, myKey, diskKey, pc, left>>

\* Something else listens at the hub's address.
Forge == /\ current_hub # "none" /\ auth = "SentUuid" /\ toBot = <<>>
         /\ toBot' = <<"forged">>
         /\ toHub' = <<>>
         /\ UNCHANGED <<hubs, current_hub, auth, keyed, verified, sinceAttempt, sinceActivity,
                        keyVars, pc, left>>

HubSends == /\ auth = "Complete" /\ toBot = <<>>
            /\ toBot' = <<"data">>
            /\ UNCHANGED <<hubs, current_hub, auth, keyed, verified, sinceAttempt, sinceActivity,
                           keyVars, pc, toHub, left>>

Next == \/ connect \/ handle_challenge \/ handle_ack \/ HandleData \/ Lost \/ Watchdog
        \/ \E h \in Hub : cmd_add_hub(h) \/ cmd_del_hub(h)
        \/ RekeyPush \/ RekeySave \/ Restart \/ Tick
        \/ HubAnswers \/ Forge \/ HubSends

Spec == Init /\ [][Next]_vars

\* The main loop turns: time passes, the watchdog looks, the bot dials, and
\* frames that arrive are handled.
BotFairness == /\ SF_vars(Tick) /\ WF_vars(Watchdog) /\ WF_vars(connect) /\ WF_vars(RekeySave)
               /\ WF_vars(handle_challenge \/ handle_ack \/ HandleData)
BotFairSpec == Spec /\ BotFairness

\* Besides, dials of a pinned hub succeed, the links last and the hub answers,
\* sometimes (strongly fair: whenever it could often enough).
FairSpec == /\ BotFairSpec
            /\ SF_vars(connect /\ current_hub' # "none")
            /\ SF_vars(auth = "SentUuid" /\ HubAnswers) /\ SF_vars(auth = "SentSignature" /\ HubAnswers)
            /\ SF_vars(handle_challenge /\ verified') /\ SF_vars(handle_ack)

---------------------------------------------------------------------------
Frames == {Frame("uuid", 0)} \cup {Frame(t, k) : t \in {"sig", "pub"}, k \in 1..MaxKey}

\* Every path that gives up the socket also resets the handshake state, and
\* none resets it on a socket it keeps.
TypeOK == /\ hubs \subseteq Hub /\ current_hub \in Hub \cup {"none"}
          /\ auth \in {"None", "SentUuid", "SentSignature", "Complete"}
          /\ auth = "None" <=> current_hub = "none"
          /\ {keyed, verified} \subseteq BOOLEAN
          /\ sinceAttempt \in -HoldOff..Delay /\ sinceActivity \in 0..Zombie + 1
          /\ {myKey, diskKey, regKey} \subseteq 1..MaxKey
          /\ pc \in {"idle", "rekey"} /\ left \in 0..Budget
          /\ toHub \in Seq(Frames) /\ toBot \in Seq({"challenge", "forged", "ack", "data"})

\* "Authenticate against this hub's own pinned key, or not at all": a link is
\* authenticated only with a listed, pinned hub whose signature was checked on
\* that very link, whatever links, rekeys and hub list changes came before.
AuthenticatedIsVerified ==
    auth = "Complete" => keyed /\ verified /\ current_hub \in Pinned \cap hubs

\* "The new PUBLIC key is pushed under the current (old-key) session first;
\* only if that succeeds is the new private key committed": the hub has the
\* bot's key, or the frame that registers it is on its way; otherwise the bot
\* could never authenticate again.
KeyRegistered ==
    pc = "idle" => \/ regKey = myKey
                   \/ \E i \in 1..Len(toHub) : toHub[i] = Frame("pub", myKey)

\* "A hub link with no PONG or data for 120 s has zombied": such a link is
\* dropped, so that the bot dials again.  A link that falls silent in its
\* handshake is not (README, section 5); no run checks it.
ZombieDropped ==
    (current_hub # "none" /\ sinceActivity > Zombie) ~> (current_hub = "none" \/ sinceActivity = 0)

\* With a hub that can be reached and answers, the bot authenticates, again and
\* again, whatever links were lost, keys changed and impostors met.
Authenticates == []<>(auth = "Complete" \/ hubs \cap Pinned = {})
=============================================================================
