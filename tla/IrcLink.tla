------------------------------ MODULE IrcLink ------------------------------
(***************************************************************************)
(* The life of the IRC link (src/irc_client.rs): which server is dialled,  *)
(* the holds put on servers that refuse the bot, registration and          *)
(* keepalive watchdogs, the commands that move the link or change the      *)
(* server list (src/commands.rs), and the main loop's end (src/main.rs).   *)
(*                                                                         *)
(* Times are distances (since an event, until a hold ends) that stop       *)
(* counting where the code no longer tells them apart.  check_status,      *)
(* the loop condition and Tick belong to the start of a round of the main  *)
(* loop, everything else to the handlers of one round: once die is set     *)
(* only what is left of the round happens.                                 *)
(***************************************************************************)
EXTENDS Integers, Sequences, FiniteSets, SequencesExt

CONSTANTS
    Server,           \* server names; server_list may hold one more than once
    InitList,         \* server_list of the config file
    Texts,            \* refusals servers send: sets of the words they contain
    Good,             \* servers that accept the bot whenever it dials them
    MaxCommands,      \* bound: jump, +server and -server commands
    MAX_SERVERS,
    MinInterval,      \* IRC_RECONNECT_MIN_INTERVAL
    RegisterTimeout,  \* IRC_REGISTER_TIMEOUT
    DeadTimeout,      \* DEAD_SERVER_TIMEOUT
    LagTimeout,       \* CHECK_LAG_TIMEOUT
    ThrottleBackoff, ThrottleMax,  \* IRC_THROTTLE_BACKOFF, _MAX
    BanBackoff, BanMax,            \* IRC_BAN_BACKOFF, _MAX
    Stated,           \* a length a temporary ban states, with IRC_BAN_GRACE
    MaxStrikes        \* 32 in the code

Larger(a, b) == IF a > b THEN a ELSE b
Smaller(a, b) == IF a < b THEN a ELSE b

Words == {"ban", "temporary", "permanent", "throttle", "quit"}
Kinds == {"none", "throttled", "temp", "banned", "perm"}

ASSUME IrcLinkAssumption ==
    /\ IsFiniteSet(Server) /\ "none" \notin Server /\ InitList \in Seq(Server) /\ InitList # <<>>
    /\ Len(InitList) <= MAX_SERVERS
    /\ Texts \subseteq SUBSET Words /\ Good \subseteq Server /\ MaxCommands \in Nat
    /\ \A c \in {MAX_SERVERS, MinInterval, RegisterTimeout, DeadTimeout, LagTimeout,
                 ThrottleBackoff, ThrottleMax, BanBackoff, BanMax, Stated, MaxStrikes} :
          c \in Nat \ {0}
    \* The count of strikes stops when every backoff has got to its cap.
    /\ ThrottleBackoff * 2 ^ (MaxStrikes - 1) >= Larger(ThrottleMax, BanMax)
    /\ BanBackoff * 2 ^ (MaxStrikes - 1) >= BanMax

VARIABLES
    server_list,  \* state.server_list
    entry,        \* history: which entry each of them is; a name may be listed twice
    blocks,       \* state.server_blocks
    cursor,       \* state.current_server_index, from 1
    slot,         \* state.irc_server_idx, from 1; 0 is None
    connected,    \* S_CONNECTED
    authed,       \* S_AUTHED
    die,          \* S_DIE
    running,      \* the main loop has not ended
    refusal,      \* words of state.irc_refusal
    refusal_ban,  \* state.irc_refusal_ban
    pong_pending, \* state.pong_pending
    sinceAttempt, \* now - last_irc_attempt
    sinceConn,    \* now - connection_time
    sincePong,    \* now - last_pong_time
    owed,         \* history: the hold each entry earned, and the ones it would earn next
    linkTo,       \* history: the entry of the current or last attempt; 0 is none
    told,         \* history: an admin was given his die
    commands      \* bound: commands given so far

listVars == <<server_list, entry, cursor>>
linkVars == <<connected, authed, die>>
refusalVars == <<refusal, refusal_ban>>
timeVars == <<sinceAttempt, sinceConn, sincePong>>
vars == <<server_list, entry, blocks, cursor, slot, connected, authed, die, running, refusal,
          refusal_ban, pong_pending, sinceAttempt, sinceConn, sincePong, owed, linkTo, told,
          commands>>

---------------------------------------------------------------------------
\* Refusals and the holds they cause.

NoBlock == [kind |-> "none", left |-> 0, strikes |-> 0]
Block == [kind : Kinds, left : 0..(Larger(BanMax, Stated)), strikes : 0..MaxStrikes]

refusal_classify(t, ban_numeric) ==
    IF ~ban_numeric /\ "quit" \in t THEN "none"
    ELSE IF ban_numeric \/ "ban" \in t
         THEN IF "temporary" \in t THEN "temp"
              ELSE IF "permanent" \in t THEN "perm" ELSE "banned"
         ELSE IF "throttle" \in t THEN "throttled" ELSE "none"

\* Mutant: doubles from the third strike on.
BackoffLate(base, strikes, cap) == Smaller(base * 2 ^ (Larger(strikes, 2) - 2), cap)

\* Doubling with each strike, up to the cap.
refusal_backoff(base, strikes, cap) == Smaller(base * 2 ^ (Larger(strikes, 1) - 1), cap)

HoldFor(kind, strikes) ==
    CASE kind = "throttled" -> refusal_backoff(ThrottleBackoff, strikes, ThrottleMax)
      [] kind = "banned"    -> refusal_backoff(BanBackoff, strikes, BanMax)
      [] kind = "temp"      -> Larger(Stated, refusal_backoff(ThrottleBackoff, strikes, BanMax))
      [] OTHER              -> 0

\* What a refusal of this kind makes of a server's block.
Struck(b, kind) == LET n == Smaller(b.strikes + 1, MaxStrikes)
                   IN  [kind |-> kind, left |-> HoldFor(kind, n), strikes |-> n]

\* A block that keeps a server from being dialled.
Holds(b) == b.kind = "perm" \/ (b.kind # "none" /\ b.left > 0)

\* What the header of irc_client.rs promises, kept beside the code's strikes: the
\* hold an entry earned, and how long the next refusal of each kind is to hold it.
Entry == 1..MAX_SERVERS
NextHolds == [throttled |-> Smaller(ThrottleBackoff, ThrottleMax),
              banned |-> Smaller(BanBackoff, BanMax), temp |-> Smaller(ThrottleBackoff, BanMax)]
Doubled(n) == [throttled |-> Smaller(2 * n.throttled, ThrottleMax),
               banned |-> Smaller(2 * n.banned, BanMax), temp |-> Smaller(2 * n.temp, BanMax)]
NothingOwed == [kind |-> "none", left |-> 0, next |-> NextHolds]
Refusing(o, kind) == [kind |-> kind, next |-> Doubled(o.next),
                      left |-> CASE kind = "throttled" -> o.next.throttled
                                 [] kind = "banned" -> o.next.banned
                                 [] kind = "temp" -> Larger(Stated, o.next.temp)
                                 [] OTHER -> 0]

\* apply_refusal: the tables of blocks, by slot (b) and by entry (o), once the
\* link has gone.
Refused == refusal # {} \/ refusal_ban
Kind == IF Refused THEN refusal_classify(refusal, refusal_ban) ELSE "none"
apply_refusal(b) == IF Kind # "none" /\ slot \in 1..Len(server_list)
                    THEN [b EXCEPT ![slot] = Struck(@, Kind)] ELSE b
ApplyByEntry(o) == IF Kind # "none" /\ linkTo # 0
                   THEN [o EXCEPT ![linkTo] = Refusing(@, Kind)] ELSE o

\* The server of the link's entry; "none" if that is listed no more.
LinkServer == IF linkTo = 0 THEN "none"
              ELSE server_list[CHOOSE i \in 1..Len(server_list) : entry[i] = linkTo]

\* disconnect, given the tables the caller leaves it.
LinkDown(b, o) == /\ blocks' = apply_refusal(b) /\ owed' = ApplyByEntry(o)
                  /\ refusal' = {} /\ refusal_ban' = FALSE
                  /\ connected' = FALSE /\ authed' = FALSE /\ die' = FALSE

---------------------------------------------------------------------------
Init == /\ server_list = InitList /\ entry = [i \in 1..Len(InitList) |-> i]
        /\ blocks = [i \in 1..MAX_SERVERS |-> NoBlock]
        /\ cursor = 1 /\ slot = 0
        /\ connected = FALSE /\ authed = FALSE /\ die = FALSE /\ running = TRUE
        /\ refusal = {} /\ refusal_ban = FALSE
        /\ pong_pending = FALSE
        /\ sinceAttempt = MinInterval /\ sinceConn = 0 /\ sincePong = 0
        /\ owed = [e \in Entry |-> NothingOwed] /\ linkTo = 0 /\ told = FALSE /\ commands = 0

\* Mutant: the search starts at the first server every time.
RotationFromStart == [k \in 1..Len(server_list) |-> k]

\* pick_server: the slots from the cursor on, wrapping, that are not held;
\* the first of them.
Rotation == LET n == Len(server_list)
                start == IF cursor <= n THEN cursor ELSE 1
            IN  [k \in 1..n |-> ((start + k - 2) % n) + 1]

FreeSlot(i) == ~Holds(blocks[i])
pick_server == LET free == {k \in 1..Len(server_list) : FreeSlot(Rotation[k])}
               IN  IF free = {} THEN 0 ELSE Rotation[Min(free)]

\* Start of a round, with the loop condition true.
Round == running /\ ~die

\* check_status, no link: connect.  Nothing at all happens when every server
\* is held.  The dial succeeds or fails.
Dial(s, ok) ==
    /\ Round /\ ~connected /\ sinceAttempt >= MinInterval
    /\ pick_server # 0 /\ server_list[pick_server] = s
    /\ slot' = pick_server /\ linkTo' = entry[pick_server] /\ cursor' = pick_server + 1
    /\ refusal' = {} /\ refusal_ban' = FALSE
    /\ sinceAttempt' = 0
    /\ IF ok THEN connected' = TRUE /\ pong_pending' = FALSE /\ sinceConn' = 0 /\ sincePong' = 0
             ELSE UNCHANGED <<connected, pong_pending, sinceConn, sincePong>>
    /\ UNCHANGED <<server_list, entry, blocks, authed, die, running, owed, told, commands>>

RegisterLate == ~authed /\ sinceConn > RegisterTimeout
ServerDead == sincePong > DeadTimeout

\* check_status, with a link: the registration watchdog, the dead server.
Watchdog == /\ Round /\ connected /\ (RegisterLate \/ ServerDead)
            /\ LinkDown(blocks, owed)
            /\ UNCHANGED <<listVars, slot, running, pong_pending, timeVars, linkTo, told, commands>>

\* check_status, with a link: the lag check.
SendPing == /\ Round /\ connected /\ ~RegisterLate /\ ~ServerDead
            /\ ~pong_pending /\ sincePong > LagTimeout
            /\ pong_pending' = TRUE
            /\ UNCHANGED <<listVars, blocks, slot, linkVars, running, refusalVars, timeVars,
                           owed, linkTo, told, commands>>

\* 001: on_welcome, note_registered.
Welcome ==
    /\ running /\ connected /\ ~authed
    /\ authed' = TRUE
    /\ blocks' = IF slot \in 1..Len(server_list) THEN [blocks EXCEPT ![slot] = NoBlock] ELSE blocks
    /\ owed' = IF linkTo # 0 THEN [owed EXCEPT ![linkTo] = NothingOwed] ELSE owed
    /\ sincePong' = 0
    /\ UNCHANGED <<listVars, slot, connected, die, running, refusalVars, pong_pending,
                   sinceAttempt, sinceConn, linkTo, told, commands>>

\* 465, 463 (numeric) or ERROR: note_refusal.
Refuse(t, numeric) ==
    /\ running /\ connected /\ LinkServer \notin Good
    /\ refusal' = refusal \cup t
    /\ refusal_ban' = (refusal_ban \/ numeric)
    /\ sincePong' = 0
    /\ UNCHANGED <<listVars, blocks, slot, linkVars, running, pong_pending, sinceAttempt,
                   sinceConn, owed, linkTo, told, commands>>

\* Any other line; a PING or PONG also answers the lag check.
Talk(answers) == /\ running /\ connected
                 /\ sincePong' = 0
                 /\ pong_pending' = (pong_pending /\ ~answers)
                 /\ UNCHANGED <<listVars, blocks, slot, linkVars, running, refusalVars,
                                sinceAttempt, sinceConn, owed, linkTo, told, commands>>

\* End of file, a read or a write error: handle_read, handle_event, write_raw.
Lost == /\ running /\ connected
        /\ LinkServer \in Good => authed
        /\ LinkDown(blocks, owed)
        /\ UNCHANGED <<listVars, slot, running, pong_pending, timeVars, linkTo, told, commands>>

---------------------------------------------------------------------------
\* Admin commands.  They also arrive over DCC, with no IRC link.

Die == /\ running /\ ~die
       /\ die' = TRUE /\ told' = TRUE
       /\ UNCHANGED <<listVars, blocks, slot, connected, authed, running, refusalVars,
                      pong_pending, timeVars, owed, linkTo, commands>>

Command == commands < MaxCommands /\ commands' = commands + 1

\* The first entry of that name.  (A name is host and port.  jump compares hosts
\* alone and takes the first: one of the choices for s.)
Position(s) == Min({i \in 1..Len(server_list) : server_list[i] = s})

\* jump <s>: the hold on s is lifted and s is next; jump alone: the rotation.
Jump(s) ==
    /\ running /\ Command /\ s \in Range(server_list)
    /\ cursor' = Position(s)
    /\ LinkDown([blocks EXCEPT ![Position(s)] = NoBlock],
                [owed EXCEPT ![entry[Position(s)]] = NothingOwed])
    /\ UNCHANGED <<server_list, entry, slot, running, pong_pending, timeVars, linkTo, told>>
JumpNext == /\ running /\ Command
            /\ LinkDown(blocks, owed)
            /\ UNCHANGED <<listVars, slot, running, pong_pending, timeVars, linkTo, told>>

\* Any name is added, listed or not.
AddServer(s) ==
    /\ running /\ Command /\ Len(server_list) < MAX_SERVERS
    /\ server_list' = Append(server_list, s)
    /\ blocks' = [blocks EXCEPT ![Len(server_list) + 1] = NoBlock]
    /\ LET e == Min(Entry \ Range(entry))
       IN  entry' = Append(entry, e) /\ owed' = [owed EXCEPT ![e] = NothingOwed]
    /\ UNCHANGED <<cursor, slot, linkVars, running, refusalVars, pong_pending, timeVars,
                   linkTo, told>>

\* Mutant: the slot of the current link is not renumbered.
RenumberNone(i) == IF slot = i THEN 0 ELSE slot

\* server_block_remove: the blocks and the link's slot follow the list.
ShiftBlocks(i) == [k \in 1..MAX_SERVERS |->
                      IF k < i THEN blocks[k]
                      ELSE IF k < MAX_SERVERS THEN blocks[k + 1] ELSE NoBlock]
Renumber(i) == IF slot = i THEN 0 ELSE IF slot > i THEN slot - 1 ELSE slot
DelServer(s) ==
    /\ running /\ Command /\ s \in Range(server_list)
    /\ LET i == Position(s)
       IN  /\ server_list' = RemoveAt(server_list, i) /\ entry' = RemoveAt(entry, i)
           /\ blocks' = ShiftBlocks(i)
           /\ slot' = Renumber(i)
           /\ owed' = [owed EXCEPT ![entry[i]] = NothingOwed]
           /\ linkTo' = IF linkTo = entry[i] THEN 0 ELSE linkTo
    /\ UNCHANGED <<cursor, linkVars, running, refusalVars, pong_pending, timeVars, told>>

---------------------------------------------------------------------------
\* The loop condition fails: the cleanup drops the link and the process ends.
LoopEnd == /\ running /\ die
           /\ running' = FALSE
           /\ LinkDown(blocks, owed)
           /\ UNCHANGED <<listVars, slot, pong_pending, timeVars, linkTo, told, commands>>

\* A second passes.  The loop turns at least that often: what check_status
\* has to do is done before.
Due == /\ connected
       /\ RegisterLate \/ ServerDead \/ (~pong_pending /\ sincePong > LagTimeout)
LessHeld(b) == [b EXCEPT !.left = Larger(@ - 1, 0)]
Tick == /\ Round /\ ~Due
        /\ sinceAttempt' = Smaller(sinceAttempt + 1, MinInterval)
        /\ sinceConn' = Smaller(sinceConn + 1, RegisterTimeout + 1)
        /\ sincePong' = Smaller(sincePong + 1, DeadTimeout + 1)
        /\ blocks' = [i \in 1..MAX_SERVERS |-> LessHeld(blocks[i])]
        /\ owed' = [e \in Entry |-> LessHeld(owed[e])]
        /\ UNCHANGED <<listVars, slot, linkVars, running, refusalVars, pong_pending, linkTo,
                       told, commands>>

Next == \/ \E s \in Server, ok \in BOOLEAN : Dial(s, ok)
        \/ Watchdog \/ SendPing \/ Welcome \/ Lost
        \/ \E t \in Texts, numeric \in BOOLEAN : Refuse(t, numeric)
        \/ \E answers \in BOOLEAN : Talk(answers)
        \/ Die \/ JumpNext \/ \E s \in Server : Jump(s) \/ AddServer(s) \/ DelServer(s)
        \/ LoopEnd \/ Tick

Spec == Init /\ [][Next]_vars

\* The main loop turns: time passes and check_status does what is due, or
\* the loop ends.  A server in Good can be reached sometimes, and of the
\* bot's registrations there some are answered in time.
Fairness == /\ SF_vars(Tick) /\ WF_vars(Watchdog) /\ WF_vars(SendPing) /\ WF_vars(LoopEnd)
            /\ WF_vars(\E s \in Server, ok \in BOOLEAN : Dial(s, ok))
            /\ \A s \in Good : SF_vars(Dial(s, TRUE)) /\ SF_vars(LinkServer = s /\ Welcome)
FairSpec == Spec /\ Fairness

---------------------------------------------------------------------------
\* Holds stay within their caps, the cursor and the link's slot within the list
\* (or one past it), whatever is added, removed and refused.
TypeOK == /\ server_list \in Seq(Server) /\ Len(server_list) <= MAX_SERVERS
          /\ entry \in Seq(Entry) /\ Len(entry) = Len(server_list)
          /\ blocks \in [1..MAX_SERVERS -> Block]
          /\ \A e \in Entry : owed[e].kind \in Kinds /\ owed[e].left \in 0..Larger(BanMax, Stated)
          /\ cursor \in 1..MAX_SERVERS + 1 /\ slot \in 0..MAX_SERVERS
          /\ {connected, authed, die, running, refusal_ban, pong_pending, told} \subseteq BOOLEAN
          /\ refusal \subseteq Words
          /\ sinceAttempt \in 0..MinInterval /\ sinceConn \in 0..RegisterTimeout + 1
          /\ sincePong \in 0..DeadTimeout + 1
          /\ linkTo \in Entry \cup {0} /\ commands \in 0..MaxCommands

\* Holds are kept by position in the list, and the link remembers a position.
\* Whatever is added and removed while links come and go, each entry of the list
\* has the hold it earned itself, and no other, as long as the documented doubling
\* makes it.
HoldsFollowServers ==
    \A i \in 1..Len(server_list) : /\ blocks[i].kind = owed[entry[i]].kind
                                   /\ blocks[i].left = owed[entry[i]].left

\* An entry whose server banned or throttled the bot is not dialled before its
\* hold is over: a throttle, or a ban without a length, is held from its backoff
\* on doubling to the maximum, a temporary ban as long as stated and not less than
\* a throttle, and a permanent ban is never retried by itself.
HeldNotDialled == [][sinceAttempt' < sinceAttempt => ~Holds(owed[linkTo'])]_vars

\* "Servers that banned or throttled the bot are skipped": by name.  A server that
\* is listed twice has two holds (README, section 5); no run checks it.
HeldServerSkipped ==
    [][sinceAttempt' < sinceAttempt =>
         \A i \in 1..Len(server_list) :
            server_list[i] = server_list[slot'] => ~Holds(owed[entry[i]])]_vars

\* A link that never gets to 001 is given up, even when the server talks.
NeverStuckUnregistered ==
    (connected /\ ~authed) ~> (authed \/ ~connected)

\* Whatever the other servers do (refuse, hang, accept and fall silent), the
\* rotation gets to a server that accepts the bot while one is listed, and
\* does so again after every loss of the link and every command.
GoodServerReached == []<>(authed \/ ~running \/ Good \cap Range(server_list) = {})

\* "run the poll loop until `die` or a signal": an admin's die ends the loop
\* before it dials again.  It need not (README, section 5); no run checks it.
DieObeyed == [][sinceAttempt' < sinceAttempt => ~told]_vars
=============================================================================
