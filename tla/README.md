# Verification of ircbot.rs

TLA+ models of `ircbot.rs`, an IRC channel protection bot that keeps its
configuration in step with a hub and with other bots of the same network.
TLC checks the models on small instances; TLAPS proves, for every instance, the
most important safety properties of the output queue, both links and the nick, user and
ban replication, sealed frames, DCC chats, channel enforcement and the updater. Every safety property a run checks, in its invariants and in its action
properties, is also proved, `NickKnown` under a hypothesis that section 4
names.

All paths below are relative to the repository root (`src/sendq.rs` is the
file `src/sendq.rs` of the crate).

## 1. The system

The bot is one process with one thread: `main.rs::run` polls the sockets (IRC,
hub, DCC), runs the handler of each ready one to its end, and once a round runs
`check_status` (timers, watchdogs, reconnects), drains the output queue and
flushes a dirty configuration. There are no data races; what is hard is the
order in which handlers, timers and remote events come, what is lost with a
link, and what a killed process leaves in the file.

| Component | State | Operations | What makes it correct |
|---|---|---|---|
| Output queue (`sendq.rs`) | three lanes, `total`, token bucket, `hold` | `enqueue`, `hold`/`release`, `drain`, `next_ms`, `set_limits`, `clear` | bounded, never evicts protocol lines, paced, drains, nothing survives a link |
| IRC link (`irc_client.rs`, `main.rs`) | server list, cursor, holds by position, status bits, timers | `connect`, `check_status`, `disconnect`, `apply_refusal`, `jump`, `±server`, `die` | holds belong to the server that earned them, refusals are honoured, a good server is reached |
| Nick (`irc_client.rs`, `irc_parser.rs`) | wanted and assumed nick, alternates, refusal | 001, NICK, 432/433/437, `givenick`, `chnick`, reclaim | the bot knows its own nick; it regains the one it wants |
| Hub link (`hub_client.rs`) | hub list, handshake state, session key, identity key | `connect`, `handle_challenge`, `handle_ack`, watchdog, `±hub`, `rekey` | only verified hubs are trusted; the bot authenticates again; the hub knows its key |
| User and mask replication (`hub_client.rs`, `commands.rs`) | records with stamps and tombstones, `admin_delta_pending`, `D\|1` in the file | admin commands, `push_admin_delta`, `process_config_data`, load and save | confirmed changes are kept, both sides converge |
| Ban replication (`chancfg.rs`) | ban records with `push_pending`, two limits | `bot_ban`, `local_ban`, `ban_store`, purge, push | limits, no record goes back in time, own bans reach the hub |
| Channel and settings replication (`chancfg.rs`, `hub_client.rs`) | `c\|`, `C\|`, `D\|`, `O\|`, `b\|` records | `sync_channel_line`, `apply_c_line`, `apply_d_line` ... | tie rules of each kind agree on both sides |
| Channel access (`channel.rs`, `irc_parser.rs`, `hub_client.rs`) | locked-out channels, request counters, unban walks, rosters, op requests and held grants | JOIN retries, UNBAN/INVITE/KEY requests and their service, WHO, OP_REQUEST/OP_GRANT, OPME | it goes on asking; the bot gets in and gets ops whatever is lost; nothing is held for ever |
| Channel enforcement (`chanenf.rs`, `chanlive.rs`) | live members, modes and bans, pending jobs, recent lines | deal and rank, MODE/KICK/JOIN handlers, sweeps, due jobs | one bot acts on an offence, the others keep quiet, authorised users are spared |
| Flood protection (`chanflood.rs`, `botflood.rs`) | sliding windows, ignore table | count, trip, expire | limits at the boundary of a window |
| Bot messages, user commands (`bot_comms.rs`, `auth.rs`, `commands.rs`, `state.rs`) | nonce rings, records and keys | open and check a frame, dispatch it | nothing runs twice |
| DCC chats, listings (`dcc.rs`, `commands.rs`) | sessions in a few slots, parked queries | offer, connect, read, time out; ask the hub, answer | one chat per admin, slots come free, every listing is answered once and to its asker |
| Updater (`updater.rs`, `hub_client.rs`) | binary, `.prev`, `.backup`, config and its copy, marker, plan, report | PREPARE, COMMIT, ABORT, script, watchdog, rollback, `update` | a binary to go back to after any failure but one; a config the build that comes up can read; true reports; every run answered |

**How they interact.** Every handler that talks to IRC goes through the output
queue; `disconnect` clears queue, holds and link state at once. The IRC link
hosts the nick machine and calls the hub link's watchdog and `connect` from the
same `check_status`. The hub link carries all replication: `handle_ack` pushes
what is pending before anything the hub sends is read, `process_config_data`
applies what comes. Admin commands change records, write the file and push; they
arrive as sealed frames on IRC or in a DCC chat. Enforcement and channel access
read the same lines of the server, and ask other bots over the hub or with
sealed frames. The updater ends the process and hands its state over in files.

**What is hard** is listed line by line under `hazards` in `PROJECT.json`:
positions in a list that is edited while a link remembers one of them; state
that is cleared together with a link; marks that are cleared when a frame is
written and not when it arrives; tables that cross changes on the wire; kills
between two file writes; nicks assumed before the server gave them; bounded
tables at their limit; several bots that act on one channel without talking;
answers that arrive after the question was given up; slots that are given to
someone else while an answer is on its way.

## 2. Modules

| Module | Models | Steps |
|---|---|---|
| `LWW` | `lww_next_ts`, `lww_accepts` of `state.rs`; the merge both sides use | operators |
| `SendQ` | `sendq.rs`, `write_raw` and `disconnect` as far as they touch the queue | one per call; `drain` one write per step |
| `SendQProofs` | theorems about `SendQ` | |
| `UserSync` | admin commands, `push_admin_delta`, `handle_ack`, `process_config_data`, the file | an admin command is two steps, split where a kill leaves a different file |
| `UserSyncProofs` | theorems about `UserSync` | |
| `BanSync` | `bot_ban`, `local_ban`, `ban_store`, `push_config`, `apply_b_line`, `apply_purge`, the file | one per handler |
| `BanSyncProofs` | theorems about `BanSync` | |
| `IrcLink` | `check_status`, `connect`, `disconnect`, refusals, server commands, the loop's end | one per handler or watchdog |
| `Nick` | nick handling, with the lines under way in both directions | one per handler, one per server event |
| `HubLink` | dialling, handshake, watchdog, `±hub`, `rekey`, restart | one per handler; `rekey` is two steps |
| `LinkProofs` | theorems about `IrcLink`, `Nick` and `HubLink` | |
| `Upgrade` | `updater.rs`, the CMD_UPGRADE handlers, the scripts the bot runs to replace itself and the watchdog they leave behind | one per file operation after which a crash leaves something different |
| `UpgradeProofs` | theorems about `Upgrade` | |
| `Enforce` | `chanenf.rs`, `chanlive.rs` and the handlers that feed them, two bots and the server | one per line read, sweep, round of due jobs; one per line the server takes |
| `Lockout` | getting into a channel: `check_joins`, `access_request`, `access_service`, the unban walk, `access_accept_key`, `c\|` records | one per handler; one per round of `check_joins` |
| `OpSeek` | getting ops: WHO, `on_end_of_who`, OP_REQUEST, OP_GRANT, OP_FAILED, OPME, held grants | one per handler; one per round of `check_joins` |
| `EnforceProofs` | theorems about `Enforce` | |
| `AtMostOnce` | what a sealed frame promises its sender; abstract | |
| `Sealed` | `NonceCache`, `open_and_dispatch`, `a2_handle_auth`, `a2_open_command`; implements `AtMostOnce` | one per frame handled |
| `SealedProofs` | theorems about `Sealed`, the refinement among them | |
| `Chat` | `dcc.rs` and the parked listings of `commands.rs` | one per event of a chat, reply of the hub, round |
| `ChatProofs` | theorems about `Chat` | |

`MC<module>` holds the constants of the instances TLC checks, symmetry and
views. `UserSync`, `BanSync` and `Lockout` extend `LWW`, `Sealed` instantiates
`AtMostOnce`; the other modules stand alone. `LinkProofs` extends `IrcLink` and instantiates
`Nick` and `HubLink`.

The hub, the IRC server and other users are **external**: they are modelled from
what the bot sends and expects. The hub merges with the rule the bot uses
(`lww_accepts`), answers in order, and may send its table or records at any
time. The IRC server answers every NICK in order and may rename the bot. In
`Enforce` it is a channel with members, ops, modes and bans, tells every bot of
every change in one order, and refuses lines of bots without ops. In `Lockout`
and `OpSeek` bots stand for themselves on both ends, and the hub passes requests
on to the bots that can serve them, or loses them. In `Upgrade` an admin starts
a bot that is down.

Every variable is commented with the field it stands for. Variables marked
*history* have no counterpart in the code; they only record what properties
speak about (what an admin was told, what a server earned, what is not yet at
the hub). No guard of the bot reads them, with one exception: `quiet` of `SendQ`
stands for callers that have stopped asking.

### Abstractions

* Times are distances to the event the code compares with, and stop counting
  where the code no longer tells them apart. So no clock grows without bound
  except the stamps of `UserSync` and `BanSync`, which `MaxTs` bounds.
* A line to IRC is the few fields the queue looks at; a refusal is the set of
  the key words `refusal_classify` searches for, and where they come from; a server in
  the list is an entry of its own, since a name may be in the list twice; a record's contents are a
  model value; cryptography is the fact whether a signature or seal checks.
* A frame written to a link is in a sequence until the other side has it. When
  the link goes, the frames still there are lost. A failing write is a step of
  its own in which any number of the frames before it may still have arrived.
* Drawing a hub or a server at random is a choice.
* `Upgrade`: a build is a version and a variant; a config is the version that
  wrote it, or cut short; downloads, signatures, hashes and self-tests are
  outcomes. Every file operation of a handler, a script or a watchdog is a step that
  may fail where the code looks at its result and where it does not, a copy may be cut
  short, and the machine may stop between any two of them. Only a rename with which
  the bot itself takes back the one it has just made is taken to succeed. The watchdog's three
  operations take milliseconds, so nothing but a stopping machine comes between them
  (`Quiet`). A RESULT is one frame, sent once: it may be lost with the write or the link.
* `Enforce`: a user is one `nick!user@host`; time is counted in steps of
  `JOB_STEP_MS`; the modes of the channel are as stored or not; the records of
  banned masks are the same at every bot (their exchange is `BanSync`'s). The check of the
  records that `act_ban` keeps for 60 s is the set `passed` of each bot, from which a mask
  goes at any time after its answer has changed (`CheckEnds`); the checks of a member list
  and of `ban_allowed` are made every time, as in the code.
* `Lockout`, `OpSeek`: time is counted in rounds, of one JOIN retry and of 30 s;
  messages are a set, so they arrive in any order, and up to `MaxLost` of them
  are lost or late. In `OpSeek` the helper looks again when it is picked: under +bitch
  (`Bitch`) the asker must be in its roster and covered by its records (`vouched`).
* `Sealed`: a frame is its nonce, and opens if its sender has a record; every
  frame ever sent may arrive at any time, any number of times.
* `Chat`: a line is what the bot makes of it: nothing valid, a listing, another
  command. The poll token drops events of sockets that are gone.

## 3. Runs

All runs are expected to pass.

| Run | Properties | Instance |
|---|---|---|
| `sendq` | `TypeOK` `QueueBounded` `Paced` `NothingQueuedOffline` `ProtocolNeverEvicted` `EventuallyDrained` | six lines of all lanes, two of which pack into one MODE line and one too long for that; a queue of three |
| `user_sync` | `OfflineChangeRemembered` `ConfirmedChangeKept` `Converges` | one record, two local values and one of others, three stamps |
| `ban_sync` | `WithinLimits` `OwnBansReachHub` `NeverOlder` | three masks, a table of two, a push with room for one, one active ban |
| `irc_link` | `HoldsFollowServers` `HeldNotDialled` `GoodServerReached` | two entries, one of a server that accepts behind one that does anything; throttles, temporary, plain and permanent bans, up to three commands that may list a name twice |
| `nick` | `NickKnown` `RegainsNick` | two targets with two alternates, one of them refused for good |
| `hub_link` | `AuthenticatedIsVerified` `Authenticates` | two pinned hubs, one without a key, impostors, three rekeys |
| `upgrade` | `NeverStranded` `ConfigFits` `OkIsTarget` `AbortTakesBackOwnRun` `EveryRunAnswered` | two versions, two hub-driven runs and the `update` command, with a machine that may stop and file operations that may fail anywhere |
| `enforce` | `OneHolder` `BackupsQuiet` `AuthorisedSpared` `RogueOpsGo` `ModesRestored` `FriendsUnbanned` | two bots, a rogue with two nicks and a friend, a mask for the rogue and one for all; users may be authorised, within the minute of a check, too |
| `lockout` | `GetsIn` `AskedAgain` | a channel with bans and one with +i, keys, removal and kicks; a helper, a bot that is gone and a third that asks too |
| `op_seek` | `GetsOps` | two channels, one under +bitch, one message lost, two changes of ops, records or links |
| `sealed` | `KeepsPromise` | an auth request and a command of one user in a ring of one slot, a bot's command in another |
| `chat` | `OneChatPerUser` `AnswersAsker` `AnsweredOnce` `NoneForgotten` `NoneKept` `ChatsEnd` | two admins, two slots, one parked listing, two offers and two listings |

Every module has a type invariant, and some have properties that are weaker than the
ones listed, or parts of why those hold: `NothingPendingOnline` (`UserSync`, `BanSync`),
`NeverStuckUnregistered` (`IrcLink`), `KeyRegistered` (`HubLink`), `SlotsFreed`
and `RemovedStaysLeft` (`Lockout`), `HoldsEnd` (`OpSeek`), `Remembered` (`Sealed`). They hold on
the same instances (`TypeOK` of `Sealed` and `SendQ`, `Remembered`, `NothingPendingOnline` of
`UserSync` and, without losses and kills, `KeyRegistered` on all, by proof); to check one, add
it to the configuration.

**Why the bounds are enough.** In `sendq` a queue of three holds a line of every
lane or fills with one lane, so each victim rule of `make_room` fires; bursts of
one and two with intervals of zero, one and two cover unpaced links, an empty
bucket and one that refills in part. In `user_sync` one record with three stamps (an old,
a current and a repeated one) shows every way a record is changed, replaced,
lost and sent again. Records meet in one place only: a push sends them all, one
frame each, and when it fails the frames of other records that were under way
are lost with it. That case takes two records, is too large for `Converges`, and is
covered by `ChangeKept` of section 4, for every set of records. `ban_sync` needs three masks on a table of two for an
eviction and one active ban for a refusal; a push has room for one record (`PushCap`), less than
the table, as in the code, where it has 16320 bytes for up to 6500 bans of up to 445 bytes; only one of the masks is also used by
admins and elsewhere (`AdminMask`, `HubMask`), the others by the bot alone, and
are symmetric. Two entries are enough for a position to shift under a link, for
one name to be listed twice and for the rotation to wrap; two strikes (`MaxStrikes`) take
both backoffs to their caps. `Budget` in `Nick` and `HubLink` bounds the rare
outside events (restarts, commands, renames) together, so that liveness is asked
of what follows the last of them.

`upgrade` needs two versions for a config to be too new and two runs for an
ABORT to hit the wrong one; one watchdog is asleep at a time (`MaxWatch`). Nothing in the
code makes it so, since two upgrades may be less than its 20 s apart; the invariants hold
with two asleep as well (TLC, 647,761 states) and, by proof, with any number. In
`enforce` two bots are a holder and a backup; `Cost` makes acts that open many
cases use up more of the budget (`MaxActs`), so that each pair of cheap
acts and each single expensive one happens. It also lets a user be authorised right after a
sticky ban that matches him was taken off: `Lifted` starts the bots with the check of
that ban still kept, which the server's -b paid for (`Cost["unban"]`). The two channels of `lockout` differ
in what happens to them (`Why`), which keeps the instance small and lets every
kind of lockout compete with another for the one unban walk and the global
request interval. In `sealed` a ring of one slot is pushed out by the next frame,
windows and TTL are in the ratio of the code (30 : 60 : 60 s). In `chat` the second
admin needs both slots to be in use for a refusal, and gets the slot the first
one's listing was asked for in.

`CHECK_DEADLOCK FALSE` is in two configurations: in `IrcLink.cfg`, where `die` ends
the process, and in `Enforce.cfg`, where a quiet channel may stay as it is.

**Fairness.** The loop turns at least once a second whatever happens on the
sockets (`poll` has a timeout), so steps of `check_status`, `check_joins`, sweeps,
due jobs, timeouts, drains, the debounced write and handlers of what has arrived
are weakly fair; time is fair, since it passes however often the loop turns
(strongly in `SendQ`). For the outside, liveness is only asked for where the network
helps: a server in `Good` accepts a dial sometimes and welcomes the bot sometimes,
a pinned hub can be reached sometimes and answers, and frames get through on some
of the links (strong fairness; with weak fairness a link that always drops first
would excuse everything). In `Lockout` and `OpSeek` the server answers and a
message that is not lost arrives; `GetsIn` and `GetsOps` ask for success only while a
helper stays able to serve (under +bitch: and vouches for the bot) and, for `GetsIn`, both
hub links stay up. In `Enforce`
nobody has to give a bot ops; the properties are about channels in which one has
them. In `Upgrade` scripts, watchdogs and handlers go on until the machine stops, an admin starts a
bot that is down, and hub links come back. In `Chat` only the rounds of the loop are
fair: neither hub nor clients owe the bot anything, and `ChatsEnd` excepts a chat
whose owner types commands for ever.

Each property of a run has a mutant in `PROJECT.json`: a definition
changed the way a plausible bug would change it, with which TLC finds the
property violated.

### What the properties say

* `Paced`: in no window of time on one link are more lines written than
  the burst and the elapsed time allow, whichever of the four callers drains.
* `ProtocolNeverEvicted`: a PONG that is queued is never evicted to make room for another line. (A
  new one is refused when the whole queue is protocol lines.)
* `OfflineChangeRemembered`, `ConfirmedChangeKept`: a change made offline is in
  memory and in the file, with its mark, until it is pushed; a change the admin
  was told is made is at the hub, under way or pending. `ConfirmedChangeKept`
  leaves out (`excused`) the records whose change the code does lose; see 5.
* `Converges`: once admins stop, the tables of bot and hub become equal.
* `WithinLimits`, `NeverOlder`, `OwnBansReachHub`: both limits hold in memory and
  in the file with revivals and evictions; no step puts an older record in the
  place of a newer one; the bot's own bans are marked or under way until the hub
  has them, while the process lives, the frames are not lost with a link and no push was
  full without them (`owed` is then "cut"; section 5, number 10).
* `HoldsFollowServers`, `HeldNotDialled`: holds are kept by position; whatever is added
  and removed while links come and go, each entry of the list has the hold it earned
  itself, and is not dialled before it is over. What was earned is not computed as the
  code does it: `owed` keeps the next hold of each kind and doubles it with every refusal, up
  to its maximum, as the documents say; the code counts strikes and shifts.
* `NickKnown`: once nothing is under way, the nick the bot believes in is the
  one the server has.
* `AuthenticatedIsVerified`: an authenticated link is one to a listed, pinned hub
  whose signature was checked on this very link.
* `NeverStranded`: while no handler, script or watchdog is at work there is a binary to start,
  unless the machine stopped half-way or a step that fails in the script left none in place; and
  even then a retained one is there, with one exception that `stranded` names: the `update`
  script does not look whether its mv worked before it removes the backup (section 5, number 11).
* `ConfigFits`: no build comes up against a config a newer one wrote, whichever of script, watchdog
  and ABORT put it there. `cfgLost` names where the code gives no such guarantee: a retained
  config was lost or is not the retained build's, was not or only half put back, or
  the machine stopped before the watchdog had come to it (section 5, number 12).
* `OkIsTarget`, `AbortTakesBackOwnRun`: an "ok" is only held by a
  process of the wanted build, an ABORT takes back its own run's build only.
* `EveryRunAnswered`: every run that replaced the process sends its hub a result, whatever
  failed, unless this one RESULT was lost (`lost`; section 5, number 13), the hubs are removed or the
  config cannot be read.
* `OneHolder`, `BackupsQuiet`: once everyone has read everything, every job has
  exactly one holder; and if lines take less than `JOB_STEP_MS`, and no bot joins, gets or
  loses ops and nobody acts before the last change is read by all, no bot sends a revert of the
  modes that has nothing left to change (section 5 says why that condition is needed).
  `RogueOpsGo`, `ModesRestored`, `FriendsUnbanned`: none of
  the three evils lasts while a bot has ops. `AuthorisedSpared`: no deop or kick of a user
  who is authorised when it leaves, whatever he was when the job was made, and no ban
  that hits him while the bot sees him in the channel; one that is absent is hit only while
  the bot keeps a check of that mask from before he was authorised (section 5, number 14).
* `GetsIn`, `GetsOps`: with a willing helper the bot gets in and gets ops, whatever was
  lost, given up or refused before. `AskedAgain`: with or without one, no channel the bot is
  locked out of is forgotten, whatever the other channels ask for and however often the retries
  of a kind are used up.
* `KeepsPromise`: `Sealed` implements `AtMostOnce`: a frame runs at most once, unless
  the bot restarted or the ring was overrun within the TTL. `Remembered` is why.
* `AnsweredOnce`, `AnswersAsker`, `NoneForgotten`, `NoneKept`: a listing is answered at
  most once, to its asker, in its chat; it is not forgotten and does not stay parked.
  `OneChatPerUser`, `ChatsEnd`: one chat per admin, and slots come free.

## 4. Proofs

`SendQProofs` proves, for every set of lines, queue size, limits, MODES values
and bounds that satisfy `SendQAssumption`:

* `TypeCorrect`: `Spec => []TypeOK`,
* `Bounded`: `Spec => []QueueBounded`,
* `PacedAlways`: `Spec => []Paced`,
* `NothingLeftOver`: `Spec => []NothingQueuedOffline`,
* `ProtocolLaneKept`: `Spec => ProtocolNeverEvicted`, an action property: in every step
  outside a drain lane 0 is a prefix of what it becomes.

The inductive invariant is `IInv == TypeOK /\ QueueBounded /\ Bucket /\
NothingQueuedOffline`. `Paced` is not inductive: it forgets what is left in the
bucket. `Bucket` says that what the window has spent plus what is left never
exceeds a full bucket plus the time *credited* since the window began, that the
time since the last refill is zero while a drain runs (so nothing is credited
twice by a drain within a drain), and that a window in which something was
written began before the last refill. `QueueBounded` needs that a victim is taken from a
non-empty lane before a line is pushed (`QueueStep`) and that a packed MODE line
takes as many lines as it counts (`WriteStep`). The products of `Paced` are kept
out of the solver's way by two arithmetic lemmas (`OneMoreLine`, `NothingSpent`).

`SealedProofs` proves, for all frames, senders, ring sizes, windows, TTLs and clock
differences that satisfy `SealedAssumption` and `WindowAssumption`:

* `TypeCorrect`: `Spec => []TypeOK`,
* `RememberedAlways`: `Spec => []Remembered`,
* `PromiseKept`: `Spec => KeepsPromise`, the refinement of `AtMostOnce` with
  `forgotten <- spilled`.

The inductive invariant `Inv` adds to `Remembered` that a frame that ran was sent and
that no frame sent is further ahead of the bot's clock than `Ahead`. A frame that ran
and was not pushed out has an entry whose TTL ends no sooner than the frame's window,
or the window is over: so either it is in the ring or its time is refused, and `Run`
maps to a step of `AtMostOnce` that needs `ran[f] = 0`. `WindowAssumption` is what makes
the entry last: twice the window is within the TTL (`~A2`: 2 * 30 <= 60), or the window
and the lead of the sender's clock are (`~B2`: 60 + 0 <= 60). So the guarantee for `~B2`
needs bots whose clocks are not ahead of the receiver's; section 5.

`ChatProofs` proves, for every number of users, slots, parked listings and offers and
all timeouts:

* `OneChat`: `Spec => []OneChatPerUser`,
* `RightAsker`: `Spec => []AnswersAsker`,
* `AnsweredOnceOnly`: `Spec => []AnsweredOnce`,
* `NoListingForgotten`: `Spec => NoneForgotten`.

The inductive invariant `ChatInv` says that a session in use has an owner and a number
no later offer has, that a parked listing was asked for by the user and in the chat it
names, and that the chat, if it still has the slot, is that user's. Most steps free
sessions or keep owner and number (`Kept`, `KeptSessions`); an offer gives a number that no
parked listing can have (`OfferSessions`). The last two theorems rest on `OnceInv`: queries are
numbered in the order they were asked, no query is parked twice, and what is parked has
no answer yet. Without the last part a finished query could be parked and be
answered again by the timeout.

`UserSyncProofs` proves, for every set of records and values and all bounds on stamps and
frames that satisfy `UserSyncAssumption`:

* `OfflineRemembered`: `Spec => []OfflineChangeRemembered`,
* `PushedBeforeRead`: `Spec => []NothingPendingOnline`,
* `ChangeKept`: `Spec => []ConfirmedChangeKept`.

`LocalInv` is about the bot alone: the file has the records that memory has (every command
writes it), a mark that is pending when a command begins is already in the file, and an
authenticated link means that nothing waits. `ChangeInv` is about bot, hub and wire: no
record of this bot, wherever it is (`At`: in memory, at the hub, in a frame or table
under way), has a stamp above the highest one issued (`Stamps`); two of its records
with one stamp are the same record (`Unique`); and the last change an admin was told of
is at the hub, in a frame or pending, or something that wins over it is (`Held`). `Unique` is
what makes it harmless that the hub refuses a record whose stamp it already has. All three are for records not in `excused`: those whose
frames were lost with a link, by a failing push or by a restart, or whose
stamp was repeated (section 5 says why the code loses them).

`BanSyncProofs` proves, for every set of masks and all limits:

* `LimitsKept`: `Spec => []WithinLimits`,
* `NewestKept`: `Spec => NeverOlder`,
* `OwnBansPushed`: `Spec => []OwnBansReachHub`.

The invariant is `Typed /\ Limits(bans) /\ Limits(disk) /\ Saved`: the file's table keeps the
limits too, since a restart puts it in memory, and is the one in memory unless `dirty`,
so that an older record can only come back by a restart before the debounced write. That
storing keeps the limits is a fact about cardinalities (`StoreLimits`): a new mask takes the
place of the one `ban_slot` gives up, and a mask becomes active only when there is room.
`OwnBansPushed` holds for a push of any size: a record leaves the marked ones only into a frame, or
as one that a push at its limit had no room for.

`LinkProofs` has the two links and the nick. For every list of servers, all limits and
timeouts, all refusals and any number of commands:

* `HoldsByEntry`: `Spec => []HoldsFollowServers`,
* `NoHeldDial`: `Spec => HeldNotDialled`.

Names may be listed any number of times. Holds are kept by position, so `IInv` says that the
slot of a link and the entry it was dialled for are the same one or both are gone, and
that each position has the hold its entry earned. Without `SlotIsLink` a refusal could be put
on the server that moved up; `DelKeeps` shows that removing a server renumbers list, slot and
holds alike. That the code's shift by the number of strikes is the documented doubling up
to a maximum is a lemma (`NextsDouble`, from 2 ^ (n + 1) = 2 * 2 ^ n, which is proved by counting
subsets, as the provers know no powers): the count of strikes may stop at `MaxStrikes`, as by
then every backoff has reached its maximum (`IrcLinkAssumption`).

For any nicks, alternates, refusals and renames, and any number of lines that cross:

* `KnowsItsNick`: if `AlternatesFree` then `Spec => []NickKnown` of `Nick`.

The bot changes its mind when it reads a line, the server when it sends one, and `givenick`
assumes an alternate before asking. `NickInv` compares the two over the lines under way: there is a
history of the nicks the server had when it sent each of them (`History`), and what the
bot believes is one of these, with nothing before it that the bot would take as its own
rename (`Agrees`); or it is an alternate whose NICK the server has not read yet (`Assumed`). A line
read takes one entry off the history, a line sent adds one. `AlternatesFree` says that no
other user holds an alternate (or that `givenick` is not used); if one does, TLC
refutes `NickKnown` (`Takeable <- MCAllTaken`; section 5, number 4).

For every set of hubs, all delays and any number of keys:

* `OnlyVerifiedHubs`: `Spec => []AuthenticatedIsVerified`,
* `KeyNeverLost`: if `~Loss` and `~Kill` then `Spec => []KeyRegistered`.

`HubSound` says which facts each state of the handshake has already established. `KeySound`
says that the last key among the frames to the hub, or the hub's own if there is none, is the
one the bot signs with, and that only an authenticated link carries keys. The two
hypotheses leave out a link that takes its frames with it and a kill between the push
and the save: in both the hub and the bot do end up with different keys.

`UpgradeProofs` proves, for any versions, variants and runs and a machine that may stop between
any two file operations:

* `AlwaysAWayBack`: `Spec => []NeverStranded`,
* `OkOnlyForTarget`: `Spec => []OkIsTarget`,
* `AbortOwnRunOnly`: `Spec => []AbortTakesBackOwnRun`,
* `OldBuildOldConfig`: `Spec => []ConfigFits`.

`Busy` says who is at work (a handler in the process, a script in its place or a watchdog),
`WayBack` which file holds a binary at each stage and what is known to be gone, `Marks` that
marker, report, the run that installed the process and `.prev` all speak of the same run,
and `Fits`, as long as no retained file was lost (`ConfigSound`), which builds can read the
config in place and the retained one. The states between two file operations are part of
the invariants, as a crash leaves them. There is no hypothesis on the number of watchdogs: one
that wakes while a later build starts is what `older` and `cfgLost` are for. The three
properties that have excuses say in `stranded`, `cfgLost` and `mixed` exactly at which step they
begin; section 5 has the same properties without them.

`EnforceProofs` proves, for any bots, users, masks and settings, any number of acts and all
delays:

* `SparesAuthorised`: `Spec => AuthorisedSpared`,
* `OneActs`: `Spec => []OneHolder`,
* `QuietBackups`: `Spec => []BackupsQuiet`.

`SparesAuthorised` follows the work to the line: whoever submits it, and whenever it is run,
`Execute` sends lines that spare authorised users, because `StillNeeded` looks again: for
deops and kicks at the records, for bans at the members the bot sees, and at the records
unless it keeps a check. The ban's part is about the picture the bot has after the step, so it
takes the lemmas on what each line read does to member list and checks (`LooksPlainly`,
`LooksAtOps`, `LooksAtHarm`), and from `DealInv` that the picture is one of members.

`OneActs` has two parts. What a bot has read and what is still under way to it amount to what
the channel has: `DealInv` says that for the lines in each inbox there is a history of pairs (the bots that are
members, the bots that have ops) of which each line makes the next (`Makes`), that the first pair is what
the bot's picture shows (`Shows`) and the last one the channel's (`Ends`). The picture may lag
behind only until the answer to a WHO is read. Once all is read, all opped bots deal over the
same bots; and then there is one holder by counting: different bots have different
places in the order of the hashes, the places are the numbers from 0 to n - 1 (`Places`), and the
turn `(pos + n - job % n) % n` is 0 for exactly one of them (`RoundTrip`).

`QuietBackups` rests on `QuietInv`: unless the condition of `BackupsQuiet` was broken
(`apart`), the bots are *calm* (no work, line, window or news of the modes anywhere), or they
see the same ops (`Steady`) and either the modes were moved and the holder alone reverts them
once it has read so (`Hurt`), or they are back and everyone who has work waiting is to read so
(`Healed`). Work that waits has age 0 there, so no backup's turn comes. Two more facts are
inductive only together with it: a bot that does not know the modes of its channel has the
answer on its way (`KnownInv`), and no bot is told to kick another (`SparedBots`). The candidate was
checked by TLC with three bots first; section 5 says what that turned up.

The assumptions ask of the constants that the values standing for "none" (`None`, `"idle"`,
`"none"` among servers, hubs and record contents) are no members of the sets they stand
beside, that sets are finite where the code counts them, and that limits, timeouts and
bounds are natural numbers, most of them positive. A theorem about an instantiated
module (`Nick`, `HubLink`) names that module's assumption as its hypothesis.

**Only model-checked.** Liveness under fairness is out of TLAPS' reach: `EventuallyDrained`,
`Converges`, `GoodServerReached`, `RegainsNick`, `Authenticates`, `EveryRunAnswered`, `GetsIn`,
`AskedAgain`, `GetsOps`, `RogueOpsGo`, `ModesRestored`, `FriendsUnbanned`, `NoneKept`, `ChatsEnd`. Induction over
data is too; where a fold over a sequence could be said without one (the frames of a push
that is cut off, `Winner` of `UserSync`) the module says it so. Of the type invariants those
of `SendQ` and `Sealed` are theorems; those of `Nick` and the shapes the other proofs need are
parts of their inductive invariants.

## 5. Where code and documentation disagree

The modules state some claims of comments and documents as properties that no run
checks, because the code does not keep them; TLC refutes each with the constants given.

1. `EveryChangeKept` of `UserSync` (as `UserSync.cfg`): "A user/mask change made while the
   hub is unreachable survives a bot restart before the reconnect (persisted as `D|1`)"
   (`README.md:94`). The mark is cleared when the frames are in the socket buffer
   (`src/hub_client.rs:1003`). If the link is already dead they are lost, nothing is
   pending, and the next table from the hub removes the change.
2. `AdminBansReachHub` of `BanSync` (all masks also the hub's, two active bans): "a hub that
   is down gets the records in the next full push" (`src/chancfg.rs:689`). The full push
   carries only bans the bot set by itself.
3. `DieObeyed` of `IrcLink`: "run the poll loop until `die` or a signal" (`src/main.rs:788`).
   `disconnect` clears `S_DIE` with the link bits (`src/irc_client.rs:661`); a link that goes
   down in the round of a `die` takes it with it, and the bot dials again.
4. `RegainsNick` of `Nick` with `Takeable <- MCAllTaken`: givenick "Will try to regain primary
   nick after 20 seconds" (`src/commands.rs:3042`). The alternate is assumed before the server
   answers (`src/irc_client.rs:1198`); when it is taken, the bot believes in it for good.
5. `ZombieDropped` of `HubLink` under `BotFairSpec`: "A hub link with no PONG or data for 120 s has
   zombied" (`src/irc_client.rs:1073`). The watchdog looks at authenticated links only, and
   `connect` returns while a socket is there.
6. `GetsInAlone` of `Lockout` (`Why <- MCWhyAlone`): the fallback asks one trusted bot after the
   other (`src/channel.rs:131`). `chan_req_fallback_idx` is shared by all channels: two channels
   that ask in turn can each meet the same bot every time.
7. `GoodKeyKept` of `Lockout` (`Chans <- MCOneChan`, `Why <- MCWhyKey`): "so a stray reply cannot
   rewrite a good key" (`src/channel.rs:423`). A late answer within the window replaces a newer
   key that came from the hub.
8. `RetriedSoon` of `OpSeek`: "Clear pending so the channel manager retries in ~30 s"
   (`src/hub_client.rs:2045`). `check_joins` asks for a WHO only when the roster is empty or
   `ROSTER_REFRESH_INTERVAL` old (`src/channel.rs:106`), so the retry comes after up to 120 s.
   It also clears the pending mark of every channel.
9. `HeldHonoured` of `OpSeek`: "grant the OP_GRANTs held while we had none"
   (`src/hub_client.rs:837`). A grant held while the helper's roster is being read again is
   dropped, as the asker is not on it.
10. `AlwaysPushed` of `BanSync` (as `BanSync.cfg`, without the view): own bans the hub has not got
   are "Always pushed, whatever opt 'h' says" (`src/hub_client.rs:800`). A push has room for
   16320 bytes, and `push_config` clears the marks of the bans that did not fit
   with those of the ones that did (`src/hub_client.rs:1042`). No later push has them, until
   they change again.
11. `SomeBinary` of `Upgrade`: `<exe>`, `<exe>.prev` or `<exe>.backup` is there. The script of the
   `update` command moves the new binary into place without looking whether that worked
   (`src/updater.rs:536`), removes the backup (542) and starts `<exe>` (546): when the mv fails
   there is no binary at all.
12. `ConfigAlwaysFits` of `Upgrade`: "the old binary must not come up against a config only the newer
   build understands" (`src/updater.rs:1156`). It does if the machine stops between the watchdog's mv of
   the binary and its cp of the config (912-914), if that cp fails or is cut short, if the rename of
   the config in `hub_rollback` fails, which is only logged, and if a second upgrade begins within the
   20 s of the first one's watchdog, which then takes the second one's retained files.
13. `ResultsArrive` of `Upgrade` (`EveryRunAnswered` without `lost`): "The hub also infers success from
   the presence frame, so a lost RESULT costs nothing" (`src/hub_client.rs:390`). A "skip" or a
   rollback it cannot infer that way. What `send_frame` returns is not looked at (373-383) and what
   was pending is dropped, so a result whose frame is not written or goes with its link is
   never sent again.
14. `NeverBanned` of `Enforce`: "a bot or an authorised user is never banned" (`src/chancmd.rs:591`).
   `act_ban` keeps the answer whether a mask overlaps a record for 60 s
   (`src/chanenf.rs:725`), which no change of the records takes back. A user who is absent and authorised
   within that minute is hit by a sticky ban that is set again.
15. `HeldServerSkipped` of `IrcLink`: "Servers that banned or throttled the bot are skipped"
   (`src/commands.rs:3037`). A list in the file (`src/config.rs:322`) and `+server`
   (`src/commands.rs:1190`) may name a server twice; each entry has a hold of its own, so the server
   is dialled through the other one.

Numbers 11 to 15 are refuted with the constants of the module's configuration.

The models show more, by changing a constant or leaving out an excuse:

* The mark of a ban is not part of its `B|` line, so a restart before the
  hub is back forgets that the hub has not got it (`src/chancfg.rs:533`);
  `Restart` clears `owed` for that reason.
* `KeyRegistered` fails with `Loss = TRUE`: `rekey` saves the new key once its
  frame is written, and closes the link; if the frame is lost the hub refuses
  the bot from then on (`src/commands.rs:2932`).
* A table sent before the hub got a change replaces the record; a change in the
  same second then repeats the stamp, and the hub refuses it
  (`src/state.rs:1055`, `src/hub_client.rs:1661`). `ConfirmedChangeKept`
  excuses such records (`Repeats`).
* A push that fails marks all records for the next one, but a table of the hub may have
  replaced another record whose frame was still under way and is lost with the link
  (`src/hub_client.rs:957`); `ConfirmedChangeKept` excuses it, and fails with two records
  otherwise.
* A failed copy of the config leaves an older `<config>.prev` cut short, which a rollback
  would put in place (`src/updater.rs:1392`; `cfgLost`). When `mkdir` or a rename of the old
  binary fails in the script, or the script of a standalone `update` cannot be run, no binary is
  left in place, but a retained one is there (`stranded` is "retained").
* "Only the run that installed the build we are running may take it back"
  (`src/hub_client.rs:631`): if the marker of a run is left, the hubs are removed, the bot is
  updated by hand and a hub is added again, an ABORT of the old run takes back the
  manual update (`mixed`).
* `RogueOpsGo` fails without `refused`: "only an authorised member may hold ops"
  (`src/hub_client.rs:1904`), but a deop the server refused stays in `enf_recent` for 30 s;
  the sweep after the re-op finds it there and is not repeated (`src/chanenf.rs:631`). A
  rogue who changes his nick between the bot's view and the server's escapes the deop
  the same way. A backup's queued deop is not dropped when the -o is seen, and a queued
  kick fires at a victim that came back.
* "a backup's delay always counts from the newest need" (`src/chanenf.rs:1310`): a bot that
  rejoins and gets ops while a revert is under way reads the holder's revert after the answer
  to its WHO but before that to its MODE. `live_known` is not set yet, so the
  revert does not end its wait: it queues a revert of its own, which keeps its first timer and is
  sent together with the holder's after the next change. So is one of a backup whose rank
  becomes 0 since another bot gets or loses ops while the holder's line is on its way. In both cases
  `BackupsQuiet` fails if `apart` does not cover bots that join, get or lose ops meanwhile.
* "the bot rejects anything more than 30 seconds old or replayed" (`README.md:64`): the
  rings are in memory, so a restart within the window makes the bot take a frame again;
  so does a `~B2` frame from a bot whose clock is ahead (window and TTL are both 60 s), and
  a ring overrun within the TTL.

Also: `enqueue` drops a MODE line that already waits even if its opposite waits
behind it, so that the last wish of three is lost (`src/sendq.rs:183`); with three
channels and trusted ops that never answer, two of them can use up the op requests of
the third; with more than about ten locked-out channels the request interval starves the
last; the fallback is not used while the asker's own hub link is up, even if no helper
is on the hub; a listing parked for a PRIVMSG goes to the nick its asker had.

## 6. What could follow

1. An abstract specification of replication (a register per record that only moves
   forward) which `BanSync` and the `c|` records of `Lockout` implement.
2. `HubLink` composed with `UserSync`, so that links are the ones the handshake makes.
3. Theorems about `OpSeek`: that a held grant only goes to a bot that asked for it.

## 7. Not modelled

* Flood protection: counts in a window of one handler; what follows a trip is the
  path of a kick or ban job, which `Enforce` models.
* `C|`, `D|`, `O|` and `b|` records, which are merged like the records of `UserSync` and
  `Lockout`, and `enf_pending`; reports of channel events, on which nothing depends.
* In `Enforce`: half-ops, the dynamic limit, leaving and rejoining an empty channel, the
  cap of four kicks in a sweep, the 200 ms cache of authorisation (the minute of `act_ban`'s
  check is modelled), the delay with which ban records reach the other bots, taking a user's
  authorisation away.
* Start-up, wizard, daemonizing and logging (input, output, operating system
  calls); the text of commands and replies; the format, encryption and migration of
  the config file (what is saved when is modelled); TLS and DNS (a dial succeeds or
  fails); cryptographic primitives; the client tools under `utils/`.
