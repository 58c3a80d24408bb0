------------------------------- MODULE Sealed -------------------------------
(***************************************************************************)
(* Sealed frames: the bots' commands to one another (~B2,                  *)
(* src/bot_comms.rs) and the users' requests and commands (~A2A, ~A2,      *)
(* ~A2S, src/commands.rs).  A frame carries the time its sender's clock    *)
(* showed and a nonce; IRC and the hub relay may deliver it late, more     *)
(* than once or never.  The bot runs it if a record of the sender opens    *)
(* it, its time is close enough and its nonce is not in the ring of recent *)
(* nonces (NonceCache, src/state.rs).                                      *)
(*                                                                         *)
(* Sealing and opening are the condition that the sender has a record; a   *)
(* frame is named by its nonce, no two have the same.                      *)
(***************************************************************************)
EXTENDS Integers, FiniteSets

CONSTANTS
    Frame,     \* frames, by nonce
    Sender,    \* users and bots
    From,      \* From[f]: the sender of f
    Kind,      \* Kind[f]: "B2", "A2A" or "A2" (~A2S is an ~A2 here)
    Size,      \* Size[k]: NONCE_CACHE_SIZE, MAX_SEEN_HASHES
    Skew,      \* Skew[k]: B2_TS_SKEW, A2_TS_SKEW
    TTL,       \* NONCE_TTL_SECONDS
    Ahead,     \* Ahead[k]: how far a sender's clock may be ahead of the bot's
    Behind,    \* how far it may be behind
    MaxTime,   \* bound: seconds
    NoFrame    \* the empty slot of a ring

\* recent_nonces and admin_nonces, and the one that tells f from its copies.
Cache == {"bot", "admin"}
CacheOf == [f \in Frame |-> IF Kind[f] = "B2" THEN "bot" ELSE "admin"]

ASSUME SealedAssumption ==
    /\ From \in [Frame -> Sender] /\ Kind \in [Frame -> {"B2", "A2A", "A2"}]
    /\ Size \in [Cache -> Nat \ {0}] /\ Skew \in [Cache -> Nat]
    /\ Ahead \in [Cache -> Nat] /\ TTL \in Nat /\ Behind \in Nat /\ MaxTime \in Nat
    /\ NoFrame \notin Frame

\* A nonce is remembered for as long as its frame could be accepted again:
\* the window is within the TTL twice, or the clocks do not run ahead.
ASSUME WindowAssumption ==
    \A k \in Cache : 2 * Skew[k] <= TTL \/ Skew[k] + Ahead[k] <= TTL

VARIABLES
    now,       \* the bot's clock
    out,       \* frames sent so far; any of them may arrive, again and again
    ts,        \* ts[f]: the time in f
    known,     \* senders with a record and key here
    ring,      \* entries of the rings
    idx,       \* next slot of each ring
    ran,       \* history: how often each frame ran; 2 stands for more than once
    spilled    \* history: frames whose entry was overwritten within the TTL

vars == <<now, out, ts, known, ring, idx, ran, spilled>>

Slots(k) == 0..Size[k] - 1
Entry == [nonce : Frame \cup {NoFrame}, at : Nat]

\* NonceCache::new
EmptyRings == [k \in Cache |-> [i \in Slots(k) |-> [nonce |-> NoFrame, at |-> 0]]]

---------------------------------------------------------------------------
Init == /\ now = 0 /\ out = {} /\ ts = [f \in Frame |-> 0] /\ known \in SUBSET Sender
        /\ ring = EmptyRings
        /\ idx = [k \in Cache |-> 0]
        /\ ran = [f \in Frame |-> 0] /\ spilled = {}

\* b2_send, or a user's client: the frame is stamped by the sender's clock.
Send(f, d) == /\ f \notin out /\ out' = out \cup {f}
              /\ ts' = [ts EXCEPT ![f] = now + d]
              /\ UNCHANGED <<now, known, ring, idx, ran, spilled>>

Live(e) == e.nonce # NoFrame /\ now - e.at <= TTL

\* Mutant: an entry is good until its TTL is up, not while.
SeenShort(f) == \E i \in Slots(CacheOf[f]) :
    ring[CacheOf[f]][i].nonce = f /\ now - ring[CacheOf[f]][i].at < TTL

\* NonceCache::seen
Seen(f) == \E i \in Slots(CacheOf[f]) :
    ring[CacheOf[f]][i].nonce = f /\ now - ring[CacheOf[f]][i].at <= TTL

InWindow(f) == /\ now - ts[f] <= Skew[CacheOf[f]]
               /\ ts[f] - now <= Skew[CacheOf[f]]

\* user_candidates, trusted_bot_by_uuid: a record of the sender, with a key,
\* opens the frame.
Opens(f) == f \in out /\ From[f] \in known

\* The checks of all handlers, in any order: none has an effect before Record.
Accepts(f) == Opens(f) /\ InWindow(f) /\ ~Seen(f)

\* NonceCache::record; history: an entry within its TTL is lost.
Record(f) == LET k == CacheOf[f] IN
    /\ ring' = [ring EXCEPT ![k][idx[k]] = [nonce |-> f, at |-> now]]
    /\ idx' = [idx EXCEPT ![k] = (@ + 1) % Size[k]]
    /\ spilled' = IF Live(ring[k][idx[k]]) THEN spilled \cup {ring[k][idx[k]].nonce} ELSE spilled

\* The frame opens, is in time and new: it is recorded, and runs or not.
Run(f) == /\ Accepts(f) /\ Record(f)
          /\ ran' = [ran EXCEPT ![f] = IF @ < 2 THEN @ + 1 ELSE @]
          /\ UNCHANGED <<now, out, ts, known>>
Dropped(f) == /\ Accepts(f) /\ Record(f)
              /\ UNCHANGED <<now, out, ts, known, ran>>

\* open_and_dispatch: an unknown verb, or a command that does not apply, is
\* dropped.
DispatchB2(f) == Kind[f] = "B2" /\ (Run(f) \/ Dropped(f))

\* a2_handle_auth: the answer is sent, or held back so as not to flood.
HandleAuth(f) == Kind[f] = "A2A" /\ (Run(f) \/ Dropped(f))

\* a2_open_command, then run_user_command: the flood limit of the user, or a
\* bar in the command, drops it.
OpenCommand(f) == Kind[f] = "A2" /\ (Run(f) \/ Dropped(f))

\* The hub or an admin adds or removes the record of a sender.
Records(s) == /\ known' = IF s \in known THEN known \ {s} ELSE known \cup {s}
              /\ UNCHANGED <<now, out, ts, ring, idx, ran, spilled>>

\* The rings live in memory: a restart within the TTL forgets their frames.
Restart == /\ ring' = EmptyRings /\ idx' = [k \in Cache |-> 0]
           /\ spilled' = spilled \cup {f \in Frame : \E k \in Cache : \E i \in Slots(k) :
                                         ring[k][i].nonce = f /\ Live(ring[k][i])}
           /\ UNCHANGED <<now, out, ts, known, ran>>

Tick == /\ now < MaxTime /\ now' = now + 1
        /\ UNCHANGED <<out, ts, known, ring, idx, ran, spilled>>

Next == \/ \E f \in Frame : \/ DispatchB2(f) \/ HandleAuth(f) \/ OpenCommand(f)
                          \/ \E d \in -Behind..Ahead[CacheOf[f]] : Send(f, d)
        \/ \E s \in Sender : Records(s)
        \/ Restart \/ Tick

Spec == Init /\ [][Next]_vars

---------------------------------------------------------------------------
TypeOK == /\ now \in Nat /\ out \subseteq Frame /\ ts \in [Frame -> Int] /\ known \subseteq Sender
          /\ DOMAIN ring = Cache /\ \A k \in Cache : ring[k] \in [Slots(k) -> Entry]
          /\ DOMAIN idx = Cache /\ \A k \in Cache : idx[k] \in Slots(k)
          /\ ran \in [Frame -> 0..2] /\ spilled \subseteq Frame

\* open_and_dispatch, a2_handle_auth, a2_open_command: however late and often
\* a frame is delivered, and however the two clocks differ, it runs at most
\* once, unless the bot restarted or as many frames as the ring has slots
\* came within the TTL.  Stated by AtMostOnce, which this module implements.
Promise == INSTANCE AtMostOnce WITH forgotten <- spilled
KeepsPromise == Promise!Spec

Cached(f) == \E i \in Slots(CacheOf[f]) :
    /\ ring[CacheOf[f]][i].nonce = f
    /\ ts[f] + Skew[CacheOf[f]] - ring[CacheOf[f]][i].at <= TTL

Over(f) == now > ts[f] + Skew[CacheOf[f]]

\* NonceCache: the entry of a frame that ran outlives the time in which the
\* frame would be accepted again, unless it was pushed out.
Remembered == \A f \in Frame : ran[f] > 0 /\ f \notin spilled => Cached(f) \/ Over(f)

---------------------------------------------------------------------------
(* The inductive invariant.                                                *)
SentBefore == \A f \in out : ts[f] <= now + Ahead[CacheOf[f]]
RanWasSent == \A f \in Frame : ran[f] > 0 => f \in out
Inv == TypeOK /\ SentBefore /\ RanWasSent /\ Remembered
=============================================================================
