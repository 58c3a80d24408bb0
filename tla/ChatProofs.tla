----------------------------- MODULE ChatProofs -----------------------------
(***************************************************************************)
(* Chats and parked listings never get mixed up, and a listing is answered *)
(* once and not forgotten, for every number of users, slots, parked        *)
(* listings and offers and all timeouts.                                   *)
(*                                                                         *)
(* Most steps free a session or leave owner and number as they are         *)
(* (Kept); an offer gives one slot a number no session and no parked       *)
(* listing has (OfferStep).                                                *)
(***************************************************************************)
EXTENDS Chat, FiniteSetTheorems, TLAPS

\* A slot that is freed, or keeps its owner and number in the same or
\* in another phase.
Kept(i) == \/ dcc'[i] = Free
           \/ /\ dcc'[i] \in Session /\ dcc[i].phase # "free" /\ dcc'[i].phase # "free"
              /\ dcc'[i].user = dcc[i].user /\ dcc'[i].id = dcc[i].id
           \/ dcc'[i] = dcc[i]

\* The part of the invariant that is about the sessions.
Sessions == /\ dcc \in [Slot -> Session] /\ offers \in Nat
            /\ \A i \in Slot : SessionSound(i)
            /\ OneChatPerUser

LEMMA FreeType == /\ Free \in Session
                  /\ Free.phase = "free" /\ Free.user = None /\ Free.id = 0
BY DEF Free, Session, Phase

\* Steps that only free or keep sessions preserve what is said of them.
LEMMA KeptSessions ==
    ASSUME Sessions, DOMAIN dcc' = Slot, dcc' = [i \in Slot |-> dcc'[i]],
           \A i \in Slot : Kept(i), offers' = offers
    PROVE  /\ Sessions'
           /\ \A p : ParkedSound(p) /\ asked \subseteq asked' => ParkedSound(p)'
<1>1. \A i \in Slot : dcc'[i] \in Session
  BY FreeType DEF Sessions, Kept
<1>2. dcc' \in [Slot -> Session]
  BY <1>1
<1>3. ASSUME NEW i \in Slot PROVE SessionSound(i)'
  <2>1. SessionSound(i)
    BY DEF Sessions
  <2>2. CASE dcc'[i] = Free
    BY <2>2 DEF SessionSound, Free
  <2>3. CASE dcc'[i] # Free
    BY <2>1, <2>3 DEF Kept, SessionSound
  <2> QED BY <2>2, <2>3
<1>4. OneChatPerUser'
  <2> SUFFICES ASSUME NEW i \in Slot, NEW j \in Slot,
                      dcc'[i].phase # "free", dcc'[i].user = dcc'[j].user
               PROVE  i = j
    BY DEF OneChatPerUser
  <2>0. Kept(i) /\ Kept(j) /\ dcc'[i] # Free
    BY DEF Free
  <2>1. dcc[i].phase # "free" /\ dcc'[i].user = dcc[i].user
    BY <2>0 DEF Kept
  <2>2. dcc[i].user \in User
    BY <2>1 DEF Sessions, SessionSound
  <2>3. dcc'[j] # Free
    BY <2>1, <2>2, ChatAssumption, FreeType
  <2>4. dcc'[j].user = dcc[j].user
    BY <2>0, <2>3 DEF Kept
  <2> QED BY <2>1, <2>4 DEF Sessions, OneChatPerUser
<1>5. ASSUME NEW p, ParkedSound(p), asked \subseteq asked' PROVE ParkedSound(p)'
  <2>1. CASE p.slot = None /\ p.id = 0
    BY <1>5, <2>1 DEF ParkedSound
  <2>2. CASE p.slot \in Slot /\ p.id \in 1..offers
    <3>1. dcc[p.slot].id = p.id => dcc[p.slot].user = p.user
      BY <1>5, <2>2, ChatAssumption DEF ParkedSound
    <3>2. dcc'[p.slot].id = p.id => dcc'[p.slot].user = p.user
      BY <2>2, <3>1 DEF Kept, Free, Sessions
    <3> QED BY <1>5, <2>2, <3>2 DEF ParkedSound
  <2> QED BY <1>5, <2>1, <2>2 DEF ParkedSound
<1> QED BY <1>2, <1>3, <1>4, <1>5 DEF Sessions

\* An offer preserves them too: the user's other sessions are gone and the
\* number of the new one is new.
LEMMA OfferSessions ==
    ASSUME Sessions, NEW u \in User, offer(u)
    PROVE  /\ Sessions'
           /\ \A p : ParkedSound(p) /\ asked \subseteq asked' => ParkedSound(p)'
<1> DEFINE new == NewOffer(u)
           F == {i \in Slot : Replaced(u)[i].phase = "free"}
           m == Min(F)
<1>1. offers \in Nat /\ dcc \in [Slot -> Session]
  BY DEF Sessions
<1>2. /\ new \in Session /\ new.phase = "offered" /\ new.user = u /\ new.id = offers + 1
  BY <1>1 DEF NewOffer, Session, Phase
<1>3. \A i \in Slot : Replaced(u)[i] =
          IF dcc[i].phase # "free" /\ dcc[i].user = u THEN Free ELSE dcc[i]
  BY DEF Replaced
<1>4. Replaced(u) \in [Slot -> Session]
  BY <1>1, FreeType DEF Replaced
<1>5. \/ dcc' = Replaced(u)
      \/ dcc' = [Replaced(u) EXCEPT ![m] = new]
  <2>1. dcc' = Offered(u)
    BY DEF offer
  <2>2. Offered(u) = IF F = {} THEN Replaced(u) ELSE [Replaced(u) EXCEPT ![m] = new]
    BY Zenon DEF Offered
  <2> QED BY <2>1, <2>2
<1> HIDE DEF new, F, m
<1>6. dcc' \in [Slot -> Session]
  BY <1>2, <1>4, <1>5
<1>7. ASSUME NEW i \in Slot
      PROVE  \/ dcc'[i] = new /\ i = m
             \/ dcc'[i] = Free
             \/ dcc'[i] = dcc[i] /\ (dcc[i].phase = "free" \/ dcc[i].user # u)
  <2>1. dcc'[i] = Replaced(u)[i] \/ (i = m /\ dcc'[i] = new)
    BY <1>2, <1>4, <1>5
  <2> QED BY <1>3, <2>1
<1>8. /\ offers' \in Nat /\ offers <= offers'
      /\ \A i \in Slot : dcc'[i] = new => offers' = offers + 1
  <2>1. offers' = IF \E i \in Slot : dcc'[i].id = offers + 1 THEN offers + 1 ELSE offers
    BY DEF offer
  <2> QED BY <1>1, <1>2, <2>1
<1>9. ASSUME NEW i \in Slot PROVE SessionSound(i)'
  <2>1. SessionSound(i)
    BY DEF Sessions
  <2>2. CASE dcc'[i] = new
    <3>1. dcc'[i].id \in 1..offers'
      BY <1>1, <1>2, <1>8, <2>2
    <3> QED BY <1>2, <2>2, <3>1 DEF SessionSound
  <2>3. CASE dcc'[i] = Free
    BY <2>3 DEF SessionSound, Free
  <2>4. CASE dcc'[i] = dcc[i]
    BY <1>1, <1>8, <2>1, <2>4 DEF SessionSound
  <2> QED BY <1>7, <2>2, <2>3, <2>4
<1>10. OneChatPerUser'
  <2> SUFFICES ASSUME NEW i \in Slot, NEW j \in Slot,
                      dcc'[i].phase # "free", dcc'[i].user = dcc'[j].user
               PROVE  i = j
    BY DEF OneChatPerUser
  <2>1. dcc'[i].user \in User
    BY <1>9 DEF SessionSound
  <2>2. dcc'[j].phase # "free"
    BY <1>9, <2>1, ChatAssumption DEF SessionSound
  <2>3. dcc'[i] # Free /\ dcc'[j] # Free
    BY <2>2 DEF Free
  <2> QED BY <1>2, <1>7, <2>2, <2>3 DEF Sessions, OneChatPerUser
<1>11. ASSUME NEW p, ParkedSound(p), asked \subseteq asked' PROVE ParkedSound(p)'
  <2>1. CASE p.slot = None /\ p.id = 0
    BY <1>11, <2>1 DEF ParkedSound
  <2>2. CASE p.slot \in Slot /\ p.id \in 1..offers
    <3>1. dcc[p.slot].id = p.id => dcc[p.slot].user = p.user
      BY <1>11, <2>2, ChatAssumption DEF ParkedSound
    <3>2. p.id # offers + 1 /\ p.id # 0
      BY <1>1, <2>2
    <3>3. dcc'[p.slot].id = p.id => dcc'[p.slot] = dcc[p.slot]
      BY <1>2, <1>7, <2>2, <3>2 DEF Free
    <3>4. p.id \in 1..offers'
      BY <1>1, <1>8, <2>2
    <3> QED BY <1>11, <2>2, <3>1, <3>3, <3>4 DEF ParkedSound
  <2> QED BY <1>11, <2>1, <2>2 DEF ParkedSound
<1> QED BY <1>6, <1>8, <1>9, <1>10, <1>11 DEF Sessions

\* What activity_finish sends goes to the askers of the queries it is given.
LEMMA FinishToAsker ==
    ASSUME NEW Q, \A q \in Q : ParkedSound(q), activity_finish(Q), answers \subseteq asked
    PROVE  answers' \subseteq asked
<1> SUFFICES ASSUME NEW q \in Q, ~DccGone(q) PROVE Receiver(q) \in asked
  BY DEF activity_finish, Finished
<1>1. [q |-> q.q, user |-> q.user, id |-> q.id] \in asked
  BY DEF ParkedSound
<1>2. Receiver(q).q = q.q /\ Receiver(q).user = q.user /\ Receiver(q).id = q.id
  <2>1. CASE q.slot = None
    BY <2>1, ChatAssumption DEF ParkedSound, Receiver
  <2>2. CASE q.slot # None
    <3>1. dcc[q.slot].id = q.id /\ dcc[q.slot].user = q.user
      BY <2>2 DEF ParkedSound, DccGone
    <3> QED BY <2>2, <3>1 DEF Receiver
  <2> QED BY <2>1, <2>2
<1>3. Receiver(q) = [q |-> q.q, user |-> q.user, id |-> q.id]
  BY <1>2 DEF Receiver
<1> QED BY <1>1, <1>3

\* A listing is parked, or answered at once, for the user and in the chat
\* that asked for it.
LEMMA ListingSound ==
    ASSUME Sessions, NEW u \in User, NEW i, NEW id, Listing(u, i, id),
           answers \subseteq asked, \A p \in parked : ParkedSound(p),
           \/ i = None /\ id = 0
           \/ i \in Slot /\ id = dcc[i].id /\ u = dcc[i].user /\ id \in 1..offers
    PROVE  /\ asked \subseteq asked' /\ answers' \subseteq asked'
           /\ \A p \in parked' \ parked :
                /\ p.slot = i /\ p.id = id /\ p.user = u
                /\ p \in [q : Query, user : User, slot : Slot \cup {None}, id : Nat, age : Nat]
                /\ [q |-> p.q, user |-> p.user, id |-> p.id] \in asked'
<1> DEFINE k == Cardinality(asked) + 1
           q == [q |-> k, user |-> u, slot |-> i, id |-> id, age |-> 0]
<1>1. k \in Query /\ asked' = asked \cup {[q |-> k, user |-> u, id |-> id]}
  BY DEF Listing
<1>2. id \in Nat /\ i \in Slot \cup {None}
  BY DEF Sessions
<1> HIDE DEF k
<1>3. q \in [q : Query, user : User, slot : Slot \cup {None}, id : Nat, age : Nat]
  BY <1>1, <1>2
<1>4. [q |-> q.q, user |-> q.user, id |-> q.id] \in asked'
  BY <1>1
<1>5. CASE parked' = parked \cup {q} /\ answers' = answers
  BY <1>1, <1>3, <1>4, <1>5
<1>6. CASE activity_finish({q}) /\ parked' = parked
  <2>1. Receiver(q) = [q |-> k, user |-> u, id |-> id]
    BY ChatAssumption DEF Receiver
  <2>2. answers' \subseteq answers \cup {Receiver(q)}
    BY <1>6 DEF activity_finish, Finished
  <2> QED BY <1>1, <1>6, <2>1, <2>2
<1>7. \/ parked' = parked \cup {q} /\ answers' = answers
      \/ activity_finish({q}) /\ parked' = parked
  BY DEF Listing, k
<1> QED BY <1>5, <1>6, <1>7

LEMMA ChatInit == Init => ChatInv
<1> SUFFICES ASSUME Init PROVE ChatInv
  OBVIOUS
<1>1. dcc \in [Slot -> Session] /\ \A i \in Slot : dcc[i] = Free
  BY FreeType DEF Init
<1>2. \A i \in Slot : SessionSound(i)
  BY <1>1 DEF SessionSound, Free
<1>3. OneChatPerUser
  BY <1>1, FreeType DEF OneChatPerUser
<1> QED BY <1>1, <1>2, <1>3 DEF Init, ChatInv, AnswersAsker

\* Steps that free or keep sessions and leave the listings.
LEMMA KeptStep ==
    ASSUME ChatInv, DOMAIN dcc' = Slot, dcc' = [i \in Slot |-> dcc'[i]],
           \A i \in Slot : Kept(i), UNCHANGED <<offers, asked, answers>>,
           \A p \in parked' : p \in parked
    PROVE  ChatInv'
<1>1. Sessions /\ (\A p \in parked : ParkedSound(p)) /\ AnswersAsker
  BY DEF ChatInv, Sessions
<1>2. Sessions' /\ \A p \in parked : ParkedSound(p)'
  BY <1>1, KeptSessions
<1> QED BY <1>1, <1>2 DEF ChatInv, Sessions, AnswersAsker

LEMMA ChatStep == ChatInv /\ [Next]_vars => ChatInv'
<1> SUFFICES ASSUME ChatInv, [Next]_vars PROVE ChatInv'
  OBVIOUS
<1>0. /\ Sessions /\ (\A p \in parked : ParkedSound(p)) /\ answers \subseteq asked
      /\ dcc \in [Slot -> Session] /\ \A i \in Slot : SessionSound(i)
  BY DEF ChatInv, Sessions, AnswersAsker
<1>1. ASSUME NEW u \in User, AskChat(u) PROVE ChatInv'
  <2>1. /\ offer(u)
        /\ UNCHANGED <<parked, asked, answers>>
    BY <1>1 DEF AskChat
  <2>2. Sessions' /\ \A p \in parked : ParkedSound(p)'
    BY <1>0, <2>1, OfferSessions
  <2> QED BY <1>0, <2>1, <2>2 DEF ChatInv, Sessions, AnswersAsker
<1>2. ASSUME NEW u \in User, AskListing(u) PROVE ChatInv'
  <2>1. Listing(u, None, 0) /\ UNCHANGED <<dcc, offers>>
    BY <1>2 DEF AskListing
  <2>2. /\ asked \subseteq asked' /\ answers' \subseteq asked'
        /\ \A p \in parked' \ parked :
             /\ p.slot = None /\ p.id = 0 /\ p.user = u
             /\ p \in [q : Query, user : User, slot : Slot \cup {None}, id : Nat, age : Nat]
             /\ [q |-> p.q, user |-> p.user, id |-> p.id] \in asked'
    BY <1>0, <2>1, ListingSound
  <2>3. \A p \in parked : ParkedSound(p)'
    BY <1>0, <2>1, <2>2 DEF ParkedSound
  <2>4. \A p \in parked' : ParkedSound(p)'
    BY <2>2, <2>3 DEF ParkedSound
  <2>5. Sessions'
    BY <1>0, <2>1 DEF Sessions, SessionSound, OneChatPerUser
  <2> QED BY <2>1, <2>2, <2>4, <2>5 DEF ChatInv, Sessions, AnswersAsker
<1>3. ASSUME NEW u \in User, Demote(u) PROVE ChatInv'
  BY <1>0, <1>3, KeptStep DEF Demote, Event, Kept
<1>4. ASSUME NEW i \in Slot, HandleCtcp(i) PROVE ChatInv'
  <2>1. \A j \in Slot : Kept(j)
    <3>1. CASE dcc' = [dcc EXCEPT ![i] = Free]
      BY <1>0, <3>1 DEF Kept
    <3>2. CASE dcc' = [dcc EXCEPT ![i].phase = "connecting", ![i].age = 0]
      <4>1. dcc[i].phase = "offered"
        BY <1>4 DEF HandleCtcp
      <4>2. Kept(i)
        BY <1>0, <3>2, <4>1 DEF Kept, Session, Phase
      <4> QED BY <1>0, <3>2, <4>2 DEF Kept
    <3> QED BY <1>4, <3>1, <3>2 DEF HandleCtcp
  <2>2. DOMAIN dcc' = Slot /\ dcc' = [j \in Slot |-> dcc'[j]]
    BY <1>0, <1>4 DEF HandleCtcp
  <2> QED BY <1>4, <2>1, <2>2, KeptStep DEF HandleCtcp
<1>5. ASSUME NEW i \in Slot, OnConnect(i) PROVE ChatInv'
  <2>1. \A j \in Slot : Kept(j)
    <3>1. CASE dcc' = [dcc EXCEPT ![i] = Free]
      BY <1>0, <3>1 DEF Kept
    <3>2. ASSUME NEW b \in BOOLEAN,
                 dcc' = [dcc EXCEPT ![i].phase = "open", ![i].age = 0, ![i].failed = b]
          PROVE  \A j \in Slot : Kept(j)
      <4>1. dcc[i].phase = "connecting"
        BY <1>0, <1>5 DEF OnConnect, SessionSound
      <4>2. Kept(i)
        BY <1>0, <3>2, <4>1 DEF Kept, Session, Phase
      <4> QED BY <1>0, <3>2, <4>2 DEF Kept
    <3> QED BY <1>5, <3>1, <3>2 DEF OnConnect
  <2>2. DOMAIN dcc' = Slot /\ dcc' = [j \in Slot |-> dcc'[j]]
    BY <1>0, <1>5 DEF OnConnect
  <2> QED BY <1>5, <2>1, <2>2, KeptStep DEF OnConnect
<1>6. ASSUME NEW i \in Slot, HandleEvent(i) \/ ReadEnd(i) PROVE ChatInv'
  <2>1. dcc' = [dcc EXCEPT ![i] = Free] /\ UNCHANGED <<parked, offers, asked, answers>>
    BY <1>6 DEF HandleEvent, ReadEnd
  <2>2. \A j \in Slot : Kept(j)
    BY <1>0, <2>1 DEF Kept
  <2> QED BY <1>0, <2>1, <2>2, KeptStep
<1>7. ASSUME NEW i \in Slot, ReadOther(i) PROVE ChatInv'
  <2>1. PICK b \in BOOLEAN : dcc' = [dcc EXCEPT ![i].age = 0, ![i].failed = b]
    BY <1>7 DEF ReadOther
  <2>2. Kept(i)
    <3>1. dcc[i].phase = "open"
      BY <1>7 DEF ReadOther, Readable
    <3> QED BY <1>0, <2>1, <3>1 DEF Kept, Session, Phase
  <2>3. \A j \in Slot : Kept(j)
    BY <1>0, <2>1, <2>2 DEF Kept
  <2>4. UNCHANGED <<parked, offers, asked, answers>>
    BY <1>7 DEF ReadOther
  <2> QED BY <1>0, <2>1, <2>3, <2>4, KeptStep
<1>8. ASSUME NEW q \in Query, NEW more \in BOOLEAN, ActivityReply(q, more) PROVE ChatInv'
  <2>1. /\ UNCHANGED <<dcc, offers, asked>> /\ parked' \subseteq parked
        /\ activity_finish(Answered(q, more)) /\ Answered(q, more) \subseteq parked
    BY <1>8 DEF ActivityReply, Answered
  <2>2. answers' \subseteq asked'
    BY <1>0, <2>1, FinishToAsker
  <2>3. Sessions' /\ \A p \in parked : ParkedSound(p)'
    BY <1>0, <2>1 DEF Sessions, SessionSound, OneChatPerUser, ParkedSound
  <2> QED BY <2>1, <2>2, <2>3 DEF ChatInv, Sessions, AnswersAsker
<1>9. ASSUME NEW i \in Slot, ReadListing(i) PROVE ChatInv'
  <2>1. /\ Listing(dcc[i].user, i, dcc[i].id) /\ dcc' = [dcc EXCEPT ![i].age = 0]
        /\ UNCHANGED offers
    BY <1>9 DEF ReadListing
  <2>2. /\ dcc[i].phase = "open" /\ dcc[i].user \in User
        /\ dcc[i].id \in 1..offers
    BY <1>0, <1>9 DEF ReadListing, Readable, SessionSound
  <2>3. /\ asked \subseteq asked' /\ answers' \subseteq asked'
        /\ \A p \in parked' \ parked :
             /\ p.slot = i /\ p.id = dcc[i].id /\ p.user = dcc[i].user
             /\ p \in [q : Query, user : User, slot : Slot \cup {None}, id : Nat, age : Nat]
             /\ [q |-> p.q, user |-> p.user, id |-> p.id] \in asked'
    BY <1>0, <2>1, <2>2, ListingSound
  <2>4. Kept(i)
    BY <1>0, <2>1, <2>2 DEF Kept, Session
  <2>5. \A j \in Slot : Kept(j)
    BY <1>0, <2>1, <2>4 DEF Kept
  <2>6. Sessions' /\ \A p \in parked : ParkedSound(p)'
    BY <1>0, <2>1, <2>3, <2>5, KeptSessions
  <2>7. dcc'[i].id = dcc[i].id /\ dcc'[i].user = dcc[i].user
    BY <1>0, <2>1 DEF Session
  <2>8. \A p \in parked' : ParkedSound(p)'
    BY <2>1, <2>2, <2>3, <2>6, <2>7 DEF ParkedSound
  <2> QED BY <2>3, <2>6, <2>8 DEF ChatInv, Sessions, AnswersAsker
<1>10. ASSUME Tick PROVE ChatInv'
  <2>1. /\ UNCHANGED <<offers, asked>>
        /\ activity_finish(Overdue)
        /\ parked' = {Older(q, QueryTimeout - 1) : q \in parked \ Overdue}
    BY <1>10 DEF Tick
  <2>2. answers' \subseteq asked'
    BY <1>0, <2>1, FinishToAsker DEF Overdue
  <2>3. \A s \in Session : /\ Older(s, LastAge) \in Session
                           /\ Older(s, LastAge).phase = s.phase /\ Older(s, LastAge).user = s.user
                           /\ Older(s, LastAge).id = s.id
    BY DEF Older, Session
  <2>4. PICK f \in SUBSET Filled : dcc' = [i \in Slot |->
              IF TimedOut(dcc[i]) \/ dcc[i].failed \/ i \in f THEN Free
              ELSE IF dcc[i].phase = "free" THEN dcc[i] ELSE Older(dcc[i], LastAge)]
    BY <1>10 DEF Tick
  <2>5. \A i \in Slot : Kept(i)
    BY <1>0, <2>3, <2>4 DEF Kept, SessionSound
  <2>6. Sessions' /\ \A p \in parked : ParkedSound(p)'
    BY <1>0, <2>1, <2>4, <2>5, KeptSessions
  <2>7. ASSUME NEW q \in parked PROVE ParkedSound(Older(q, QueryTimeout - 1))'
    <3> DEFINE o == Older(q, QueryTimeout - 1)
    <3>1. q \in [q : Query, user : User, slot : Slot \cup {None}, id : Nat, age : Nat]
      BY <1>0 DEF ParkedSound
    <3>2. /\ o \in [q : Query, user : User, slot : Slot \cup {None}, id : Nat, age : Nat]
          /\ o.q = q.q /\ o.user = q.user /\ o.slot = q.slot /\ o.id = q.id
      BY <3>1 DEF Older
    <3> HIDE DEF o
    <3>3. ParkedSound(q)'
      BY <2>6
    <3>4. ParkedSound(o)'
      BY <3>2, <3>3 DEF ParkedSound
    <3> QED BY <3>4 DEF o
  <2> QED BY <2>1, <2>2, <2>6, <2>7 DEF ChatInv, Sessions, AnswersAsker
<1>11. CASE HubLink
  BY <1>0, <1>11, KeptStep DEF HubLink, Event, Kept
<1>12. CASE CloseAll
  BY <1>12, KeptStep DEF CloseAll, Event, Kept
<1>13. CASE UNCHANGED vars
  BY <1>13 DEF vars, ChatInv, SessionSound, ParkedSound, OneChatPerUser, AnswersAsker
<1> QED BY <1>1, <1>2, <1>3, <1>4, <1>5, <1>6, <1>7, <1>8, <1>9, <1>10,
       <1>11, <1>12, <1>13 DEF Next

\* dcc::offer: a user has one chat at most.
THEOREM OneChat == Spec => []OneChatPerUser
<1>1. ChatInv => OneChatPerUser
  BY DEF ChatInv
<1> QED BY <1>1, ChatInit, ChatStep, PTL DEF Spec

\* activity_finish: a listing goes to the user and the chat that asked.
THEOREM RightAsker == Spec => []AnswersAsker
<1>1. ChatInv => AnswersAsker
  BY DEF ChatInv
<1> QED BY <1>1, ChatInit, ChatStep, PTL DEF Spec
---------------------------------------------------------------------------
(* No listing is answered twice.  The number of a listing is the number of *)
(* those asked for so far, so that a new one has had no answer; one that   *)
(* is parked has had none either, and is parked once: the last part of the *)
(* hub's answer and the timeout take it off the list as they answer it.    *)

Numbered == /\ IsFiniteSet(asked)
            /\ \A a \in asked : a.q \in 1..Cardinality(asked)

ParkedOnce == \A p, r \in parked : p.q = r.q => p = r

Waiting == \A p \in parked : /\ p.q \in Query /\ p.q \in 1..Cardinality(asked)
                             /\ got[p.q] = 0

Counted == /\ got \in [Query -> 0..1]
           /\ \A k \in Query : k \notin 1..Cardinality(asked) => got[k] = 0

OnceInv == Numbered /\ ParkedOnce /\ Waiting /\ Counted

\* The queries that are answered now had no answer so far.
LEMMA FinishOnce ==
    ASSUME NEW Q, got \in [Query -> 0..1], activity_finish(Q),
           \A q \in Q : q.q \in Query /\ got[q.q] = 0
    PROVE  /\ got' \in [Query -> 0..1]
           /\ \A k \in Query : (\A q \in Q : q.q # k) => got'[k] = got[k]
           /\ \A k \in Query : got[k] > 0 => got'[k] > 0
           /\ \A q \in Q : ~DccGone(q) => got'[q.q] = 1
<1>1. got' = [k \in Query |->
                IF got[k] < 2 /\ \E q \in Finished(Q) : q.q = k THEN got[k] + 1 ELSE got[k]]
  BY DEF activity_finish
<1>2. Finished(Q) \subseteq Q /\ \A q \in Q : ~DccGone(q) => q \in Finished(Q)
  BY DEF Finished
<1>3. \A k \in Query : got[k] \in 0..1
  OBVIOUS
<1>4. ASSUME NEW k \in Query PROVE got'[k] \in 0..1
  BY <1>1, <1>2, <1>3
<1> QED BY <1>1, <1>2, <1>3, <1>4

\* Asking takes the next number; the listing is parked or answered under it.
LEMMA ListingOnce ==
    ASSUME OnceInv, NEW u, NEW i, NEW id, Listing(u, i, id)
    PROVE  OnceInv' /\ parked \subseteq parked'
<1> DEFINE n == Cardinality(asked)
           a == [q |-> n + 1, user |-> u, id |-> id]
           q == [q |-> n + 1, user |-> u, slot |-> i, id |-> id, age |-> 0]
<1>1. n + 1 \in Query /\ asked' = asked \cup {a}
  BY DEF Listing
<1>2. \/ parked' = parked \cup {q} /\ got' = got
      \/ activity_finish({q}) /\ parked' = parked
  BY DEF Listing
<1>3. n \in Nat
  BY FS_CardinalityType DEF OnceInv, Numbered
<1>4. a \notin asked
  BY <1>3 DEF OnceInv, Numbered
<1>5. IsFiniteSet(asked') /\ Cardinality(asked') = n + 1
  BY <1>1, <1>4, FS_AddElement DEF OnceInv, Numbered
<1> HIDE DEF n
<1>6. a.q = n + 1 /\ q.q = n + 1
  OBVIOUS
<1> HIDE DEF a, q
<1>7. Numbered'
  <2>1. \A x \in asked : x.q \in 1..n
    BY DEF OnceInv, Numbered, n
  <2>2. \A x \in asked' : x.q \in 1..n + 1
    BY <1>1, <1>3, <1>6, <2>1
  <2> QED BY <1>5, <2>2 DEF Numbered
<1>8. /\ got \in [Query -> 0..1] /\ \A k \in Query : k \notin 1..n => got[k] = 0
      /\ \A p \in parked : p.q \in Query /\ p.q \in 1..n /\ got[p.q] = 0
  BY DEF OnceInv, Waiting, Counted, n
<1>9. got[n + 1] = 0
  BY <1>1, <1>3, <1>8
<1>10. CASE parked' = parked \cup {q} /\ got' = got
  <2>1. \A p \in parked' : p.q \in Query /\ p.q \in 1..n + 1 /\ got'[p.q] = 0
    BY <1>1, <1>3, <1>6, <1>8, <1>9, <1>10
  <2>2. ParkedOnce'
    BY <1>3, <1>6, <1>8, <1>10 DEF ParkedOnce, OnceInv
  <2>3. \A k \in Query : k \notin 1..n + 1 => got'[k] = 0
    BY <1>3, <1>8, <1>10
  <2> QED BY <1>5, <1>7, <1>8, <1>10, <2>1, <2>2, <2>3 DEF OnceInv, Waiting, Counted
<1>11. CASE activity_finish({q}) /\ parked' = parked
  <2>1. /\ got' \in [Query -> 0..1]
        /\ \A k \in Query : k # n + 1 => got'[k] = got[k]
    BY <1>1, <1>6, <1>8, <1>9, <1>11, FinishOnce
  <2>2. \A p \in parked' : p.q \in Query /\ p.q \in 1..n + 1 /\ got'[p.q] = 0
    BY <1>3, <1>8, <1>11, <2>1
  <2>3. ParkedOnce'
    BY <1>11 DEF ParkedOnce, OnceInv
  <2>4. \A k \in Query : k \notin 1..n + 1 => got'[k] = 0
    BY <1>3, <1>8, <2>1
  <2>5. Waiting' /\ Counted'
    BY <1>5, <2>1, <2>2, <2>4 DEF Waiting, Counted
  <2> QED BY <1>7, <1>11, <2>3, <2>5 DEF OnceInv
<1> QED BY <1>2, <1>10, <1>11

\* Queries that leave the list as they are answered.
LEMMA AnswerOnce ==
    ASSUME OnceInv, NEW Q \in SUBSET parked, activity_finish(Q), UNCHANGED asked,
           \A r \in parked' : \E p \in parked \ Q : p.q = r.q,
           ParkedOnce'
    PROVE  OnceInv'
<1>1. /\ got \in [Query -> 0..1] /\ \A q \in Q : q.q \in Query /\ got[q.q] = 0
  BY DEF OnceInv, Waiting, Counted
<1>2. /\ got' \in [Query -> 0..1]
      /\ \A k \in Query : (\A q \in Q : q.q # k) => got'[k] = got[k]
  BY <1>1, FinishOnce
<1>3. Waiting'
  <2> SUFFICES ASSUME NEW r \in parked'
               PROVE  r.q \in Query /\ r.q \in 1..Cardinality(asked) /\ got'[r.q] = 0
    BY DEF Waiting
  <2>1. PICK p \in parked \ Q : p.q = r.q
    OBVIOUS
  <2>2. \A q \in Q : q.q # p.q
    BY DEF OnceInv, ParkedOnce
  <2> QED BY <1>2, <2>1, <2>2 DEF OnceInv, Waiting
<1>4. \A k \in Query : k \notin 1..Cardinality(asked) => got'[k] = 0
  BY <1>2 DEF OnceInv, Waiting, Counted
<1> QED BY <1>2, <1>3, <1>4 DEF OnceInv, Numbered, Counted

LEMMA OnceInit == Init => OnceInv
<1> SUFFICES ASSUME Init PROVE OnceInv
  OBVIOUS
<1>1. asked = {} /\ parked = {} /\ got = [q \in Query |-> 0]
  BY DEF Init
<1>2. IsFiniteSet(asked)
  BY <1>1, FS_EmptySet
<1> QED BY <1>1, <1>2 DEF OnceInv, Numbered, ParkedOnce, Waiting, Counted

\* The rounds of the loop only age what stays parked.
LEMMA TickOnce == OnceInv /\ ChatInv /\ Tick => OnceInv'
<1> SUFFICES ASSUME OnceInv, ChatInv, Tick PROVE OnceInv'
  OBVIOUS
<1> DEFINE o(q) == Older(q, QueryTimeout - 1)
<1>1. /\ activity_finish(Overdue) /\ UNCHANGED asked
      /\ parked' = {o(q) : q \in parked \ Overdue}
  BY DEF Tick
<1>2. \A p \in parked : o(p).q = p.q
  BY DEF ChatInv, ParkedSound, Older
<1> HIDE DEF o
<1>3. Overdue \in SUBSET parked
  BY DEF Overdue
<1>4. \A r \in parked' : \E p \in parked \ Overdue : p.q = r.q /\ r = o(p)
  BY <1>1, <1>2
<1>5. ParkedOnce'
  BY <1>4 DEF OnceInv, ParkedOnce
<1> QED BY <1>1, <1>3, <1>4, <1>5, AnswerOnce

LEMMA OnceStep == OnceInv /\ ChatInv /\ [Next]_vars => OnceInv'
<1> SUFFICES ASSUME OnceInv, ChatInv, [Next]_vars PROVE OnceInv'
  OBVIOUS
<1>1. ASSUME UNCHANGED <<asked, got>>, parked' \subseteq parked PROVE OnceInv'
  BY <1>1 DEF OnceInv, Numbered, ParkedOnce, Waiting, Counted
<1>2. ASSUME NEW u \in User, AskChat(u) \/ Demote(u) PROVE OnceInv'
  BY <1>1, <1>2 DEF AskChat, Demote
<1>3. ASSUME NEW u \in User, AskListing(u) PROVE OnceInv'
  <2>1. Listing(u, None, 0)
    BY <1>3 DEF AskListing
  <2> QED BY <2>1, ListingOnce
<1>4. ASSUME NEW i \in Slot,
             HandleCtcp(i) \/ OnConnect(i) \/ HandleEvent(i) \/ ReadEnd(i) \/ ReadOther(i)
      PROVE  OnceInv'
  BY <1>1, <1>4 DEF HandleCtcp, OnConnect, HandleEvent, ReadEnd, ReadOther
<1>5. ASSUME NEW i \in Slot, ReadListing(i) PROVE OnceInv'
  <2>1. Listing(dcc[i].user, i, dcc[i].id)
    BY <1>5 DEF ReadListing
  <2> QED BY <2>1, ListingOnce
<1>6. ASSUME NEW q \in Query, NEW more \in BOOLEAN, ActivityReply(q, more) PROVE OnceInv'
  <2>1. /\ activity_finish(Answered(q, more)) /\ UNCHANGED asked
        /\ parked' = parked \ Answered(q, more)
        /\ Answered(q, more) \in SUBSET parked
    BY <1>6 DEF ActivityReply, Answered
  <2>2. ParkedOnce'
    BY <2>1 DEF OnceInv, ParkedOnce
  <2> QED BY <2>1, <2>2, AnswerOnce
<1>7. CASE HubLink \/ CloseAll
  BY <1>1, <1>7 DEF HubLink, CloseAll
<1>8. CASE UNCHANGED vars
  BY <1>1, <1>8 DEF vars
<1> QED BY <1>2, <1>3, <1>4, <1>5, <1>6, <1>7, <1>8, TickOnce DEF Next

\* activity_reply, activity_tick: no command is answered twice, by the parts
\* of the hub's answer, by a late one or by the timeout.
THEOREM AnsweredOnceOnly == Spec => []AnsweredOnce
<1>1. OnceInv => AnsweredOnce
  BY DEF OnceInv, Counted, AnsweredOnce
<1> QED BY <1>1, ChatInit, ChatStep, OnceInit, OnceStep, PTL DEF Spec

\* activity_park: a parked listing stays parked or is answered, unless its
\* chat was closed before the answer or the process ends.
THEOREM NoListingForgotten == Spec => NoneForgotten
<1> DEFINE Remembered(p) == DccGone(p) \/ got'[p.q] > 0 \/ \E r \in parked' : r.q = p.q
<1>1. ASSUME OnceInv, ChatInv, [Next]_vars
      PROVE  [CloseAll \/ \A p \in parked : Remembered(p)]_vars
  <2>0. /\ got \in [Query -> 0..1]
        /\ \A p \in parked : p.q \in Query /\ got[p.q] = 0
    BY <1>1 DEF OnceInv, Waiting, Counted
  <2>1. ASSUME parked \subseteq parked' PROVE \A p \in parked : Remembered(p)
    BY <2>1
  <2>2. ASSUME NEW Q \in SUBSET parked, activity_finish(Q), NEW p \in parked,
               p \in Q \/ \E r \in parked' : r.q = p.q
        PROVE  Remembered(p)
    <3>1. \A q \in Q : ~DccGone(q) => got'[q.q] = 1
      BY <2>0, <2>2, FinishOnce
    <3> QED BY <2>2, <3>1
  <2>3. ASSUME NEW u \in User, AskListing(u) PROVE parked \subseteq parked'
    <3>1. Listing(u, None, 0)
      BY <2>3 DEF AskListing
    <3> QED BY <1>1, <3>1, ListingOnce
  <2>4. ASSUME NEW i \in Slot, ReadListing(i) PROVE parked \subseteq parked'
    <3>1. Listing(dcc[i].user, i, dcc[i].id)
      BY <2>4 DEF ReadListing
    <3> QED BY <1>1, <3>1, ListingOnce
  <2>5. ASSUME NEW q \in Query, NEW more \in BOOLEAN, ActivityReply(q, more), NEW p \in parked
        PROVE  Remembered(p)
    <3>1. /\ activity_finish(Answered(q, more)) /\ Answered(q, more) \in SUBSET parked
          /\ parked' = parked \ Answered(q, more)
      BY <2>5 DEF ActivityReply, Answered
    <3> HIDE DEF Remembered
    <3> QED BY <2>2, <3>1
  <2>6. ASSUME Tick, NEW p \in parked PROVE Remembered(p)
    <3>1. /\ activity_finish(Overdue) /\ Overdue \in SUBSET parked
          /\ parked' = {Older(q, QueryTimeout - 1) : q \in parked \ Overdue}
      BY <2>6 DEF Tick, Overdue
    <3>2. Older(p, QueryTimeout - 1).q = p.q
      BY <1>1 DEF ChatInv, ParkedSound, Older
    <3>3. p \in Overdue \/ \E r \in parked' : r.q = p.q
      BY <3>1, <3>2
    <3> HIDE DEF Remembered
    <3> QED BY <2>2, <3>1, <3>3
  <2>7. ASSUME NEW u \in User, AskChat(u) \/ Demote(u) PROVE parked \subseteq parked'
    BY <2>7 DEF AskChat, Demote
  <2>8. ASSUME NEW i \in Slot,
               HandleCtcp(i) \/ OnConnect(i) \/ HandleEvent(i) \/ ReadEnd(i) \/ ReadOther(i)
        PROVE  parked \subseteq parked'
    BY <2>8 DEF HandleCtcp, OnConnect, HandleEvent, ReadEnd, ReadOther
  <2>9. HubLink => parked \subseteq parked'
    BY DEF HubLink
  <2> HIDE DEF Remembered
  <2> QED BY <1>1, <2>1, <2>3, <2>4, <2>5, <2>6, <2>7, <2>8, <2>9 DEF Next
<1> QED BY <1>1, ChatInit, ChatStep, OnceInit, OnceStep, PTL DEF Spec, NoneForgotten
=============================================================================
