---------------------- MODULE ConversationStoreProofs ----------------------
(***************************************************************************)
(* Theorems about ConversationStore, for any conversations, any number of  *)
(* turns, any number of them in flight and any page size.                  *)
(***************************************************************************)
EXTENDS ConversationStore, FiniteSetTheorems, WellFoundedInduction, TLAPS

-----------------------------------------------------------------------------
(* What append makes of the item it loaded.                                *)
LEMMA WithMessageIs ==
  ASSUME NEW item \in Rows, NEW message \in Messages
  PROVE  /\ WithMessage(item, message) \in Rows
         /\ WithMessage(item, message) =
              [ turns |-> Append(item.turns, message), contact |-> item.contact,
                count |-> Len(item.turns) + 1, updatedAt |-> message.ts ]
<1> DEFINE longer == [item EXCEPT !.turns = Append(@, message)]
<1>1. longer = [turns |-> Append(item.turns, message), contact |-> item.contact,
                count |-> item.count, updatedAt |-> item.updatedAt]
  <2>1. /\ item = [f \in {"turns", "contact", "count", "updatedAt"} |-> item[f]]
        /\ longer = [item EXCEPT !.turns = Append(item.turns, message)]
    BY DEF Rows
  <2>2. QED BY <2>1
<1>2. Append(item.turns, message) \in Seq(Messages) /\ Len(item.turns) \in Nat
  BY DEF Rows
<1>3. /\ Len(Append(item.turns, message)) = Len(item.turns) + 1
      /\ Append(item.turns, message)[Len(item.turns) + 1] = message
  BY DEF Rows
<1>4. WithMessage(item, message) =
        [ turns |-> Append(item.turns, message), contact |-> item.contact,
          count |-> Len(item.turns) + 1, updatedAt |-> message.ts ]
  <2>1. WithMessage(item, message) = Refreshed(longer) BY DEF WithMessage
  <2>2. longer.turns = Append(item.turns, message) BY <1>1
  <2>3. Refreshed(longer) = [longer EXCEPT !.count = Len(item.turns) + 1, !.updatedAt = message.ts]
    BY <1>3, <2>2 DEF Refreshed
  <2>4. QED BY <1>1, <2>1, <2>3
<1>5. message.ts \in Nat BY DEF Messages
<1>6. QED BY <1>2, <1>4, <1>5 DEF Rows

LEMMA EmptyItemTyped == NoRow \in Rows
<1>1. <<>> \in Seq(Messages) OBVIOUS
<1>2. 0 \in TurnId BY StoreConstants DEF TurnId
<1>3. QED BY <1>1, <1>2 DEF NoRow, Rows

-----------------------------------------------------------------------------
(* Type correctness.                                                       *)
LEMMA InitTyped == Init => TypeOK
BY EmptyItemTyped, StoreConstants DEF Init, TypeOK, Locations, NoList, Lists, TurnId

LEMMA PutTyped ==
  ASSUME TypeOK, NEW c \in Conversations, NEW item \in Rows, PutItem(c, item)
  PROVE  /\ row' \in [Conversations -> Rows]
         /\ previous' \in [Conversations -> Rows]
         /\ list' \in Lists
<1>1. [list EXCEPT !.moved = @ \cup {c}] \in Lists BY DEF TypeOK, Lists
<1>2. QED BY <1>1 DEF TypeOK, PutItem

LEMMA AppendPutTyped ==
  ASSUME TypeOK, NEW t \in Turns, NEW by \in {"user", "reply"}, AppendPut(t, by)
  PROVE  /\ row' \in [Conversations -> Rows]
         /\ previous' \in [Conversations -> Rows]
         /\ list' \in Lists
         /\ accepted' \in [Conversations -> [turns : Seq(Messages), contact : TurnId]]
         /\ copy' \in [Turns -> Rows]
<1> DEFINE message == [turn |-> t, by |-> by, ts |-> at[t]]
<1>1. message \in Messages /\ conv[t] \in Conversations /\ copy[t] \in Rows
  BY DEF TypeOK, Messages
<1>2. WithMessage(copy[t], message) \in Rows BY <1>1, WithMessageIs
<1>3. PutItem(conv[t], WithMessage(copy[t], message)) BY DEF AppendPut
<1>4. /\ row' \in [Conversations -> Rows]
      /\ previous' \in [Conversations -> Rows]
      /\ list' \in Lists
  BY <1>1, <1>2, <1>3, PutTyped
<1>5. Append(accepted[conv[t]].turns, message) \in Seq(Messages)
  BY <1>1 DEF TypeOK
<1>6. accepted' \in [Conversations -> [turns : Seq(Messages), contact : TurnId]]
  BY <1>1, <1>5 DEF AppendPut, TypeOK
<1>7. copy' \in [Turns -> Rows] BY EmptyItemTyped DEF AppendPut, TypeOK
<1>8. QED BY <1>4, <1>6, <1>7

LEMMA ShowTyped ==
  ASSUME TypeOK, NEW from \in Lists, ShowPage(from)
  PROVE  list' \in Lists
<1>1. PICK next \in CursorAfter(PageOf(Below(from.cursor))) :
        list' = [from EXCEPT
                   !.shown  = [c \in Conversations |->
                                 from.shown[c] + IF c \in PageOf(Below(from.cursor))
                                                 THEN 1 ELSE 0],
                   !.cursor = next,
                   !.state  = IF next = 0 THEN "end" ELSE "more"]
  BY DEF ShowPage
<1>2. next \in Nat
  <2>1. next = 0 \/ \E c \in Conversations : next = row[c].updatedAt
    BY DEF CursorAfter, Oldest, PageOf, Below, Indexed
  <2>2. QED BY <2>1 DEF TypeOK, Rows
<1>3. \A c \in Conversations : from.shown[c] \in Nat BY DEF Lists
<1> DEFINE shown == [c \in Conversations |-> from.shown[c] + IF c \in PageOf(Below(from.cursor))
                                                             THEN 1 ELSE 0]
<1>4. shown \in [Conversations -> Nat] BY <1>3
<1> HIDE DEF shown
<1>5. list' = [from EXCEPT !.shown = shown, !.cursor = next,
                           !.state = IF next = 0 THEN "end" ELSE "more"]
  BY <1>1 DEF shown
<1>6. QED BY <1>2, <1>4, <1>5 DEF Lists

LEMMA StepTyped == TypeOK /\ [Next]_vars => TypeOK'
<1> SUFFICES ASSUME TypeOK, [Next]_vars PROVE TypeOK'
  OBVIOUS
<1>1. ASSUME NEW t \in Turns, BeginTurn(t) PROVE TypeOK'
  BY <1>1 DEF BeginTurn, TypeOK, items, Locations
<1>2. ASSUME NEW t \in Turns, NEW from \in Locations, NEW to \in Locations, Load(t, from, to)
      PROVE  TypeOK'
  <2>1. PICK item \in Readable(conv[t]) : copy' = [copy EXCEPT ![t] = item]
    BY <1>2 DEF Load
  <2>2. item \in Rows BY <2>1 DEF Readable, TypeOK
  <2>3. QED BY <1>2, <2>1, <2>2 DEF Load, TypeOK, items
<1>3. ASSUME NEW t \in Turns, PutContact(t) PROVE TypeOK'
  <2> DEFINE item == [copy[t] EXCEPT !.contact = t]
  <2>1. item \in Rows /\ conv[t] \in Conversations /\ t \in TurnId
    <3>1. t \in TurnId BY StoreConstants DEF Turns, TurnId
    <3>2. copy[t] \in Rows /\ conv[t] \in Conversations BY DEF TypeOK
    <3>3. item \in Rows BY <3>1, <3>2 DEF Rows
    <3>4. QED BY <3>1, <3>2, <3>3
  <2> HIDE DEF item
  <2>2. CASE item.updatedAt = 0
    BY <1>3, <2>2, EmptyItemTyped DEF PutContact, TypeOK, Locations, item
  <2>3. CASE item.updatedAt # 0
    <3>1. PutItem(conv[t], item) BY <1>3, <2>3 DEF PutContact, item
    <3>2. accepted' \in [Conversations -> [turns : Seq(Messages), contact : TurnId]]
      
      <4>1. accepted' = [accepted EXCEPT ![conv[t]].contact = t]
        BY <1>3, <2>3 DEF PutContact, item
      <4>2. QED BY <2>1, <4>1 DEF TypeOK
    <3>3. QED BY <1>3, <2>1, <3>1, <3>2, PutTyped, EmptyItemTyped
               DEF PutContact, TypeOK, Locations
  <2>4. QED BY <2>2, <2>3
<1>4. ASSUME NEW t \in Turns, SaveSession(t) PROVE TypeOK'
  BY <1>4 DEF SaveSession, TypeOK, Locations
<1>5. ASSUME NEW t \in Turns, PutUser(t) PROVE TypeOK'
  BY <1>5, AppendPutTyped DEF PutUser, TypeOK, Locations
<1>6. ASSUME NEW t \in Turns, PutReply(t) PROVE TypeOK'
  BY <1>6, AppendPutTyped DEF PutReply, TypeOK, Locations
<1>7. ASSUME NEW t \in Turns, Stop(t) PROVE TypeOK'
  BY <1>7, EmptyItemTyped DEF Stop, TypeOK, items, Locations
<1>8. CASE OpenList
  <2>1. [NoList EXCEPT !.first = Indexed] \in Lists BY DEF NoList, Lists, Indexed
  <2>2. QED BY <1>8, <2>1, ShowTyped DEF OpenList, TypeOK, items, turns
<1>9. CASE NextPage
  <2>1. list \in Lists BY DEF TypeOK
  <2>2. QED BY <1>9, <2>1, ShowTyped DEF NextPage, TypeOK, items, turns
<1>10. CASE UNCHANGED vars
  BY <1>10 DEF vars, items, turns, TypeOK
<1>11. QED
  BY <1>1, <1>2, <1>3, <1>4, <1>5, <1>6, <1>7, <1>8, <1>9, <1>10 DEF Next, Locations

(* Every reachable state is typed (TypeOK).                                *)
THEOREM StoreTyped == Spec => []TypeOK
BY InitTyped, StepTyped, PTL DEF Spec

-----------------------------------------------------------------------------
(* What every item that is stored or held by a turn looks like.  A message *)
(* is in an item only when its turn is past storing it, which is why no    *)
(* copy, however old, already holds what its turn is about to append.      *)
Placed(where, t, by) ==
  where[t] \in IF by = "user" THEN {"reply_load", "reply_put", "done", "stopped"} ELSE {"done"}

Ordered(item) ==
  \A i, j \in DOMAIN item.turns : (i < j /\ item.turns[i].turn = item.turns[j].turn)
    => item.turns[i].by = "user" /\ item.turns[j].by = "reply"

Summarised(item) ==
  LET n == Len(item.turns)
  IN /\ item.count = n
     /\ item.updatedAt = IF n = 0 THEN 0 ELSE item.turns[n].ts
     /\ item.contact # 0 => n > 0

Settled(item, where) ==
  \A i \in DOMAIN item.turns :
    Placed(where, item.turns[i].turn, item.turns[i].by) /\ item.turns[i].ts > 0

Sound(item, where) == Ordered(item) /\ Summarised(item) /\ Settled(item, where)

ItemsInv ==
  /\ \A c \in Conversations : Sound(row[c], pc) /\ Sound(previous[c], pc)
  /\ \A t \in Turns : Sound(copy[t], pc)
  /\ \A t \in Turns :
       pc[t] \in {"user_load", "user_put", "reply_load", "reply_put"} => at[t] > 0

LEMMA EmptyItemSound == ASSUME NEW where PROVE Sound(NoRow, where)
BY DEF Sound, Ordered, Summarised, Settled, NoRow

(* A step that moves no turn back keeps every sound item sound.            *)
LEMMA SoundStays ==
  ASSUME NEW item \in Rows, NEW where, NEW next, Sound(item, where),
         \A t \in Turns, by \in {"user", "reply"} :
           Placed(where, t, by) => Placed(next, t, by)
  PROVE  Sound(item, next)
<1>1. \A i \in DOMAIN item.turns : item.turns[i] \in Messages
  BY DEF Rows
<1>2. \A i \in DOMAIN item.turns :
        item.turns[i].turn \in Turns /\ item.turns[i].by \in {"user", "reply"}
  BY <1>1 DEF Messages
<1>3. Settled(item, next) BY <1>2 DEF Sound, Settled
<1>4. QED BY <1>3 DEF Sound, Ordered, Summarised

(* Appending keeps an item sound if what it holds of the turn is at most   *)
(* the user's message, and that only before the reply.                     *)
LEMMA AppendSound ==
  ASSUME NEW item \in Rows, NEW message \in Messages, NEW where,
         Sound(item, where), message.ts > 0,
         Placed(where, message.turn, message.by),
         \A i \in DOMAIN item.turns : item.turns[i].turn = message.turn
           => item.turns[i].by = "user" /\ message.by = "reply"
  PROVE  Sound(WithMessage(item, message), where)
<1> DEFINE n == Len(item.turns)
           longer == Append(item.turns, message)
<1>1. /\ WithMessage(item, message).turns = longer
      /\ WithMessage(item, message).count = n + 1
      /\ WithMessage(item, message).updatedAt = message.ts
  BY WithMessageIs
<1>2. /\ n \in Nat /\ DOMAIN item.turns = 1 .. n
      /\ DOMAIN longer = 1 .. n + 1 /\ Len(longer) = n + 1
      /\ longer[n + 1] = message
      /\ \A i \in 1 .. n : longer[i] = item.turns[i]
  BY DEF Rows
<1> HIDE DEF n, longer
<1>3. Ordered(WithMessage(item, message))
  <2> SUFFICES ASSUME NEW i \in 1 .. n + 1, NEW j \in 1 .. n + 1, i < j,
                      longer[i].turn = longer[j].turn
               PROVE  longer[i].by = "user" /\ longer[j].by = "reply"
    BY <1>1, <1>2 DEF Ordered
  <2>1. CASE j = n + 1
    <3>1. i \in 1 .. n BY <1>2, <2>1
    <3>2. QED BY <1>2, <2>1, <3>1
  <2>2. CASE j # n + 1
    <3>1. i \in 1 .. n /\ j \in 1 .. n BY <1>2, <2>2
    <3>2. QED BY <1>2, <3>1 DEF Sound, Ordered
  <2>3. QED BY <2>1, <2>2
<1>4. Summarised(WithMessage(item, message))
  BY <1>1, <1>2 DEF Summarised
<1>5. Settled(WithMessage(item, message), where)
  <2> SUFFICES ASSUME NEW i \in 1 .. n + 1
               PROVE  Placed(where, longer[i].turn, longer[i].by) /\ longer[i].ts > 0
    BY <1>1, <1>2 DEF Settled
  <2>1. CASE i = n + 1 BY <1>2, <2>1
  <2>2. CASE i # n + 1
    <3>1. i \in 1 .. n BY <1>2, <2>2
    <3>2. QED BY <1>2, <3>1 DEF Sound, Settled
  <2>3. QED BY <2>1, <2>2
<1>6. QED BY <1>3, <1>4, <1>5 DEF Sound

(* The turns only move forward.                                            *)
LEMMA TurnsMoveOn ==
  ASSUME TypeOK, [Next]_vars
  PROVE  \A t \in Turns, by \in {"user", "reply"} : Placed(pc, t, by) => Placed(pc', t, by)
<1> SUFFICES ASSUME NEW u \in Turns, NEW by \in {"user", "reply"}, Placed(pc, u, by)
             PROVE  Placed(pc', u, by)
  OBVIOUS
<1> USE DEF Placed, TypeOK
<1>1. ASSUME NEW t \in Turns, BeginTurn(t) PROVE Placed(pc', u, by)
  BY <1>1 DEF BeginTurn
<1>2. ASSUME NEW t \in Turns, \/ Load(t, "contact_load", "contact_put")
                              \/ Load(t, "user_load", "user_put")
                              \/ Load(t, "reply_load", "reply_put")
      PROVE Placed(pc', u, by)
  BY <1>2 DEF Load
<1>3. ASSUME NEW t \in Turns, PutContact(t) PROVE Placed(pc', u, by)
  BY <1>3 DEF PutContact
<1>4. ASSUME NEW t \in Turns, SaveSession(t) PROVE Placed(pc', u, by)
  BY <1>4 DEF SaveSession
<1>5. ASSUME NEW t \in Turns, PutUser(t) \/ PutReply(t) PROVE Placed(pc', u, by)
  BY <1>5 DEF PutUser, PutReply
<1>6. ASSUME NEW t \in Turns, Stop(t) PROVE Placed(pc', u, by)
  BY <1>6 DEF Stop, InFlight
<1>7. CASE OpenList \/ NextPage \/ UNCHANGED vars
  BY <1>7 DEF OpenList, NextPage, vars, turns
<1>8. QED BY <1>1, <1>2, <1>3, <1>4, <1>5, <1>6, <1>7 DEF Next

(* What a turn's append does to the items.                                 *)
LEMMA AppendPutSound ==
  ASSUME TypeOK, ItemsInv, [Next]_vars,
         NEW t \in Turns, NEW by \in {"user", "reply"}, AppendPut(t, by),
         pc[t] = IF by = "user" THEN "user_put" ELSE "reply_put",
         Placed(pc', t, by)
  PROVE  /\ \A c \in Conversations : Sound(row'[c], pc') /\ Sound(previous'[c], pc')
         /\ \A u \in Turns : Sound(copy'[u], pc')
<1> DEFINE message == [turn |-> t, by |-> by, ts |-> at[t]]
           item == WithMessage(copy[t], message)
<1>1. /\ message \in Messages /\ message.turn = t /\ message.by = by /\ message.ts > 0
      /\ copy[t] \in Rows /\ conv[t] \in Conversations
  BY DEF TypeOK, Messages, ItemsInv
<1>2. \A h \in Rows : Sound(h, pc) => Sound(h, pc')
  BY TurnsMoveOn, SoundStays
<1>3. \A i \in DOMAIN copy[t].turns : copy[t].turns[i].turn = t
        => copy[t].turns[i].by = "user" /\ by = "reply"
  <2> SUFFICES ASSUME NEW i \in DOMAIN copy[t].turns, copy[t].turns[i].turn = t
               PROVE  copy[t].turns[i].by = "user" /\ by = "reply"
    OBVIOUS
  <2>1. copy[t].turns[i] \in Messages BY <1>1 DEF Rows
  <2>2. Placed(pc, t, copy[t].turns[i].by)
    BY DEF ItemsInv, Sound, Settled
  <2>3. QED BY <2>1, <2>2 DEF Placed, Messages
<1>4. Sound(copy[t], pc') BY <1>1, <1>2 DEF ItemsInv
<1>5. Sound(item, pc')
  <2> HIDE DEF message
  <2>1. Placed(pc', message.turn, message.by) BY <1>1
  <2>2. QED BY <1>1, <1>3, <1>4, <2>1, AppendSound
<1> HIDE DEF item
<1>6. /\ row' = [row EXCEPT ![conv[t]] = item]
      /\ previous' = [previous EXCEPT ![conv[t]] = row[conv[t]]] \/ previous' = previous
      /\ copy' = [copy EXCEPT ![t] = NoRow]
  BY DEF AppendPut, PutItem, item
<1>7. QED BY <1>1, <1>2, <1>5, <1>6, EmptyItemSound DEF ItemsInv, TypeOK

LEMMA InitItems == Init => ItemsInv
BY EmptyItemSound DEF Init, ItemsInv

LEMMA StepItems == TypeOK /\ ItemsInv /\ [Next]_vars => ItemsInv'
<1> SUFFICES ASSUME TypeOK, ItemsInv, [Next]_vars PROVE ItemsInv'
  OBVIOUS
<1>h. \A h \in Rows : Sound(h, pc) => Sound(h, pc')
  BY TurnsMoveOn, SoundStays
<1>i. /\ \A c \in Conversations : /\ Sound(row[c], pc') /\ Sound(previous[c], pc')
                                  /\ row[c] \in Rows /\ previous[c] \in Rows
      /\ \A t \in Turns : Sound(copy[t], pc') /\ copy[t] \in Rows
  BY <1>h DEF ItemsInv, TypeOK
<1>1. ASSUME NEW t \in Turns, BeginTurn(t) PROVE ItemsInv'
  BY <1>1, <1>i DEF BeginTurn, items, ItemsInv, TypeOK
<1>2. ASSUME NEW t \in Turns, \/ Load(t, "contact_load", "contact_put")
                              \/ Load(t, "user_load", "user_put")
                              \/ Load(t, "reply_load", "reply_put")
      PROVE ItemsInv'
  <2>1. PICK item \in Readable(conv[t]) : copy' = [copy EXCEPT ![t] = item]
    BY <1>2 DEF Load
  <2>2. conv[t] \in Conversations BY DEF TypeOK
  <2>3. Sound(item, pc') BY <1>i, <2>1, <2>2 DEF Readable
  <2>4. \A u \in Turns : Sound(copy'[u], pc') BY <1>i, <2>1, <2>3 DEF TypeOK
  <2>5. \A u \in Turns : pc'[u] \in {"user_load", "user_put", "reply_load", "reply_put"}
          => at'[u] > 0
    BY <1>2 DEF Load, ItemsInv, TypeOK
  <2>6. row' = row /\ previous' = previous BY <1>2 DEF Load, items
  <2>7. QED BY <1>i, <2>4, <2>5, <2>6 DEF ItemsInv
<1>3. ASSUME NEW t \in Turns, PutContact(t) PROVE ItemsInv'
  <2> DEFINE item == [copy[t] EXCEPT !.contact = t]
  <2>1. /\ item.turns = copy[t].turns /\ item.count = copy[t].count
        /\ item.updatedAt = copy[t].updatedAt /\ item.contact = t
    BY <1>i DEF Rows
  <2>2. conv[t] \in Conversations BY DEF TypeOK
  <2> HIDE DEF item
  <2>3. item.updatedAt # 0 => Sound(item, pc')
    <3>1. Sound(copy[t], pc') /\ Len(copy[t].turns) \in Nat BY <1>i DEF Rows
    <3>2. QED BY <2>1, <3>1 DEF Sound, Ordered, Summarised, Settled
  <2>4. /\ row' = row \/ (item.updatedAt # 0 /\ row' = [row EXCEPT ![conv[t]] = item])
        /\ previous' = [previous EXCEPT ![conv[t]] = row[conv[t]]] \/ previous' = previous
        /\ copy' = [copy EXCEPT ![t] = NoRow]
        /\ at' = at /\ pc' = [pc EXCEPT ![t] = "save"]
    BY <1>3 DEF PutContact, PutItem, item
  <2>5. \A c \in Conversations : Sound(row'[c], pc') /\ Sound(previous'[c], pc')
    BY <1>i, <2>2, <2>3, <2>4 DEF TypeOK
  <2>6. \A u \in Turns : Sound(copy'[u], pc')
    BY <1>i, <2>4, EmptyItemSound DEF TypeOK
  <2>7. QED BY <2>4, <2>5, <2>6 DEF ItemsInv, TypeOK
<1>4. ASSUME NEW t \in Turns, SaveSession(t) PROVE ItemsInv'
  <2>1. clock + 1 > 0 BY DEF TypeOK
  <2>2. QED BY <1>4, <1>i, <2>1 DEF SaveSession, ItemsInv, TypeOK
<1>5. ASSUME NEW t \in Turns, PutUser(t) PROVE ItemsInv'
  <2>1. clock + 1 > 0 BY DEF TypeOK
  <2>2. /\ AppendPut(t, "user") /\ pc[t] = "user_put"
        /\ at' = [at EXCEPT ![t] = clock + 1] /\ pc' = [pc EXCEPT ![t] = "reply_load"]
    BY <1>5 DEF PutUser
  <2>3. Placed(pc', t, "user") BY <2>2 DEF Placed, TypeOK
  <2>4. /\ \A c \in Conversations : Sound(row'[c], pc') /\ Sound(previous'[c], pc')
        /\ \A u \in Turns : Sound(copy'[u], pc')
    BY <2>2, <2>3, AppendPutSound
  <2>5. QED BY <2>1, <2>2, <2>4 DEF ItemsInv, TypeOK
<1>6. ASSUME NEW t \in Turns, PutReply(t) PROVE ItemsInv'
  <2>1. /\ AppendPut(t, "reply") /\ pc[t] = "reply_put"
        /\ at' = [at EXCEPT ![t] = 0] /\ pc' = [pc EXCEPT ![t] = "done"]
    BY <1>6 DEF PutReply
  <2>2. Placed(pc', t, "reply") BY <2>1 DEF Placed, TypeOK
  <2>3. /\ \A c \in Conversations : Sound(row'[c], pc') /\ Sound(previous'[c], pc')
        /\ \A u \in Turns : Sound(copy'[u], pc')
    BY <2>1, <2>2, AppendPutSound
  <2>4. QED BY <2>1, <2>3 DEF ItemsInv, TypeOK
<1>7. ASSUME NEW t \in Turns, Stop(t) PROVE ItemsInv'
  BY <1>7, <1>i, EmptyItemSound DEF Stop, items, ItemsInv, TypeOK
<1>8. CASE OpenList \/ NextPage
  BY <1>8, <1>i DEF OpenList, NextPage, items, turns, ItemsInv
<1>9. CASE UNCHANGED vars
  BY <1>9, <1>i DEF vars, items, turns, ItemsInv
<1>10. QED BY <1>1, <1>2, <1>3, <1>4, <1>5, <1>6, <1>7, <1>8, <1>9 DEF Next

LEMMA ItemsAlwaysSound == Spec => []ItemsInv
BY InitItems, StepItems, InitTyped, StepTyped, StoreTyped, PTL DEF Spec

(* QuestionBeforeReply: whatever overlaps, lags or stops, no message is    *)
(* stored twice and no reply before its question.                          *)
THEOREM QuestionsComeFirst == Spec => []QuestionBeforeReply
<1>1. ItemsInv => QuestionBeforeReply
  BY DEF ItemsInv, Sound, Ordered, QuestionBeforeReply
<1>2. QED BY <1>1, ItemsAlwaysSound, PTL

(* SummaryIsCurrent: what the list shows of a conversation is stored with  *)
(* the history it summarises, and a row is always in the index.            *)
THEOREM SummariesAreCurrent == Spec => []SummaryIsCurrent
<1>1. ItemsInv => SummaryIsCurrent
  BY DEF ItemsInv, Sound, Summarised, SummaryIsCurrent
<1>2. QED BY <1>1, ItemsAlwaysSound, PTL

-----------------------------------------------------------------------------
(* A conversation whose turns never ran at once, when reads do not lag: at *)
(* most one turn is in flight, what it is about to put back is the item it *)
(* changes, and what it is about to append is the newest message.          *)
Appending == {"user_load", "user_put", "reply_load", "reply_put"}
Holding   == {"contact_put", "user_put", "reply_put"}

OneWriter(c) ==
  /\ RowIsWhole(c)
  /\ \A t, u \in InFlight : conv[t] = c /\ conv[u] = c => t = u
  /\ \A t \in Turns : conv[t] = c /\ pc[t] \in Holding => copy[t] = row[c]
  /\ \A t \in Turns : conv[t] = c /\ pc[t] \in Appending => row[c].updatedAt <= at[t]

SoleInv ==
  /\ \A c \in Conversations \ overlapped : OneWriter(c)
  /\ \A c \in Conversations : row[c].updatedAt <= clock
  /\ \A t \in Turns : copy[t].updatedAt <= clock /\ at[t] <= clock

(* What a step did to the conversation of another turn: nothing.           *)
LEMMA OthersUntouched ==
  ASSUME TypeOK, SoleInv, NEW t \in Turns, NEW c \in Conversations \ overlapped',
         c # conv[t], overlapped' = overlapped, conv' = conv,
         row'[c] = row[c], accepted'[c] = accepted[c],
         \A u \in Turns : u # t => pc'[u] = pc[u] /\ copy'[u] = copy[u] /\ at'[u] = at[u]
  PROVE  OneWriter(c)'
<1>1. OneWriter(c) BY DEF SoleInv
<1>2. \A u \in Turns : conv'[u] = c =>
        /\ conv[u] = c /\ pc'[u] = pc[u] /\ copy'[u] = copy[u] /\ at'[u] = at[u]
        /\ u \in InFlight' => u \in InFlight
  BY DEF InFlight
<1>3. \A u \in InFlight' : u \in Turns BY DEF InFlight
<1>4. QED BY <1>1, <1>2, <1>3 DEF OneWriter, RowIsWhole

(* The turn is in flight wherever it holds an item or a message.           *)
LEMMA HolderInFlight ==
  ASSUME NEW t \in Turns, pc[t] \in Holding \cup Appending \cup {"contact_load", "save"}
  PROVE  t \in InFlight
BY DEF Holding, Appending, InFlight

(* Nobody else in a conversation holds an item or a message.               *)
LEMMA NoOtherHolder ==
  ASSUME NEW c, OneWriter(c), NEW t \in InFlight, conv[t] = c,
         NEW u \in Turns, u # t, conv[u] = c
  PROVE  u \notin InFlight /\ pc[u] \notin Holding \cup Appending
BY HolderInFlight DEF OneWriter

(* What a turn alone in its conversation stores is all there is.           *)
LEMMA AppendPutWhole ==
  ASSUME TypeOK, SoleInv, NEW t \in Turns, NEW by \in {"user", "reply"}, AppendPut(t, by),
         pc[t] \in {"user_put", "reply_put"}
  PROVE  /\ row'[conv[t]].updatedAt = at[t]
         /\ \A c \in Conversations : c # conv[t] => row'[c] = row[c] /\ accepted'[c] = accepted[c]
         /\ conv[t] \notin overlapped =>
              /\ row'[conv[t]].turns = accepted'[conv[t]].turns
              /\ row'[conv[t]].contact = accepted'[conv[t]].contact
              /\ row[conv[t]].updatedAt <= at[t]
<1> DEFINE message == [turn |-> t, by |-> by, ts |-> at[t]]
           c == conv[t]
<1>1. message \in Messages /\ copy[t] \in Rows /\ c \in Conversations /\ message.ts = at[t]
  BY DEF TypeOK, Messages
<1>2. /\ WithMessage(copy[t], message).turns = Append(copy[t].turns, message)
      /\ WithMessage(copy[t], message).contact = copy[t].contact
      /\ WithMessage(copy[t], message).updatedAt = at[t]
  BY <1>1, WithMessageIs
<1>3. row' = [row EXCEPT ![c] = WithMessage(copy[t], message)] BY DEF AppendPut, PutItem
<1>4. accepted' = [accepted EXCEPT ![c].turns = Append(accepted[c].turns, message)]
  BY DEF AppendPut
<1>5. accepted'[c].turns = Append(accepted[c].turns, message)
      /\ accepted'[c].contact = accepted[c].contact
  BY <1>1, <1>4 DEF TypeOK
<1>6. c \notin overlapped => OneWriter(c) BY <1>1 DEF SoleInv
<1>7. c \notin overlapped => copy[t] = row[c] /\ row[c].updatedAt <= at[t]
  BY <1>6 DEF OneWriter, Holding, Appending
<1>8. c \notin overlapped => row[c].turns = accepted[c].turns /\ row[c].contact = accepted[c].contact
  BY <1>6 DEF OneWriter, RowIsWhole
<1> HIDE DEF message
<1>9. QED BY <1>1, <1>2, <1>3, <1>4, <1>5, <1>7, <1>8 DEF TypeOK

LEMMA InitSole == Init => SoleInv
BY DEF Init, SoleInv, OneWriter, RowIsWhole, NoRow, InFlight, Holding, Appending

LEMMA StepSole ==
  ASSUME ~StaleReads, TypeOK, SoleInv, [Next]_vars
  PROVE  SoleInv'
<1>1. ASSUME NEW t \in Turns, BeginTurn(t) PROVE SoleInv'
  <2>1. /\ row' = row /\ accepted' = accepted /\ conv' = conv /\ copy' = copy
        /\ at' = at /\ clock' = clock
    BY <1>1 DEF BeginTurn, items
  <2>2. PICK first \in {"save", "contact_load"} : pc' = [pc EXCEPT ![t] = first]
    BY <1>1 DEF BeginTurn
  <2>3. ASSUME NEW c \in Conversations \ overlapped' PROVE OneWriter(c)'
    <3>1. c \notin overlapped /\ (conv[t] = c => \A u \in InFlight : conv[u] # c)
      BY <1>1, <2>3 DEF BeginTurn
    <3>2. OneWriter(c) BY <3>1 DEF SoleInv
    <3>3. \A u \in InFlight' : u = t \/ u \in InFlight BY <2>2 DEF TypeOK, InFlight
    <3>4. \A u \in Turns : pc'[u] \in Holding \cup Appending => pc'[u] = pc[u]
      BY <2>2 DEF TypeOK, Holding, Appending
    <3>5. QED BY <2>1, <3>1, <3>2, <3>3, <3>4 DEF OneWriter, RowIsWhole
  <2>4. QED BY <2>1, <2>3 DEF SoleInv
<1>2. ASSUME NEW t \in Turns, \/ Load(t, "contact_load", "contact_put")
                              \/ Load(t, "user_load", "user_put")
                              \/ Load(t, "reply_load", "reply_put")
      PROVE SoleInv'
  <2>1. /\ row' = row /\ accepted' = accepted /\ conv' = conv /\ overlapped' = overlapped
        /\ at' = at /\ clock' = clock
        /\ copy' = [copy EXCEPT ![t] = row[conv[t]]]
    BY <1>2 DEF Load, items, Readable
  <2>2. /\ pc[t] \in {"contact_load", "user_load", "reply_load"}
        /\ pc' = [pc EXCEPT ![t] = IF pc[t] = "contact_load" THEN "contact_put"
                                   ELSE IF pc[t] = "user_load" THEN "user_put" ELSE "reply_put"]
    BY <1>2 DEF Load
  <2>3. ASSUME NEW c \in Conversations \ overlapped' PROVE OneWriter(c)'
    <3>1. OneWriter(c) BY <2>1 DEF SoleInv
    <3>2. InFlight' = InFlight BY <2>2 DEF InFlight, TypeOK
    <3>3. \A u \in Turns : conv[u] = c /\ pc'[u] \in Holding => copy'[u] = row[c]
      BY <2>1, <2>2, <3>1 DEF OneWriter, TypeOK
    <3>4. \A u \in Turns : pc'[u] \in Appending => pc[u] \in Appending
      BY <2>2 DEF Appending, TypeOK
    <3>5. QED BY <2>1, <3>1, <3>2, <3>3, <3>4 DEF OneWriter, RowIsWhole
  <2>4. \A u \in Turns : copy'[u].updatedAt <= clock BY <2>1 DEF SoleInv, TypeOK
  <2>5. QED BY <2>1, <2>3, <2>4 DEF SoleInv
<1>3. ASSUME NEW t \in Turns, PutContact(t) PROVE SoleInv'
  <2> DEFINE item == [copy[t] EXCEPT !.contact = t]
             d == conv[t]
  <2>1. /\ item.turns = copy[t].turns /\ item.updatedAt = copy[t].updatedAt
        /\ item.contact = t /\ d \in Conversations
    BY DEF TypeOK, Rows
  <2> HIDE DEF item
  <2>2. /\ pc[t] = "contact_put" /\ pc' = [pc EXCEPT ![t] = "save"]
        /\ copy' = [copy EXCEPT ![t] = NoRow]
        /\ conv' = conv /\ at' = at /\ clock' = clock /\ overlapped' = overlapped
    BY <1>3 DEF PutContact
  <2>3. \/ row' = row /\ accepted' = accepted
        \/ /\ row' = [row EXCEPT ![d] = item]
           /\ accepted' = [accepted EXCEPT ![d].contact = t]
    BY <1>3 DEF PutContact, PutItem, item
  <2>4. d \notin overlapped => OneWriter(d) /\ copy[t] = row[d]
    BY <2>1, <2>2 DEF SoleInv, OneWriter, Holding
  <2>5. ASSUME NEW c \in Conversations \ overlapped' PROVE OneWriter(c)'
    <3>1. CASE c # d
      <4>1. row'[c] = row[c] /\ accepted'[c] = accepted[c] BY <2>3, <3>1 DEF TypeOK
      <4>2. QED BY <2>2, <3>1, <4>1, OthersUntouched DEF TypeOK
    <3>2. CASE c = d
      <4>1. OneWriter(c) /\ copy[t] = row[c] BY <2>2, <2>4, <3>2
      <4>2. row'[c].turns = row[c].turns /\ row'[c].updatedAt = row[c].updatedAt
        BY <2>1, <2>3, <3>2, <4>1 DEF TypeOK
      <4>3. accepted'[c].turns = accepted[c].turns BY <2>1, <2>3, <3>2 DEF TypeOK
      <4>4. row'[c].contact = accepted'[c].contact
        BY <2>1, <2>3, <3>2, <4>1 DEF TypeOK, OneWriter, RowIsWhole
      <4>5. t \in InFlight BY <2>2, HolderInFlight DEF Holding
      <4>6. \A u \in Turns : u # t /\ conv[u] = c =>
              u \notin InFlight' /\ pc'[u] \notin Holding \cup Appending
        BY <2>2, <3>2, <4>1, <4>5, NoOtherHolder DEF InFlight, TypeOK
      <4>7. pc'[t] \notin Holding \cup Appending BY <2>2 DEF TypeOK, Holding, Appending
      <4>8. \A u \in InFlight' : u \in Turns BY DEF InFlight
      <4>9. QED BY <2>2, <4>1, <4>2, <4>3, <4>4, <4>6, <4>7, <4>8 DEF OneWriter, RowIsWhole
    <3>3. QED BY <3>1, <3>2
  <2>6. /\ \A c \in Conversations : row'[c].updatedAt <= clock'
        /\ \A u \in Turns : copy'[u].updatedAt <= clock'
    <3>1. 0 <= clock BY DEF TypeOK
    <3>2. item.updatedAt <= clock BY <2>1 DEF SoleInv
    <3>3. QED BY <2>1, <2>2, <2>3, <3>1, <3>2 DEF TypeOK, SoleInv, NoRow
  <2>7. QED BY <2>2, <2>5, <2>6 DEF SoleInv
<1>4. ASSUME NEW t \in Turns, SaveSession(t) PROVE SoleInv'
  <2>1. /\ row' = row /\ accepted' = accepted /\ conv' = conv /\ overlapped' = overlapped
        /\ copy' = copy /\ clock' = clock + 1 /\ at' = [at EXCEPT ![t] = clock + 1]
        /\ pc[t] = "save" /\ pc' = [pc EXCEPT ![t] = "user_load"]
    BY <1>4 DEF SaveSession
  <2>2. ASSUME NEW c \in Conversations \ overlapped' PROVE OneWriter(c)'
    <3>1. OneWriter(c) /\ row[c].updatedAt <= clock /\ row[c].updatedAt \in Nat
      BY <2>1 DEF SoleInv, TypeOK, Rows
    <3>2. InFlight' = InFlight BY <2>1 DEF InFlight, TypeOK
    <3>3. \A u \in Turns : conv[u] = c /\ pc'[u] \in Holding => copy[u] = row[c]
      BY <2>1, <3>1 DEF OneWriter, TypeOK, Holding
    <3>4. \A u \in Turns : conv[u] = c /\ pc'[u] \in Appending => row[c].updatedAt <= at'[u]
      BY <2>1, <3>1 DEF OneWriter, TypeOK
    <3>5. QED BY <2>1, <3>1, <3>2, <3>3, <3>4 DEF OneWriter, RowIsWhole
  <2>3. QED
    <3>1. clock \in Nat /\ \A u \in Turns : at[u] \in Nat /\ copy[u].updatedAt \in Nat
      BY DEF TypeOK, Rows
    <3>2. \A c \in Conversations : row[c].updatedAt \in Nat BY DEF TypeOK, Rows
    <3>3. \A u \in Turns : at'[u] <= clock + 1 BY <2>1, <3>1 DEF SoleInv, TypeOK
    <3>4. QED BY <2>1, <2>2, <3>1, <3>2, <3>3 DEF SoleInv
<1>5. ASSUME NEW t \in Turns, PutUser(t) \/ PutReply(t) PROVE SoleInv'
  <2> DEFINE d == conv[t]
  <2>1. /\ \E by \in {"user", "reply"} : AppendPut(t, by)
        /\ pc[t] \in {"user_put", "reply_put"}
        /\ conv' = conv /\ overlapped' = overlapped /\ d \in Conversations
    BY <1>5 DEF PutUser, PutReply, TypeOK
  <2>2. \/ /\ clock' = clock + 1 /\ at' = [at EXCEPT ![t] = clock + 1]
           /\ pc' = [pc EXCEPT ![t] = "reply_load"]
        \/ /\ clock' = clock /\ at' = [at EXCEPT ![t] = 0]
           /\ pc' = [pc EXCEPT ![t] = "done"]
    BY <1>5 DEF PutUser, PutReply
  <2>3. copy' = [copy EXCEPT ![t] = NoRow] BY <2>1 DEF AppendPut
  <2>4. /\ row'[d].updatedAt = at[t]
        /\ \A c \in Conversations : c # d => row'[c] = row[c] /\ accepted'[c] = accepted[c]
        /\ d \notin overlapped => row'[d].turns = accepted'[d].turns
                                /\ row'[d].contact = accepted'[d].contact
    BY <2>1, AppendPutWhole
  <2>5. /\ clock \in Nat
        /\ \A u \in Turns : at[u] \in Nat /\ copy[u].updatedAt \in Nat
        /\ \A c \in Conversations : row[c].updatedAt \in Nat
    BY DEF TypeOK, Rows
  <2>6. at[t] <= clock BY DEF SoleInv
  <2>7. ASSUME NEW c \in Conversations \ overlapped' PROVE OneWriter(c)'
    <3>1. CASE c # d
      BY <2>1, <2>2, <2>3, <2>4, <3>1, OthersUntouched DEF TypeOK
    <3>2. CASE c = d
      <4>1. OneWriter(c) BY <2>1, <3>2 DEF SoleInv
      <4>2. t \in InFlight BY <2>1, HolderInFlight DEF Holding
      <4>3. \A u \in Turns : u # t /\ conv[u] = c =>
              u \notin InFlight' /\ pc'[u] \notin Holding \cup Appending
        BY <2>2, <3>2, <4>1, <4>2, NoOtherHolder DEF InFlight, TypeOK
      <4>4. pc'[t] \notin Holding BY <2>2 DEF TypeOK, Holding
      <4>5. pc'[t] \in Appending => row'[c].updatedAt <= at'[t]
        BY <2>2, <2>4, <2>5, <2>6, <3>2 DEF TypeOK, Appending
      <4>6. \A u \in InFlight' : u \in Turns BY DEF InFlight
      <4>7. QED BY <2>1, <2>4, <3>2, <4>3, <4>4, <4>5, <4>6 DEF OneWriter, RowIsWhole
    <3>3. QED BY <3>1, <3>2
  <2>8. clock' \in Nat /\ clock <= clock' BY <2>2, <2>5
  <2>9. \A c \in Conversations : row'[c].updatedAt <= clock'
    BY <2>4, <2>5, <2>6, <2>8 DEF SoleInv
  <2>10. \A u \in Turns : copy'[u].updatedAt <= clock'
    BY <2>3, <2>5, <2>8 DEF SoleInv, TypeOK, NoRow
  <2>11. \A u \in Turns : at'[u] <= clock'
    <3>1. \A u \in Turns : at[u] <= clock BY DEF SoleInv
    <3>2. at'[t] <= clock' BY <2>2, <2>5 DEF TypeOK
    <3>3. \A u \in Turns : u # t => at'[u] = at[u] BY <2>2 DEF TypeOK
    <3>4. QED BY <2>5, <2>8, <3>1, <3>2, <3>3
  <2>12. QED BY <2>7, <2>9, <2>10, <2>11 DEF SoleInv
<1>6. ASSUME NEW t \in Turns, Stop(t) PROVE SoleInv'
  <2>1. /\ row' = row /\ accepted' = accepted /\ conv' = conv /\ overlapped' = overlapped
        /\ clock' = clock /\ at' = [at EXCEPT ![t] = 0] /\ copy' = [copy EXCEPT ![t] = NoRow]
        /\ pc' = [pc EXCEPT ![t] = "stopped"]
    BY <1>6 DEF Stop, items
  <2>2. ASSUME NEW c \in Conversations \ overlapped' PROVE OneWriter(c)'
    <3>1. OneWriter(c) BY <2>1 DEF SoleInv
    <3>2. \A u \in InFlight' : u \in InFlight BY <2>1 DEF InFlight, TypeOK
    <3>3. \A u \in Turns : pc'[u] \in Holding \cup Appending
            => pc[u] = pc'[u] /\ copy'[u] = copy[u] /\ at'[u] = at[u]
      BY <2>1 DEF TypeOK, Holding, Appending
    <3>4. QED BY <2>1, <3>1, <3>2, <3>3 DEF OneWriter, RowIsWhole
  <2>3. 0 <= clock BY DEF TypeOK
  <2>4. QED BY <2>1, <2>2, <2>3 DEF SoleInv, TypeOK, NoRow
<1>7. CASE OpenList \/ NextPage \/ UNCHANGED vars
  <2>1. /\ row' = row /\ accepted' = accepted /\ conv' = conv /\ overlapped' = overlapped
        /\ clock' = clock /\ at' = at /\ copy' = copy /\ pc' = pc
    BY <1>7 DEF OpenList, NextPage, vars, items, turns
  <2>2. InFlight' = InFlight BY <2>1 DEF InFlight
  <2>3. QED BY <2>1, <2>2 DEF SoleInv, OneWriter, RowIsWhole
<1>8. QED BY <1>1, <1>2, <1>3, <1>4, <1>5, <1>6, <1>7 DEF Next

LEMMA SoleAlways == ASSUME ~StaleReads PROVE Spec => []SoleInv
BY InitSole, StepSole, StoreTyped, PTL DEF Spec

(* SoleTurnsLoseNothing: while reads do not lag, a conversation whose turns*)
(* never ran at once keeps every message and contact it stored.            *)
THEOREM SoleTurnsKeepEverything ==
  ASSUME ~StaleReads PROVE Spec => []SoleTurnsLoseNothing
<1>1. SoleInv => SoleTurnsLoseNothing
  BY DEF SoleInv, OneWriter, SoleTurnsLoseNothing
<1>2. QED BY <1>1, SoleAlways, PTL

-----------------------------------------------------------------------------
(* The list.  A conversation that only one turn at a time writes moves to  *)
(* the front and never back, so that once a page has shown it the cursor   *)
(* stays below it.                                                         *)
ListInv ==
  /\ list.state = "closed" => list.shown = NoList.shown
  /\ list.state = "more" => list.cursor > 0
  /\ \A c \in Conversations \ overlapped :
       /\ list.shown[c] <= 1
       /\ list.state = "more" /\ list.shown[c] = 1 => list.cursor <= row[c].updatedAt

LEMMA ActivityMovesForward ==
  ASSUME ~StaleReads, TypeOK, SoleInv, [Next]_vars, NEW c \in Conversations \ overlapped
  PROVE  row[c].updatedAt <= row'[c].updatedAt
<1>t. row[c].updatedAt \in Nat BY DEF TypeOK, Rows
<1>1. ASSUME NEW t \in Turns, PutContact(t) PROVE row[c].updatedAt <= row'[c].updatedAt
  <2> DEFINE item == [copy[t] EXCEPT !.contact = t]
  <2>1. item.updatedAt = copy[t].updatedAt BY DEF TypeOK, Rows
  <2> HIDE DEF item
  <2>2. pc[t] = "contact_put" /\ (row' = row \/ row' = [row EXCEPT ![conv[t]] = item])
    BY <1>1 DEF PutContact, PutItem, item
  <2>3. conv[t] = c => copy[t] = row[c] BY <2>2 DEF SoleInv, OneWriter, Holding
  <2>4. QED BY <1>t, <2>1, <2>2, <2>3 DEF TypeOK
<1>2. ASSUME NEW t \in Turns, PutUser(t) \/ PutReply(t)
      PROVE  row[c].updatedAt <= row'[c].updatedAt
  <2>1. /\ \E by \in {"user", "reply"} : AppendPut(t, by)
        /\ pc[t] \in {"user_put", "reply_put"}
    BY <1>2 DEF PutUser, PutReply
  <2>2. QED BY <1>t, <2>1, AppendPutWhole
<1>3. CASE row' = row BY <1>t, <1>3
<1>4. QED BY <1>1, <1>2, <1>3
           DEF Next, BeginTurn, Load, SaveSession, Stop, OpenList, NextPage, items, vars

(* What one page adds to the list.                                         *)
LEMMA PageShown ==
  ASSUME TypeOK, NEW from \in Lists, ShowPage(from)
  PROVE  /\ list'.state = "more" => list'.cursor > 0
         /\ list'.state # "closed"
         /\ \A c \in Conversations :
              \/ list'.shown[c] = from.shown[c]
              \/ /\ list'.shown[c] = from.shown[c] + 1
                 /\ from.cursor = 0 \/ row[c].updatedAt < from.cursor
         /\ \A c \in Conversations :
              list'.state = "more" /\ list'.shown[c] # from.shown[c]
                => list'.cursor <= row[c].updatedAt
         /\ list'.state = "more" => from.cursor = 0 \/ list'.cursor < from.cursor
<1> DEFINE page == PageOf(Below(from.cursor))
           shown == [c \in Conversations |-> from.shown[c] + IF c \in page THEN 1 ELSE 0]
<1>1. PICK next \in CursorAfter(page) :
        list' = [from EXCEPT !.shown = shown, !.cursor = next,
                             !.state = IF next = 0 THEN "end" ELSE "more"]
  BY DEF ShowPage
<1>2. /\ \A c \in page : c \in Conversations /\ (from.cursor = 0 \/ row[c].updatedAt < from.cursor)
      /\ next = 0 \/ \E c \in page : next = row[c].updatedAt
      /\ next = 0 \/ \A c \in page : next <= row[c].updatedAt
  BY <1>1 DEF CursorAfter, Oldest, PageOf, Below, Indexed
<1>3. next \in Nat BY <1>2 DEF TypeOK, Rows
<1> HIDE DEF page
<1>4. \A c \in Conversations : from.shown[c] \in Nat BY DEF Lists
<1>5. \A c \in Conversations :
        shown[c] = from.shown[c] + IF c \in page THEN 1 ELSE 0
  OBVIOUS
<1> HIDE DEF shown
<1>6. list'.shown = shown /\ list'.cursor = next /\ list'.state = IF next = 0 THEN "end" ELSE "more"
  BY <1>1 DEF Lists
<1>7. QED BY <1>2, <1>3, <1>4, <1>5, <1>6

LEMMA StepList ==
  ASSUME ~StaleReads, TypeOK, SoleInv, ListInv, [Next]_vars
  PROVE  ListInv'
<1>t. /\ \A c \in Conversations : row[c].updatedAt \in Nat /\ row'[c].updatedAt \in Nat
                                /\ list.shown[c] \in Nat
      /\ list.cursor \in Nat /\ list \in Lists
  <2>1. TypeOK' BY StepTyped
  <2>2. QED BY <2>1 DEF TypeOK, Rows, Lists
<1>1. CASE OpenList
  <2> DEFINE from == [NoList EXCEPT !.first = Indexed]
  <2>1. from \in Lists BY DEF NoList, Lists, Indexed
  <2>2. from.cursor = 0 /\ \A c \in Conversations : from.shown[c] = 0 BY DEF NoList
  <2> HIDE DEF from
  <2>3. ShowPage(from) /\ row' = row BY <1>1 DEF OpenList, items, from
  <2>4. QED BY <1>t, <2>1, <2>2, <2>3, PageShown DEF ListInv
<1>2. CASE NextPage
  <2>1. list.state = "more" /\ ShowPage(list) /\ row' = row /\ overlapped' = overlapped
    BY <1>2 DEF NextPage, items, turns
  <2>2. list.cursor > 0 BY <2>1 DEF ListInv
  <2>3. ASSUME NEW c \in Conversations \ overlapped
        PROVE  /\ list'.shown[c] <= 1
               /\ list'.state = "more" /\ list'.shown[c] = 1 => list'.cursor <= row[c].updatedAt
    <3>1. /\ list.shown[c] <= 1
          /\ list.shown[c] = 1 => list.cursor <= row[c].updatedAt
      BY <2>1 DEF ListInv
    <3>2. \/ list'.shown[c] = list.shown[c]
          \/ list'.shown[c] = list.shown[c] + 1 /\ row[c].updatedAt < list.cursor
      BY <1>t, <2>1, <2>2, PageShown
    <3>3. list.shown[c] = 1 => list'.shown[c] = 1 BY <1>t, <3>1, <3>2
    <3>4. list'.shown[c] <= 1 BY <1>t, <3>1, <3>2
    <3>5. list'.state = "more" => list'.cursor < list.cursor /\ list'.cursor \in Nat
      <4>1. list' \in Lists BY <1>t, <2>1, ShowTyped
      <4>2. QED BY <1>t, <2>1, <2>2, <4>1, PageShown DEF Lists
    <3>6. list'.state = "more" /\ list'.shown[c] = 1 => list'.cursor <= row[c].updatedAt
      <4>1. CASE list.shown[c] = 1 BY <1>t, <3>1, <3>5, <4>1
      <4>2. CASE list.shown[c] # 1 BY <1>t, <2>1, <4>2, PageShown
      <4>3. QED BY <4>1, <4>2
    <3>7. QED BY <3>4, <3>6
  <2>4. list'.state # "closed" /\ (list'.state = "more" => list'.cursor > 0)
    BY <1>t, <2>1, PageShown
  <2>5. QED BY <2>1, <2>3, <2>4 DEF ListInv
<1>3. CASE list' = list \/ \E c \in Conversations : list' = [list EXCEPT !.moved = @ \cup {c}]
  <2>1. list'.state = list.state /\ list'.shown = list.shown /\ list'.cursor = list.cursor
    BY <1>t, <1>3 DEF Lists
  <2>2. \A c \in Conversations \ overlapped : row[c].updatedAt <= row'[c].updatedAt
    BY ActivityMovesForward
  <2>3. CASE OpenList \/ NextPage BY <1>1, <1>2, <2>3
  <2>4. CASE ~(OpenList \/ NextPage)
    <3>1. overlapped \subseteq overlapped'
      BY <2>4 DEF Next, BeginTurn, Load, PutContact, SaveSession, PutUser, PutReply, Stop, vars, turns
    <3>2. QED BY <1>t, <2>1, <2>2, <3>1 DEF ListInv
  <2>5. QED BY <2>3, <2>4
<1>4. ASSUME ~(OpenList \/ NextPage)
      PROVE  list' = list \/ \E c \in Conversations : list' = [list EXCEPT !.moved = @ \cup {c}]
  BY <1>4 DEF Next, BeginTurn, Load, PutContact, SaveSession, PutUser, PutReply, Stop, vars,
              AppendPut, PutItem, TypeOK
<1>5. QED BY <1>1, <1>2, <1>3, <1>4

(* ListedTwiceOnlyAfterOverlap: no conversation is listed twice unless two *)
(* of its turns ran at once.                                               *)
THEOREM OnlyOverlapListsTwice ==
  ASSUME ~StaleReads PROVE Spec => []ListedTwiceOnlyAfterOverlap
<1>1. Init => ListInv BY DEF Init, ListInv, NoList
<1>2. TypeOK /\ ListInv => ListedTwiceOnlyAfterOverlap
  BY DEF TypeOK, Lists, ListInv, ListedTwiceOnlyAfterOverlap
<1>3. QED BY <1>1, <1>2, StepList, SoleAlways, StoreTyped, PTL DEF Spec

-----------------------------------------------------------------------------
(* The pages of a list, and what they leave for the next.                  *)

LEMMA NatMin ==
  ASSUME NEW T \in SUBSET Nat, T # {}
  PROVE  \E n \in T : \A m \in T : n <= m
<1> DEFINE R == OpToRel(<, Nat)
<1>1. IsWellFoundedOn(R, Nat) BY NatLessThanWellFounded
<1>2. \A m, n \in Nat : m < n => <<m, n>> \in R BY DEF OpToRel
<1> HIDE DEF R
<1>3. PICK n \in T : \A m \in T : ~ (<<m, n>> \in R) BY <1>1, WFMin, Zenon
<1>4. \A m \in T : ~ (m < n) BY <1>2, <1>3
<1>5. QED BY <1>4, SMT

MoreRecent(rest, c) == {d \in rest : row[d].updatedAt > row[c].updatedAt}

(* A page that is not full is all that was left; and a full one is the     *)
(* newest of it.                                                           *)
LEMMA PageFacts ==
  ASSUME TypeOK, NEW rest \in SUBSET Conversations, IsFiniteSet(rest)
  PROVE  /\ PageOf(rest) \subseteq rest
         /\ \A c \in PageOf(rest), d \in rest \ PageOf(rest) : row[c].updatedAt > row[d].updatedAt
         /\ Cardinality(PageOf(rest)) < PageSize => PageOf(rest) = rest
<1> DEFINE h(c) == Cardinality(MoreRecent(rest, c))
           page == PageOf(rest)
<1>1. /\ \A c \in rest : IsFiniteSet(MoreRecent(rest, c)) /\ h(c) \in Nat
      /\ \A c \in rest : row[c].updatedAt \in Nat
      /\ page = {c \in rest : h(c) < PageSize} /\ PageSize \in Nat
  BY FS_Subset, FS_CardinalityType, StoreConstants DEF MoreRecent, PageOf, TypeOK, Rows
<1>2. ASSUME NEW c \in rest, NEW d \in rest, row[d].updatedAt >= row[c].updatedAt
      PROVE  h(d) <= h(c)
  <2>1. MoreRecent(rest, d) \subseteq MoreRecent(rest, c) BY <1>1, <1>2 DEF MoreRecent
  <2>2. QED BY <1>1, <2>1, FS_Subset
<1>3. ASSUME NEW c \in rest, NEW d \in MoreRecent(rest, c)
      PROVE  d \in rest /\ h(d) < h(c)
  <2>1. d \in rest /\ row[d].updatedAt > row[c].updatedAt BY DEF MoreRecent
  <2>2. MoreRecent(rest, d) \cup {d} \subseteq MoreRecent(rest, c) /\ d \notin MoreRecent(rest, d)
    BY <1>1, <2>1 DEF MoreRecent
  <2>3. /\ IsFiniteSet(MoreRecent(rest, d) \cup {d})
        /\ Cardinality(MoreRecent(rest, d) \cup {d}) = h(d) + 1
    BY <1>1, <2>1, <2>2, FS_AddElement
  <2>4. h(d) + 1 <= h(c) BY <1>1, <2>2, <2>3, FS_Subset
  <2>5. QED BY <1>1, <2>1, <2>4
<1> HIDE DEF page, h
<1>4. ASSUME NEW c \in page, NEW d \in rest \ page PROVE row[c].updatedAt > row[d].updatedAt
  BY <1>1, <1>2, <1>4
<1>5. ASSUME NEW o \in rest \ page PROVE ~(Cardinality(page) < PageSize)
  <2> DEFINE T == {h(c) : c \in rest \ page}
  <2>1. T \in SUBSET Nat /\ T # {} BY <1>1
  <2>2. PICK n \in T : \A m \in T : n <= m BY <2>1, NatMin
  <2>3. PICK c \in rest \ page : h(c) = n BY <2>2
  <2>4. MoreRecent(rest, c) \subseteq page BY <1>1, <1>3, <2>1, <2>2, <2>3
  <2>5. IsFiniteSet(page) BY <1>1, FS_Subset
  <2>6. h(c) <= Cardinality(page) /\ Cardinality(page) \in Nat
    BY <2>4, <2>5, FS_Subset, FS_CardinalityType DEF h
  <2>7. QED BY <1>1, <2>3, <2>6
<1>6. QED BY <1>1, <1>4, <1>5 DEF page

(* While the list is open, a conversation that was there and has not moved *)
(* has been shown once if the cursor has passed it, and not yet if it has  *)
(* not.                                                                    *)
PassedBy(c) == list.state = "end" \/ list.cursor <= row[c].updatedAt

PagingInv ==
  /\ Indexed \subseteq {conv[t] : t \in Turns}
  /\ list.state = "more" => list.cursor > 0
  /\ list.state # "closed" =>
       \A c \in list.first \ list.moved :
         c \in Indexed /\ list.shown[c] = IF PassedBy(c) THEN 1 ELSE 0

LEMMA IndexedIsFinite ==
  ASSUME PagingInv
  PROVE  \A cursor : Below(cursor) \in SUBSET Conversations /\ IsFiniteSet(Below(cursor))
<1>1. IsFiniteSet(Turns) BY StoreConstants, FS_Interval DEF Turns
<1>2. IsFiniteSet({conv[t] : t \in Turns})
  <2> DEFINE Used == {conv[t] : t \in Turns}
             f == [t \in Turns |-> conv[t]]
  <2>1. f \in Surjection(Turns, Used) BY DEF Surjection
  <2>2. QED BY <1>1, <2>1, FS_Surjection DEF ExistsSurjection
<1>3. IsFiniteSet(Indexed) BY <1>2, FS_Subset DEF PagingInv
<1>4. \A cursor : Below(cursor) \subseteq Indexed BY DEF Below
<1>5. Indexed \subseteq Conversations BY DEF Indexed
<1>6. QED BY <1>3, <1>4, <1>5, FS_Subset

(* A page shows what lies between the cursor and the next.                 *)
LEMMA PagePasses ==
  ASSUME TypeOK, PagingInv, NEW from \in Lists, ShowPage(from),
         \A c \in from.first \ from.moved :
           c \in Indexed /\ from.shown[c] = IF c \in Below(from.cursor) THEN 0 ELSE 1
  PROVE  /\ list'.first = from.first /\ list'.moved = from.moved
         /\ list'.state = "more" => list'.cursor > 0
         /\ \A c \in from.first \ from.moved :
              list'.shown[c] = IF list'.state = "end" \/ list'.cursor <= row[c].updatedAt THEN 1 ELSE 0
<1> DEFINE rest == Below(from.cursor)
           page == PageOf(rest)
           shown == [c \in Conversations |-> from.shown[c] + IF c \in page THEN 1 ELSE 0]
<1>1. PICK next \in CursorAfter(page) :
        list' = [from EXCEPT !.shown = shown, !.cursor = next,
                             !.state = IF next = 0 THEN "end" ELSE "more"]
  BY DEF ShowPage
<1>2. /\ page \subseteq rest /\ rest \in SUBSET Conversations
      /\ \A c \in page, d \in rest \ page : row[c].updatedAt > row[d].updatedAt
      /\ Cardinality(page) < PageSize => page = rest
  BY IndexedIsFinite, PageFacts
<1>3. /\ \A c \in rest : row[c].updatedAt > 0 /\ (from.cursor = 0 \/ row[c].updatedAt < from.cursor)
      /\ \A c \in Indexed \ rest : from.cursor # 0 /\ ~(row[c].updatedAt < from.cursor)
      /\ \A c \in Conversations : row[c].updatedAt \in Nat
      /\ from.cursor \in Nat
  BY DEF Below, Indexed, TypeOK, Rows, Lists
<1>4. \/ next = 0 /\ page = rest
      \/ /\ next > 0 /\ \E c \in page : next = row[c].updatedAt
         /\ \A c \in page : next <= row[c].updatedAt
  BY <1>1, <1>2, <1>3 DEF CursorAfter, Oldest
<1> HIDE DEF page, rest
<1>5. \A c \in Conversations : shown[c] = from.shown[c] + IF c \in page THEN 1 ELSE 0
  OBVIOUS
<1> HIDE DEF shown
<1>6. /\ list'.shown = shown /\ list'.cursor = next /\ list'.state = IF next = 0 THEN "end" ELSE "more"
      /\ list'.first = from.first /\ list'.moved = from.moved
  BY <1>1 DEF Lists
<1>7. ASSUME NEW c \in from.first \ from.moved
      PROVE  list'.shown[c] = IF list'.state = "end" \/ list'.cursor <= row[c].updatedAt THEN 1 ELSE 0
  <2>1. c \in Indexed /\ c \in Conversations /\ from.shown[c] = IF c \in rest THEN 0 ELSE 1
    BY DEF rest, Lists
  <2>2. CASE next = 0
    <3>1. list'.shown[c] = 1 BY <1>2, <1>4, <1>5, <1>6, <2>1, <2>2
    <3>2. QED BY <1>6, <2>2, <3>1
  <2>3. CASE next # 0
    <3>1. PICK o \in page : next = row[o].updatedAt BY <1>4, <2>3
    <3>2. c \in rest => (c \in page <=> next <= row[c].updatedAt)
      BY <1>2, <1>3, <1>4, <2>1, <2>3, <3>1
    <3>3. c \notin rest => c \notin page /\ next <= row[c].updatedAt
      BY <1>2, <1>3, <2>1, <3>1
    <3>4. list'.shown[c] = IF next <= row[c].updatedAt THEN 1 ELSE 0
      BY <1>5, <1>6, <2>1, <3>2, <3>3
    <3>5. QED BY <1>6, <2>3, <3>4
  <2>4. QED BY <2>2, <2>3
<1>8. QED BY <1>4, <1>6, <1>7

LEMMA StepPaging ==
  ASSUME TypeOK, TypeOK', PagingInv, [Next]_vars
  PROVE  PagingInv'
<1>t. /\ \A c \in Conversations : row[c].updatedAt \in Nat /\ row'[c].updatedAt \in Nat
      /\ list \in Lists /\ list' \in Lists /\ row \in [Conversations -> Rows]
      /\ \A t \in Turns : conv[t] \in Conversations /\ copy[t] \in Rows
  BY DEF TypeOK, Rows
<1>1. ASSUME NEW from \in Lists, ShowPage(from), UNCHANGED <<row, conv>>,
             \A c \in from.first \ from.moved :
               c \in Indexed /\ from.shown[c] = IF c \in Below(from.cursor) THEN 0 ELSE 1
      PROVE  PagingInv'
  <2>1. /\ list'.first = from.first /\ list'.moved = from.moved
        /\ list'.state = "more" => list'.cursor > 0
        /\ \A c \in from.first \ from.moved :
             list'.shown[c] = IF list'.state = "end" \/ list'.cursor <= row[c].updatedAt THEN 1 ELSE 0
    BY <1>1, PagePasses
  <2>2. Indexed' = Indexed BY <1>1 DEF Indexed
  <2>3. \A c \in list'.first \ list'.moved : c \in Indexed'
    BY <1>1, <2>1, <2>2
  <2>4. QED BY <1>1, <2>1, <2>2, <2>3 DEF PagingInv, PassedBy
<1>2. CASE OpenList
  <2> DEFINE from == [NoList EXCEPT !.first = Indexed]
  <2>1. /\ from \in Lists /\ from.cursor = 0 /\ from.first = Indexed /\ from.moved = {}
        /\ \A c \in Conversations : from.shown[c] = 0
    BY DEF NoList, Lists, Indexed
  <2> HIDE DEF from
  <2>2. ShowPage(from) /\ UNCHANGED <<row, conv>> BY <1>2 DEF OpenList, items, turns, from
  <2>3. \A c \in from.first \ from.moved :
          c \in Indexed /\ from.shown[c] = IF c \in Below(from.cursor) THEN 0 ELSE 1
    BY <2>1 DEF Below, Indexed
  <2>4. QED BY <1>1, <2>1, <2>2, <2>3
<1>3. CASE NextPage
  <2>1. list.state = "more" /\ ShowPage(list) /\ UNCHANGED <<row, conv>>
    BY <1>3 DEF NextPage, items, turns
  <2>2. \A c \in list.first \ list.moved :
          c \in Indexed /\ list.shown[c] = IF c \in Below(list.cursor) THEN 0 ELSE 1
    <3> SUFFICES ASSUME NEW c \in list.first \ list.moved
                 PROVE  c \in Indexed /\ list.shown[c] = IF c \in Below(list.cursor) THEN 0 ELSE 1
      OBVIOUS
    <3>1. /\ c \in Indexed /\ list.cursor > 0 /\ list.cursor \in Nat
          /\ list.shown[c] = IF list.cursor <= row[c].updatedAt THEN 1 ELSE 0
      BY <1>t, <2>1 DEF PagingInv, PassedBy, Lists
    <3>2. c \in Below(list.cursor) <=> ~(list.cursor <= row[c].updatedAt)
      BY <1>t, <3>1 DEF Below, Indexed
    <3>3. QED BY <3>1, <3>2
  <2>3. QED BY <1>t, <1>1, <2>1, <2>2
<1>4. ASSUME NEW c \in Conversations, NEW item, PutItem(c, item), \E t \in Turns : conv[t] = c, conv' = conv
      PROVE  PagingInv'
  <2>1. /\ row'[c] = item /\ \A d \in Conversations \ {c} : row'[d] = row[d]
    BY <1>t, <1>4 DEF PutItem
  <2>2. /\ list'.state = list.state /\ list'.shown = list.shown /\ list'.cursor = list.cursor
        /\ list'.first = list.first /\ list.moved \subseteq list'.moved
        /\ row'[c].updatedAt # row[c].updatedAt => c \in list'.moved
    BY <1>t, <1>4, <2>1 DEF PutItem, Lists
  <2>3. Indexed' \subseteq {conv'[t] : t \in Turns}
    BY <1>4, <2>1 DEF PagingInv, Indexed
  <2>4. \A d \in list'.first \ list'.moved :
          d \in list.first \ list.moved /\ d \in Conversations /\ row'[d].updatedAt = row[d].updatedAt
    BY <1>t, <2>1, <2>2 DEF Lists
  <2>5. QED BY <2>2, <2>3, <2>4 DEF PagingInv, PassedBy, Indexed
<1>5. CASE UNCHANGED <<row, list, conv>>
  BY <1>5 DEF PagingInv, PassedBy, Indexed
<1>6. ASSUME NEW t \in Turns, PutContact(t) PROVE PagingInv'
  <2>1. conv' = conv /\ \/ UNCHANGED <<row, list>>
                        \/ PutItem(conv[t], [copy[t] EXCEPT !.contact = t])
    BY <1>6 DEF PutContact
  <2>2. QED BY <1>t, <1>4, <1>5, <2>1
<1>7. ASSUME NEW t \in Turns, PutUser(t) \/ PutReply(t) PROVE PagingInv'
  <2>1. conv' = conv /\ \E item : PutItem(conv[t], item) BY <1>7 DEF PutUser, PutReply, AppendPut
  <2>2. QED BY <1>t, <1>4, <2>1
<1>8. ASSUME NEW t \in Turns,
             \/ BeginTurn(t) \/ Load(t, "contact_load", "contact_put") \/ SaveSession(t)
             \/ Load(t, "user_load", "user_put") \/ Load(t, "reply_load", "reply_put") \/ Stop(t)
      PROVE  UNCHANGED <<row, list, conv>>
  BY <1>8 DEF BeginTurn, Load, SaveSession, Stop, items
<1>9. QED BY <1>2, <1>3, <1>5, <1>6, <1>7, <1>8 DEF Next, vars, items, turns

(* UnmovedIsListedOnce: paging to the end shows every conversation that    *)
(* was there and had no new activity exactly once (list_by_customer).      *)
THEOREM UnmovedAlwaysListedOnce == Spec => []UnmovedIsListedOnce
<1>1. Init => PagingInv
  <2> SUFFICES ASSUME Init PROVE PagingInv OBVIOUS
  <2>1. Indexed = {} BY DEF Init, Indexed, NoRow
  <2>2. QED BY <2>1 DEF Init, PagingInv, NoList
<1>2. PagingInv => UnmovedIsListedOnce BY DEF PagingInv, PassedBy, UnmovedIsListedOnce
<1>3. TypeOK /\ TypeOK' /\ PagingInv /\ [Next]_vars => PagingInv' BY StepPaging
<1>4. QED BY <1>1, <1>2, <1>3, StoreTyped, PTL DEF Spec
=============================================================================
