-------------------------- MODULE GuideImagesProofs --------------------------
(***************************************************************************)
(* For any files, turns and lifetime of the cache: what a turn is offered  *)
(* lags the bucket by less than that lifetime.                             *)
(***************************************************************************)
EXTENDS GuideImages, TLAPS

(* What names says of file f was true at some time since start.            *)
Holds(f, names, start) == IF f \in names THEN LastIn(f) >= start ELSE LastOut(f) >= start

Calls == [state : {"idle", "cached", "listing", "listed", "failed", "raised"}, start : Nat,
          unread : SUBSET Files, names : SUBSET Files]

TypeInv ==
  /\ bucket \subseteq Files
  /\ clock \in Nat
  /\ turned \in [Files -> Int] /\ \A f \in Files : turned[f] <= clock
  /\ cache \in [expires : Int, names : SUBSET Files]
  /\ call \in [Turns -> Calls]

(* The cache is as old as its lifetime says; a listing under way has what  *)
(* it has read since it began.                                             *)
LagInv ==
  /\ \A f \in Files : Holds(f, cache.names, cache.expires - CacheSeconds)
  /\ \A t \in Turns : call[t].state = "listing" =>
       /\ call[t].start <= clock
       /\ \A f \in Files : f \in call[t].names \/ f \notin call[t].unread =>
            Holds(f, call[t].names, call[t].start)

Inv == TypeInv /\ LagInv

LEMMA InitLag == Init => Inv
<1> SUFFICES ASSUME Init PROVE Inv
  OBVIOUS
<1>1. TypeInv BY ImageConstants DEF Init, TypeInv, NoCall, Calls
<1>2. \A f \in Files : Holds(f, cache.names, cache.expires - CacheSeconds)
  BY ImageConstants DEF Init, Holds, LastOut
<1>3. QED BY <1>1, <1>2 DEF Init, Inv, LagInv, NoCall

(* When a file was last there, and last not there, only moves on.          *)
LEMMA LastsMoveOn ==
  ASSUME TypeInv, TypeInv', NEW f \in Files,
         \/ UNCHANGED <<bucket, turned>> /\ clock <= clock'
         \/ \E g \in Files : Change(g)
  PROVE  LastIn(f) <= LastIn(f)' /\ LastOut(f) <= LastOut(f)'
<1>1. CASE UNCHANGED <<bucket, turned>> /\ clock <= clock'
  BY <1>1 DEF LastIn, LastOut, TypeInv
<1>2. ASSUME NEW g \in Files, Change(g) PROVE LastIn(f) <= LastIn(f)' /\ LastOut(f) <= LastOut(f)'
  <2>1. /\ turned' = [turned EXCEPT ![g] = clock] /\ clock' = clock
        /\ f # g => (f \in bucket <=> f \in bucket')
        /\ g \in bucket <=> g \notin bucket'
    BY <1>2 DEF Change
  <2>2. turned[f] <= clock /\ turned[f] \in Int /\ clock \in Int BY DEF TypeInv
  <2>3. CASE f = g BY <2>1, <2>2, <2>3 DEF LastIn, LastOut, TypeInv
  <2>4. CASE f # g BY <2>1, <2>2, <2>4 DEF LastIn, LastOut, TypeInv
  <2>5. QED BY <2>3, <2>4
<1>3. QED BY <1>1, <1>2

LEMMA LastsTyped ==
  ASSUME TypeInv, NEW f \in Files
  PROVE  LastIn(f) \in Int /\ LastOut(f) \in Int
  BY DEF TypeInv, LastIn, LastOut

LEMMA NextTyped == TypeInv /\ [Next]_vars => TypeInv'
<1> SUFFICES ASSUME TypeInv, [Next]_vars PROVE TypeInv'
  OBVIOUS
<1> USE DEF TypeInv, Calls
<1>1. CASE Tick BY <1>1 DEF Tick
<1>2. ASSUME NEW f \in Files, Change(f) PROVE TypeInv'
  BY <1>2 DEF Change
<1>3. ASSUME NEW t \in Turns PROVE AskCached(t) => TypeInv'
  <2>1. [call[t] EXCEPT !.state = "cached", !.names = cache.names] \in Calls OBVIOUS
  <2>2. QED BY <2>1 DEF AskCached
<1>4. ASSUME NEW t \in Turns PROVE AskBucket(t) => TypeInv'
  <2>1. [NoCall EXCEPT !.state = "listing", !.start = clock, !.unread = Files] \in Calls BY DEF NoCall
  <2>2. QED BY <2>1 DEF AskBucket
<1>5. ASSUME NEW t \in Turns PROVE ReadPage(t) => TypeInv'
  <2> SUFFICES ASSUME ReadPage(t) PROVE TypeInv'
    OBVIOUS
  <2>1. PICK f \in call[t].unread :
          call' = [call EXCEPT ![t].unread = @ \ {f}, ![t].names = @ \cup ({f} \cap bucket)]
    BY DEF ReadPage
  <2>2. [call[t] EXCEPT !.unread = @ \ {f}, !.names = @ \cup ({f} \cap bucket)] \in Calls OBVIOUS
  <2>3. call' \in [Turns -> Calls] BY <2>1, <2>2
  <2>4. QED BY <2>3 DEF ReadPage
<1>6. ASSUME NEW t \in Turns PROVE EndListing(t) => TypeInv'
  <2> SUFFICES ASSUME EndListing(t) PROVE TypeInv'
    OBVIOUS
  <2>1. cache' \in [expires : Int, names : SUBSET Files]
    BY ImageConstants DEF EndListing, Expiry
  <2>2. QED BY <2>1 DEF EndListing
<1>7. ASSUME NEW t \in Turns PROVE FailListing(t) => TypeInv' BY DEF FailListing, NoCall
<1>8. ASSUME NEW t \in Turns PROVE Leave(t) => TypeInv' BY DEF Leave, NoCall
<1>9. CASE UNCHANGED vars BY <1>9 DEF vars
<1>10. QED BY <1>1, <1>2, <1>3, <1>4, <1>5, <1>6, <1>7, <1>8, <1>9 DEF Next

(* A step that changes no call and no cache keeps what they say.           *)
LEMMA TimeKeepsLag ==
  ASSUME Inv, TypeInv', UNCHANGED <<cache, call>>, clock <= clock',
         (UNCHANGED <<bucket, turned>>) \/ \E g \in Files : Change(g)
  PROVE  LagInv'
<1>1. ASSUME NEW f \in Files, NEW names \in SUBSET Files, NEW start \in Int, Holds(f, names, start)
      PROVE  Holds(f, names, start)'
  <2>1. LastIn(f) <= LastIn(f)' /\ LastOut(f) <= LastOut(f)' BY LastsMoveOn DEF Inv
  <2>2. LastIn(f)' \in Int /\ LastOut(f)' \in Int BY DEF TypeInv, LastIn, LastOut
  <2>3. LastIn(f) \in Int /\ LastOut(f) \in Int BY LastsTyped DEF Inv
  <2>4. QED BY <1>1, <2>1, <2>2, <2>3 DEF Holds
<1>2. cache.names \in SUBSET Files /\ cache.expires - CacheSeconds \in Int
  BY ImageConstants DEF Inv, TypeInv
<1>3. \A f \in Files : Holds(f, cache.names, cache.expires - CacheSeconds)'
  BY <1>1, <1>2 DEF Inv, LagInv
<1>4. \A t \in Turns : call[t].names \in SUBSET Files /\ call[t].start \in Int
  BY DEF Inv, TypeInv, Calls
<1>5. \A t \in Turns, f \in Files :
        Holds(f, call[t].names, call[t].start) => Holds(f, call[t].names, call[t].start)'
  BY <1>1, <1>4
<1>6. \A t \in Turns : call[t].start <= clock => call[t].start <= clock'
  BY <1>4 DEF Inv, TypeInv
<1>7. QED BY <1>3, <1>5, <1>6 DEF LagInv, Inv

LEMMA NextKeepsLag == Inv /\ [Next]_vars => Inv'
<1> SUFFICES ASSUME Inv, [Next]_vars PROVE LagInv'
  BY NextTyped DEF Inv
<1>1. TypeInv' BY NextTyped DEF Inv
<1>2. CASE Tick BY <1>1, <1>2, TimeKeepsLag DEF Tick, Inv, TypeInv
<1>3. ASSUME NEW f \in Files, Change(f) PROVE LagInv'
  BY <1>1, <1>3, TimeKeepsLag DEF Change, Inv, TypeInv
<1>4. ASSUME UNCHANGED <<bucket, turned, clock>> PROVE
        \A f \in Files, names \in SUBSET Files, start \in Int :
          Holds(f, names, start)' <=> Holds(f, names, start)
  BY <1>4 DEF Holds, LastIn, LastOut
<1>5. ASSUME NEW t \in Turns PROVE AskCached(t) => LagInv'
  BY <1>4 DEF AskCached, Inv, LagInv, TypeInv, Calls, Holds, LastIn, LastOut
<1>6. ASSUME NEW t \in Turns PROVE AskBucket(t) => LagInv'
  <2> SUFFICES ASSUME AskBucket(t) PROVE LagInv'
    OBVIOUS
  <2>1. /\ call' = [call EXCEPT ![t] = [NoCall EXCEPT !.state = "listing", !.start = clock, !.unread = Files]]
        /\ UNCHANGED <<bucket, turned, clock, cache>>
    BY DEF AskBucket
  <2>2. call'[t].start = clock /\ call'[t].unread = Files /\ call'[t].names = {}
    BY <2>1 DEF NoCall, Inv, TypeInv
  <2>3. \A u \in Turns \ {t} : call'[u] = call[u] BY <2>1 DEF Inv, TypeInv
  <2>4. QED BY <2>1, <2>2, <2>3 DEF Inv, LagInv, TypeInv, Holds, LastIn, LastOut
<1>7. ASSUME NEW t \in Turns PROVE ReadPage(t) => LagInv'
  <2> SUFFICES ASSUME ReadPage(t) PROVE LagInv'
    OBVIOUS
  <2>1. PICK f \in call[t].unread :
          call' = [call EXCEPT ![t].unread = @ \ {f}, ![t].names = @ \cup ({f} \cap bucket)]
    BY DEF ReadPage
  <2>2. UNCHANGED <<bucket, turned, clock, cache>> /\ call[t].state = "listing" BY DEF ReadPage
  <2>3. /\ call'[t].state = "listing" /\ call'[t].start = call[t].start
        /\ call'[t].unread = call[t].unread \ {f} /\ call'[t].names = call[t].names \cup ({f} \cap bucket)
        /\ \A u \in Turns \ {t} : call'[u] = call[u]
    BY <2>1, <2>2 DEF Inv, TypeInv, Calls
  <2>4. f \in Files /\ call[t].start \in Int /\ clock \in Int /\ call[t].start <= clock
    BY <2>2 DEF Inv, TypeInv, LagInv, Calls
  <2>5. \A g \in Files : g \in call'[t].names \/ g \notin call'[t].unread =>
          Holds(g, call'[t].names, call'[t].start)
    <3> SUFFICES ASSUME NEW g \in Files, g \in call'[t].names \/ g \notin call'[t].unread
        PROVE  Holds(g, call'[t].names, call'[t].start)
      OBVIOUS
    <3>1. CASE g = f /\ f \in bucket BY <2>3, <2>4, <3>1 DEF Holds, LastIn
    <3>2. CASE g = f /\ f \notin bucket
      <4>1. f \in call'[t].names <=> f \in call[t].names BY <2>3, <3>2
      <4>2. LastOut(f) >= call[t].start BY <2>4, <3>2 DEF LastOut
      <4>3. f \in call[t].names => LastIn(f) >= call[t].start
        BY <2>2, <2>4 DEF Inv, LagInv, Holds
      <4>4. QED BY <2>3, <3>2, <4>1, <4>2, <4>3 DEF Holds
    <3>3. CASE g # f
      <4>1. /\ g \in call'[t].names <=> g \in call[t].names
            /\ g \in call'[t].unread <=> g \in call[t].unread
        BY <2>3, <3>3
      <4>2. Holds(g, call[t].names, call[t].start) BY <2>2, <4>1 DEF Inv, LagInv
      <4>3. QED BY <2>3, <4>1, <4>2 DEF Holds
    <3>4. QED BY <3>1, <3>2, <3>3
  <2>6. \A g \in Files : LastIn(g)' = LastIn(g) /\ LastOut(g)' = LastOut(g)
    BY <2>2 DEF LastIn, LastOut
  <2>7. \A g \in Files : g \in call'[t].names \/ g \notin call'[t].unread =>
          Holds(g, call[t].names, call[t].start)'
    BY <2>5, <2>6 DEF Holds
  <2>8. \A u \in Turns \ {t} : call'[u].state = "listing" =>
          /\ call'[u].start <= clock'
          /\ \A g \in Files : g \in call'[u].names \/ g \notin call'[u].unread =>
               Holds(g, call[u].names, call[u].start)'
    BY <2>2, <2>3, <2>6 DEF Inv, LagInv, Holds
  <2>9. \A g \in Files : Holds(g, cache.names, cache.expires - CacheSeconds)'
    BY <2>2, <2>6 DEF Inv, LagInv, Holds
  <2>10. call'[t].start <= clock' BY <2>2, <2>3, <2>4
  <2>11. QED BY <2>7, <2>8, <2>9, <2>10 DEF LagInv
<1>8. ASSUME NEW t \in Turns PROVE EndListing(t) => LagInv'
  <2> SUFFICES ASSUME EndListing(t) PROVE LagInv'
    OBVIOUS
  <2>1. /\ call[t].state = "listing" /\ call[t].unread = {}
        /\ cache' = [expires |-> call[t].start + CacheSeconds, names |-> call[t].names]
        /\ call' = [call EXCEPT ![t].state = "listed"] /\ UNCHANGED <<bucket, turned, clock>>
    BY DEF EndListing, Expiry
  <2>2. \A u \in Turns : call'[u].state = "listing" => call'[u] = call[u]
    BY <2>1 DEF Inv, TypeInv, Calls
  <2>3. \A g \in Files : LastIn(g)' = LastIn(g) /\ LastOut(g)' = LastOut(g)
    BY <2>1 DEF LastIn, LastOut
  <2>4. \A g \in Files : Holds(g, cache.names, cache.expires - CacheSeconds)'
    <3>1. cache'.expires - CacheSeconds = call[t].start /\ cache'.names = call[t].names
      BY <2>1, ImageConstants DEF Inv, TypeInv, Calls
    <3>2. \A g \in Files : Holds(g, call[t].names, call[t].start) BY <2>1 DEF Inv, LagInv
    <3>3. QED BY <2>3, <3>1, <3>2 DEF Holds
  <2>5. QED BY <2>1, <2>2, <2>3, <2>4 DEF Inv, LagInv, Holds
<1>9. ASSUME NEW t \in Turns PROVE FailListing(t) \/ Leave(t) => LagInv'
  <2> SUFFICES ASSUME FailListing(t) \/ Leave(t) PROVE LagInv'
    OBVIOUS
  <2>1. UNCHANGED <<bucket, turned, clock, cache>> BY DEF FailListing, Leave
  <2>2. \A u \in Turns : call'[u].state = "listing" => call'[u] = call[u]
    BY DEF FailListing, Leave, NoCall, Inv, TypeInv, Calls
  <2>3. \A g \in Files : LastIn(g)' = LastIn(g) /\ LastOut(g)' = LastOut(g)
    BY <2>1 DEF LastIn, LastOut
  <2>4. QED BY <2>1, <2>2, <2>3 DEF Inv, LagInv, Holds
<1>10. CASE UNCHANGED vars
  BY <1>1, <1>10, TimeKeepsLag DEF vars, Inv, TypeInv
<1>11. QED BY <1>2, <1>3, <1>5, <1>6, <1>7, <1>8, <1>9, <1>10 DEF Next

(* A turn that asks the cache, or ends its listing, is told nothing older. *)
LEMMA StepsOfferFresh ==
  ASSUME Inv, [Next]_vars, NEW t \in Turns,
         call[t].state # call'[t].state, call'[t].state \in {"cached", "listed"},
         NEW f \in Files
  PROVE  Holds(f, call'[t].names,
               IF call'[t].state = "cached" THEN clock - CacheSeconds + 1 ELSE call[t].start)
<1>1. \E u \in Turns : AskCached(u) \/ EndListing(u)
  <2>1. ASSUME Tick \/ UNCHANGED vars \/ \E g \in Files : Change(g) PROVE FALSE
    BY <2>1 DEF Tick, Change, vars
  <2>2. ASSUME NEW u \in Turns, AskBucket(u) \/ ReadPage(u) \/ FailListing(u) \/ Leave(u) PROVE FALSE
    <3>1. \A v \in Turns \ {u} : call'[v] = call[v]
      BY <2>2 DEF AskBucket, ReadPage, FailListing, Leave, Inv, TypeInv
    <3>2. AskBucket(u) => call'[u].state = "listing" BY DEF AskBucket, NoCall, Inv, TypeInv
    <3>3. ReadPage(u) => call'[u].state = call[u].state BY DEF ReadPage, Inv, TypeInv, Calls
    <3>4. FailListing(u) => call'[u].state \in {"failed", "raised"} BY DEF FailListing, NoCall, Inv, TypeInv
    <3>5. Leave(u) => call'[u].state = "idle" BY DEF Leave, NoCall, Inv, TypeInv
    <3>6. QED BY <2>2, <3>1, <3>2, <3>3, <3>4, <3>5
  <2>3. QED BY <2>1, <2>2 DEF Next
<1>2. PICK u \in Turns : AskCached(u) \/ EndListing(u) BY <1>1
<1>3. u = t BY <1>2 DEF AskCached, EndListing, Inv, TypeInv
<1>4. CASE AskCached(t)
  <2>1. /\ cache.expires > clock /\ call'[t].state = "cached" /\ call'[t].names = cache.names
    BY <1>4 DEF AskCached, Cached, Inv, TypeInv, Calls
  <2>2. cache.expires \in Int /\ clock \in Int BY DEF Inv, TypeInv
  <2>3. Holds(f, cache.names, cache.expires - CacheSeconds) BY DEF Inv, LagInv
  <2>4. cache.expires - CacheSeconds >= clock - CacheSeconds + 1
    BY <2>1, <2>2, ImageConstants
  <2>5. QED BY <2>1, <2>2, <2>3, <2>4, LastsTyped, ImageConstants DEF Holds, Inv
<1>5. CASE EndListing(t)
  <2>1. /\ call[t].state = "listing" /\ call[t].unread = {}
        /\ call'[t].state = "listed" /\ call'[t].names = call[t].names
    BY <1>5 DEF EndListing, Inv, TypeInv, Calls
  <2>2. QED BY <2>1 DEF Inv, LagInv
<1>6. QED BY <1>2, <1>3, <1>4, <1>5

(* A turn is offered no image that has been gone for a lifetime of the     *)
(* cache and misses none that has been there for one                       *)
(* (OffersLagOneLifetime).                                                 *)
THEOREM OffersAlwaysLagOneLifetime == Spec => OffersLagOneLifetime
<1> DEFINE Fresh ==
  \A t \in Turns : \A since \in {IF call'[t].state = "cached" THEN clock - CacheSeconds + 1
                                 ELSE call[t].start} :
    call[t].state # call'[t].state /\ call'[t].state \in {"cached", "listed"} =>
      \A f \in Files :
        IF f \in call'[t].names THEN LastIn(f) >= since ELSE LastOut(f) >= since
<1>1. Inv /\ [Next]_vars => [Fresh]_vars
  BY StepsOfferFresh DEF Holds
<1>2. QED
  BY InitLag, NextKeepsLag, <1>1, PTL DEF Spec, OffersLagOneLifetime
=============================================================================
