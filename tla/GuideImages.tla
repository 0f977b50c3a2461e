----------------------------- MODULE GuideImages -----------------------------
(***************************************************************************)
(* stores/doc_image_store.py: the images of one application's guides, as   *)
(* turns see them.  The bucket is listed file by file (page by page in the *)
(* code), while images are uploaded and removed; what a listing found is   *)
(* kept for CacheSeconds from its start.  Turns list at the same time.     *)
(***************************************************************************)
EXTENDS Integers, FiniteSets

CONSTANTS
  Files,
  Turns,
  CacheSeconds,   \* doc_images_cache_seconds
  MaxTime         \* where the clock stops

ASSUME ImageConstants == CacheSeconds \in Nat /\ MaxTime \in Nat

VARIABLES
  bucket,   \* the files in the bucket
  turned,   \* when each file was last uploaded or removed
  clock,
  cache,    \* names and when they expire
  call      \* the call of names each turn makes

vars == <<bucket, turned, clock, cache, call>>

NoCall == [state |-> "idle", start |-> 0, unread |-> {}, names |-> {}]

Init ==
  /\ bucket \in SUBSET Files
  /\ turned = [f \in Files |-> -CacheSeconds]
  /\ clock = 0
  /\ cache = [expires |-> 0, names |-> {}]
  /\ call = [t \in Turns |-> NoCall]

Tick ==
  /\ clock < MaxTime
  /\ clock' = clock + 1
  /\ UNCHANGED <<bucket, turned, cache, call>>

\* The upload script, or whoever tidies the bucket.
Change(f) ==
  /\ bucket' = IF f \in bucket THEN bucket \ {f} ELSE bucket \cup {f}
  /\ turned' = [turned EXCEPT ![f] = clock]
  /\ UNCHANGED <<clock, cache, call>>

Cached == cache.expires > clock

AskCached(t) ==
  /\ call[t].state = "idle" /\ Cached
  /\ call' = [call EXCEPT ![t].state = "cached", ![t].names = cache.names]
  /\ UNCHANGED <<bucket, turned, clock, cache>>

AskBucket(t) ==
  /\ call[t].state = "idle" /\ ~Cached
  /\ call' = [call EXCEPT ![t] = [NoCall EXCEPT !.state = "listing", !.start = clock, !.unread = Files]]
  /\ UNCHANGED <<bucket, turned, clock, cache>>

ReadPage(t) ==
  /\ call[t].state = "listing"
  /\ \E f \in call[t].unread :
       call' = [call EXCEPT ![t].unread = @ \ {f}, ![t].names = @ \cup ({f} \cap bucket)]
  /\ UNCHANGED <<bucket, turned, clock, cache>>

\* Mutant: the lifetime runs from the end of the listing.
ExpiryFromEnd(t) == clock + CacheSeconds

Expiry(t) == call[t].start + CacheSeconds

\* The last listing to end is kept, even if it began before another.
EndListing(t) ==
  /\ call[t].state = "listing" /\ call[t].unread = {}
  /\ cache' = [expires |-> Expiry(t), names |-> call[t].names]
  /\ call' = [call EXCEPT ![t].state = "listed"]
  /\ UNCHANGED <<bucket, turned, clock>>

\* A ClientError gives no images for this turn, any other error ends it; nothing is kept.
FailListing(t) ==
  /\ call[t].state = "listing"
  /\ \E state \in {"failed", "raised"} : call' = [call EXCEPT ![t] = [NoCall EXCEPT !.state = state]]
  /\ UNCHANGED <<bucket, turned, clock, cache>>

\* The turn ends; the next one asks again.
Leave(t) ==
  /\ call[t].state \in {"cached", "listed", "failed", "raised"}
  /\ call' = [call EXCEPT ![t] = NoCall]
  /\ UNCHANGED <<bucket, turned, clock, cache>>

Next ==
  \/ Tick
  \/ \E f \in Files : Change(f)
  \/ \E t \in Turns :
       \/ AskCached(t) \/ AskBucket(t)
       \/ ReadPage(t) \/ EndListing(t) \/ FailListing(t)
       \/ Leave(t)

Spec == Init /\ [][Next]_vars

-----------------------------------------------------------------------------
LastIn(f)  == IF f \in bucket THEN clock ELSE turned[f]
LastOut(f) == IF f \in bucket THEN turned[f] ELSE clock

\* A turn that is answered at all is offered no image that has been gone for as long as
\* the cache keeps, and misses none that has been there for as long, however the
\* listings of several turns overlap (names).  An image that was there for all of a
\* turn's own listing is in it, and one that was not at all is not.
OffersLagOneLifetime ==
  [][\A t \in Turns : \A since \in {IF call'[t].state = "cached" THEN clock - CacheSeconds + 1
                                    ELSE call[t].start} :
       call[t].state # call'[t].state /\ call'[t].state \in {"cached", "listed"} =>
         \A f \in Files :
           IF f \in call'[t].names THEN LastIn(f) >= since ELSE LastOut(f) >= since]_vars
=============================================================================
