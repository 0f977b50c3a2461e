---------------------------- MODULE AccountsProofs ----------------------------
(***************************************************************************)
(* For any customers, limits, days and requests: the types of Accounts,    *)
(* that no slot of a day is taken twice or beyond its limit, that a        *)
(* profile never holds a value nobody gave it, and that a patch no other   *)
(* overlaps, of the current item, keeps what it does not name.             *)
(***************************************************************************)
EXTENDS Accounts, TLAPS

(* Whoever is patched, or was ever there to be read, is there, in the      *)
(* table and in wanted.                                                    *)
PatchedExist ==
  /\ \A c \in Customers : profiles[c] \in Profiles <=> wanted[c] \in Profiles
  /\ \A q \in Requests : pc[q] = "put" => profiles[job[q].customer] \in Profiles
  /\ \A c \in Customers : \A p \in served[c] : p # NoProfile => profiles[c] \in Profiles

TypeInv ==
  /\ TypeOK
  /\ job = [q \in Requests |-> job[q]]
  /\ \A q \in Requests : pc[q] \in {"consume", "asked"} => job[q].day \in Days
  /\ PatchedExist

(* The slots of a day and those lost are the ones counted, until the       *)
(* counter is deleted; by then no request of that day is left to count.    *)
Slots(c, d)   == {job[q].slot : q \in Asked(c, d)}
Counted(c, d) == Slots(c, d) \cup unheard[c][d] = 1 .. usage[c][d]
Deleted(c, d) ==
  /\ usage[c][d] = 0 /\ d + Retention <= today
  /\ \A q \in Requests : pc[q] = "consume" => job[q].day # d

SlotInv ==
  \A c \in Customers, d \in Days :
    /\ \A p, q \in Asked(c, d) : job[p].slot = job[q].slot => p = q
    /\ \A q \in Asked(c, d) : job[q].slot \in 1 .. job[q].limit
    /\ Slots(c, d) \cap unheard[c][d] = {}
    /\ Counted(c, d) \/ Deleted(c, d)

(* Every item that is served, or that a patch works on, has the values     *)
(* somebody gave it.                                                       *)
From(p, g) == p.role \in g.role /\ p.limit \in g.limit

GivenInv ==
  /\ \A c \in Customers : \A p \in served[c] \cup {profiles[c]} : p # NoProfile => From(p, given[c])
  /\ \A q \in Requests : pc[q] = "put" => From(job[q].copy, given[job[q].customer])

(* The one patch of a customer that is not raced has read what is there.   *)
PatchInv ==
  \A c \in Customers \ raced :
    /\ profiles[c] = wanted[c]
    /\ \A p, q \in Patching(c) : p = q
    /\ \A q \in Patching(c) : job[q].copy = profiles[c]

-----------------------------------------------------------------------------
(* Types.                                                                  *)

LEMMA ProfileFacts ==
  /\ NoProfile \notin Profiles
  /\ NoJob \notin Question /\ NoJob \notin Patch
  /\ \A p \in Profiles : p.role \in Roles /\ p.limit \in Limits
                         /\ p = [role |-> p.role, limit |-> p.limit]
<1>1. NoProfile \notin Profiles BY DEF NoProfile, Profiles, Roles
<1>2. NoJob \notin Question
  <2>1. \A j \in Question : DOMAIN j = {"customer", "limit", "day", "slot"} BY DEF Question
  <2>2. DOMAIN NoJob = {"customer"} BY DEF NoJob
  <2>3. QED BY <2>1, <2>2
<1>3. NoJob \notin Patch
  <2>1. \A j \in Patch : DOMAIN j = {"customer", "copy", "change"} BY DEF Patch
  <2>2. DOMAIN NoJob = {"customer"} BY DEF NoJob
  <2>3. QED BY <2>1, <2>2
<1>4. QED BY <1>1, <1>2, <1>3 DEF Profiles

LEMMA PatchedFits ==
  ASSUME NEW p \in Profiles, NEW change \in Changes
  PROVE  Patched(p, change) \in Profiles
  BY ProfileFacts DEF Patched, Profiles, Changes, KeepLimit, NoChange, Limits, Unlimited

LEMMA InitTyped == Init => TypeInv
<1> SUFFICES ASSUME Init PROVE TypeInv
  OBVIOUS
<1>1. Unlimited \in Limits /\ MaxLimit \in Limits BY AccountConstants DEF Limits
<1>2. profiles \in [Customers -> Profiles \cup {NoProfile}]
  BY <1>1 DEF Init, Profiles, Roles
<1>3. 1 \in Days /\ 0 \in 0 .. MaxLimit BY AccountConstants DEF Days
<1>4. \A q \in Requests : pc[q] = "idle" /\ job[q] = NoJob BY DEF Init
<1>5. given \in [Customers -> [role : SUBSET Roles, limit : SUBSET Limits]]
  BY <1>1, <1>2 DEF Init, Profiles, NoProfile
<1>6. /\ served \in [Customers -> SUBSET (Profiles \cup {NoProfile})] /\ wanted = profiles
      /\ \A c \in Customers : served[c] = {profiles[c]}
  BY <1>2 DEF Init
<1>7. TypeOK BY <1>2, <1>3, <1>4, <1>5, <1>6 DEF Init, TypeOK, QuestionSteps
<1>8. PatchedExist BY <1>2, <1>4, <1>6 DEF PatchedExist
<1>9. QED BY <1>4, <1>7, <1>8 DEF Init, TypeInv

Steps         == QuestionSteps \cup {"idle", "put", "done"}
JobsOf(step)  == IF step \in QuestionSteps THEN Question ELSE IF step = "put" THEN Patch ELSE {NoJob}
JobsFit(p, j) == \A q \in Requests : j[q] \in JobsOf(p[q])

(* One request goes on, with a job that fits where it goes.                *)
LEMMA MoveTyped ==
  ASSUME TypeInv, NEW q \in Requests, NEW step \in Steps, NEW j \in JobsOf(step),
         pc' = [pc EXCEPT ![q] = step], job' = [job EXCEPT ![q] = j]
  PROVE  /\ pc' \in [Requests -> Steps]
         /\ job' = [p \in Requests |-> job'[p]]
         /\ JobsFit(pc', job')
         /\ pc'[q] = step /\ job'[q] = j
         /\ \A p \in Requests \ {q} : pc'[p] = pc[p] /\ job'[p] = job[p]
  BY DEF TypeInv, TypeOK, Steps, JobsFit, JobsOf

LEMMA LeaveTyped ==
  ASSUME TypeInv, NEW q \in Requests, Leave(q)
  PROVE  /\ pc' \in [Requests -> Steps]
         /\ job' = [p \in Requests |-> job'[p]]
         /\ JobsFit(pc', job')
         /\ pc'[q] = "done" /\ job'[q] = NoJob
         /\ \A p \in Requests \ {q} : pc'[p] = pc[p] /\ job'[p] = job[p]
<1>1. "done" \in Steps /\ NoJob \in JobsOf("done") BY DEF Steps, JobsOf, QuestionSteps
<1>2. QED BY <1>1, MoveTyped DEF Leave, Goto

(* What BeginPatch does with the item it reads.                            *)
Patches(q, c, copy) ==
  IF copy = NoProfile THEN Leave(q) /\ UNCHANGED raced
  ELSE \E role \in Roles \cup {NoChange}, limit \in Limits \cup {KeepLimit} :
         /\ job' = [job EXCEPT ![q] =
              [customer |-> c, copy |-> copy, change |-> [role |-> role, limit |-> limit]]]
         /\ Goto(q, "put")
         /\ raced' = IF Patching(c) = {} /\ copy = profiles[c] THEN raced ELSE raced \cup {c}

LEMMA NextTyped == TypeInv /\ [Next]_vars => TypeInv'
<1> SUFFICES ASSUME TypeInv, [Next]_vars PROVE TypeInv'
  OBVIOUS
<1> DEFINE
  Working == /\ pc' \in [Requests -> Steps]
             /\ job' = [p \in Requests |-> job'[p]]
             /\ JobsFit(pc', job')
             /\ \A q \in Requests : pc'[q] \in {"consume", "asked"} => job'[q].day \in Days
  Kept    == /\ profiles' \in [Customers -> Profiles \cup {NoProfile}]
             /\ wanted' \in [Customers -> Profiles \cup {NoProfile}]
             /\ served' \in [Customers -> SUBSET (Profiles \cup {NoProfile})]
             /\ given' \in [Customers -> [role : SUBSET Roles, limit : SUBSET Limits]]
             /\ raced' \subseteq Customers
             /\ PatchedExist'
  Counters == /\ usage' \in [Customers -> [Days -> 0 .. MaxLimit]]
              /\ unheard' \in [Customers -> [Days -> SUBSET (1 .. MaxLimit)]]
              /\ today' \in Days
<1>1. ASSUME Working, Kept, Counters PROVE TypeInv'
  BY <1>1 DEF TypeInv, TypeOK, JobsFit, JobsOf, Steps
<1>2. /\ pc \in [Requests -> Steps] /\ job = [p \in Requests |-> job[p]] /\ JobsFit(pc, job)
      /\ \A q \in Requests : pc[q] \in {"consume", "asked"} => job[q].day \in Days
      /\ profiles \in [Customers -> Profiles \cup {NoProfile}]
      /\ wanted \in [Customers -> Profiles \cup {NoProfile}]
      /\ served \in [Customers -> SUBSET (Profiles \cup {NoProfile})]
      /\ given \in [Customers -> [role : SUBSET Roles, limit : SUBSET Limits]]
      /\ usage \in [Customers -> [Days -> 0 .. MaxLimit]]
      /\ unheard \in [Customers -> [Days -> SUBSET (1 .. MaxLimit)]]
      /\ today \in Days /\ raced \subseteq Customers /\ PatchedExist
  BY DEF TypeInv, TypeOK, JobsFit, JobsOf, Steps
<1>k. ASSUME UNCHANGED admin,
             \A p \in Requests : pc'[p] = "put" => pc[p] = "put" /\ job'[p] = job[p]
      PROVE  Kept
  BY <1>2, <1>k DEF PatchedExist, admin
<1>c. ASSUME UNCHANGED <<meter, today>> PROVE Counters
  BY <1>2, <1>c DEF meter
<1>3. ASSUME NEW q \in Requests, Stop(q) PROVE TypeInv'
  <2>1. Working BY <1>2, <1>3, LeaveTyped DEF Stop
  <2>2. Kept BY <1>3, <1>k, LeaveTyped DEF Stop
  <2>3. Counters BY <1>3, <1>c DEF Stop
  <2>4. QED BY <1>1, <2>1, <2>2, <2>3
<1>4. ASSUME NextDay PROVE TypeInv'
  <2>1. today' \in Days BY <1>2, <1>4, AccountConstants DEF NextDay, Days
  <2>2. Working /\ Kept BY <1>2, <1>4, <1>k DEF NextDay
  <2>3. Counters BY <1>2, <1>4, <2>1 DEF NextDay, meter
  <2>4. QED BY <1>1, <2>2, <2>3
<1>5. ASSUME NEW c \in Customers, NEW d \in Days, Expire(c, d) PROVE TypeInv'
  <2>1. 0 \in 0 .. MaxLimit BY AccountConstants
  <2>2. Counters BY <1>2, <1>5, <2>1 DEF Expire
  <2>3. Working /\ Kept BY <1>2, <1>5, <1>k DEF Expire
  <2>4. QED BY <1>1, <2>2, <2>3
<1>u. ASSUME NEW c \in Customers, CatchUp(c) PROVE TypeInv'
  <2>1. /\ served' = [served EXCEPT ![c] = {profiles[c]}]
        /\ UNCHANGED <<profiles, wanted, given, raced, meter, today, pc, job>>
    BY <1>u DEF CatchUp
  <2>2. PatchedExist' BY <1>2, <2>1 DEF PatchedExist
  <2>3. Working /\ Kept BY <1>2, <2>1, <2>2
  <2>4. QED BY <1>1, <1>c, <2>1, <2>3
<1>6. ASSUME NEW q \in Requests, BeginQuestion(q) PROVE TypeInv'
  <2>0. PICK c \in Customers : \E p \in served[c] :
          IF Metered(p)
          THEN /\ job' = [job EXCEPT ![q] =
                    [customer |-> c, limit |-> p.limit, day |-> 0, slot |-> 0]]
               /\ Goto(q, "limit")
          ELSE Leave(q)
    BY <1>6 DEF BeginQuestion
  <2>1. PICK p \in served[c] :
          IF Metered(p)
          THEN /\ job' = [job EXCEPT ![q] =
                    [customer |-> c, limit |-> p.limit, day |-> 0, slot |-> 0]]
               /\ Goto(q, "limit")
          ELSE Leave(q)
    BY <2>0
  <2>2. Counters BY <1>6, <1>c DEF BeginQuestion
  <2>3. CASE Metered(p)
    <3> DEFINE j == [customer |-> c, limit |-> p.limit, day |-> 0, slot |-> 0]
    <3>1. p.limit \in 0 .. MaxLimit
      <4>1. p \in Profiles \cup {NoProfile} /\ p.limit # Unlimited BY <1>2, <2>3 DEF Metered
      <4>2. QED BY <4>1, ProfileFacts DEF NoProfile, Limits
    <3>2. j \in JobsOf("limit") /\ "limit" \in Steps
      <4>1. 0 \in 0 .. MaxLimit BY AccountConstants
      <4>2. QED BY <3>1, <4>1 DEF JobsOf, QuestionSteps, Question, Steps
    <3>3. job' = [job EXCEPT ![q] = j] /\ pc' = [pc EXCEPT ![q] = "limit"]
      BY <2>1, <2>3 DEF Goto
    <3> HIDE DEF j
    <3>4. Working BY <1>2, <3>2, <3>3, MoveTyped
    <3>5. \A r \in Requests : pc'[r] = "put" => pc[r] = "put" /\ job'[r] = job[r]
      BY <3>2, <3>3, MoveTyped
    <3>6. Kept BY <1>6, <1>k, <3>5 DEF BeginQuestion
    <3>7. QED BY <1>1, <2>2, <3>4, <3>6
  <2>4. CASE ~Metered(p)
    <3>1. Leave(q) BY <2>1, <2>4
    <3>2. Working BY <1>2, <3>1, LeaveTyped
    <3>3. \A r \in Requests : pc'[r] = "put" => pc[r] = "put" /\ job'[r] = job[r]
      BY <3>1, LeaveTyped
    <3>4. Kept BY <1>6, <1>k, <3>3 DEF BeginQuestion
    <3>5. QED BY <1>1, <2>2, <3>2, <3>4
  <2>5. QED BY <2>3, <2>4
<1>7. ASSUME NEW q \in Requests, ReadDay(q) PROVE TypeInv'
  <2>1. job[q] \in Question BY <1>2, <1>7 DEF ReadDay, JobsFit, JobsOf, QuestionSteps
  <2>2. Counters BY <1>7, <1>c DEF ReadDay
  <2>3. CASE job[q].limit = 0
    <3>1. Leave(q) BY <1>7, <2>3 DEF ReadDay
    <3>2. Working BY <1>2, <3>1, LeaveTyped
    <3>3. \A p \in Requests : pc'[p] = "put" => pc[p] = "put" /\ job'[p] = job[p]
      BY <3>1, LeaveTyped
    <3>4. Kept BY <1>7, <1>k, <3>3 DEF ReadDay
    <3>5. QED BY <1>1, <2>2, <3>2, <3>4
  <2>4. CASE job[q].limit # 0
    <3> DEFINE j == [job[q] EXCEPT !.day = today]
    <3>1. j \in Question /\ j.day \in Days BY <1>2, <2>1 DEF Question
    <3>2. j \in JobsOf("consume") /\ "consume" \in Steps BY <3>1 DEF JobsOf, QuestionSteps, Steps
    <3>3. job' = [job EXCEPT ![q] = j] /\ pc' = [pc EXCEPT ![q] = "consume"]
      BY <1>7, <2>4 DEF ReadDay, Goto
    <3> HIDE DEF j
    <3>4. Working BY <1>2, <3>1, <3>2, <3>3, MoveTyped
    <3>5. \A p \in Requests : pc'[p] = "put" => pc[p] = "put" /\ job'[p] = job[p]
      BY <3>2, <3>3, MoveTyped
    <3>6. Kept BY <1>7, <1>k, <3>5 DEF ReadDay
    <3>7. QED BY <1>1, <2>2, <3>4, <3>6
  <2>5. QED BY <2>3, <2>4
<1>8. ASSUME NEW q \in Requests, Consume(q) PROVE TypeInv'
  <2> DEFINE j == job[q]
             n == usage[j.customer][j.day]
  <2>1. j \in Question /\ j.day \in Days
    BY <1>2, <1>8 DEF Consume, JobsFit, JobsOf, QuestionSteps
  <2>0. n = Count(j) BY DEF Count
  <2>2. n \in 0 .. MaxLimit BY <1>2, <2>1 DEF Question
  <2>3. CASE Free(n, j.limit)
    <3> DEFINE k == [job[q] EXCEPT !.slot = n + 1]
    <3>1. n + 1 \in 0 .. MaxLimit BY <2>1, <2>2, <2>3, AccountConstants DEF Free, Question
    <3>2. k \in Question /\ k.day \in Days BY <2>1, <3>1 DEF Question
    <3>3. k \in JobsOf("asked") /\ "asked" \in Steps BY <3>2 DEF JobsOf, QuestionSteps, Steps
    <3>4. /\ job' = [job EXCEPT ![q] = k] /\ pc' = [pc EXCEPT ![q] = "asked"]
          /\ usage' = [usage EXCEPT ![j.customer][j.day] = n + 1]
      BY <1>2, <1>8, <2>1, <2>3 DEF Consume, Goto, Count, CountOne, Question
    <3>5. Counters BY <1>2, <1>8, <2>1, <3>1, <3>4 DEF Consume, Question
    <3> HIDE DEF k
    <3>6. Working BY <1>2, <3>2, <3>3, <3>4, MoveTyped
    <3>7. \A p \in Requests : pc'[p] = "put" => pc[p] = "put" /\ job'[p] = job[p]
      BY <3>3, <3>4, MoveTyped
    <3>8. Kept BY <1>8, <1>k, <3>7 DEF Consume
    <3>9. QED BY <1>1, <3>5, <3>6, <3>8
  <2>4. CASE ~Free(n, j.limit)
    <3>1. Leave(q) /\ UNCHANGED usage BY <1>8, <2>4 DEF Consume, Count
    <3>2. Working BY <1>2, <3>1, LeaveTyped
    <3>3. \A p \in Requests : pc'[p] = "put" => pc[p] = "put" /\ job'[p] = job[p]
      BY <3>1, LeaveTyped
    <3>4. Kept BY <1>8, <1>k, <3>3 DEF Consume
    <3>5. Counters BY <1>2, <1>8, <3>1 DEF Consume
    <3>6. QED BY <1>1, <3>2, <3>4, <3>5
  <2>5. QED BY <2>3, <2>4
<1>v. ASSUME NEW q \in Requests, ConsumeUnheard(q) PROVE TypeInv'
  <2>1. job[q] \in Question /\ job[q].day \in Days /\ pc[q] = "consume"
    BY <1>2, <1>v DEF ConsumeUnheard, JobsFit, JobsOf, QuestionSteps
  <2>2. PICK j \in Question : j = job[q] /\ j.customer \in Customers /\ j.day \in Days
                              /\ j.limit \in 0 .. MaxLimit
    BY <2>1 DEF Question
  <2>3. PICK n \in 0 .. MaxLimit : n = usage[j.customer][j.day] BY <1>2, <2>2
  <2>4. /\ usage' = [usage EXCEPT ![j.customer][j.day] = n + 1]
        /\ unheard' = [unheard EXCEPT ![j.customer][j.day] = @ \cup {n + 1}]
        /\ n < j.limit
    BY <1>2, <1>v, <2>2, <2>3 DEF ConsumeUnheard, Count, CountOne, Free
  <2>5. n + 1 \in 1 .. MaxLimit BY <2>2, <2>3, <2>4, AccountConstants
  <2>6. /\ usage' \in [Customers -> [Days -> 0 .. MaxLimit]]
        /\ unheard' \in [Customers -> [Days -> SUBSET (1 .. MaxLimit)]]
    BY <1>2, <2>2, <2>4, <2>5
  <2>7. Counters BY <1>2, <1>v, <2>6 DEF ConsumeUnheard
  <2>8. /\ Working
        /\ \A p \in Requests : pc'[p] = "put" => pc[p] = "put" /\ job'[p] = job[p]
    <3>1. CASE Leave(q) BY <1>2, <3>1, LeaveTyped
    <3>2. CASE UNCHANGED <<pc, job>> BY <1>2, <3>2
    <3>3. QED BY <1>v, <3>1, <3>2 DEF ConsumeUnheard
  <2>9. Kept BY <1>v, <1>k, <2>8 DEF ConsumeUnheard
  <2>10. QED BY <1>1, <2>7, <2>8, <2>9
<1>9. ASSUME NEW q \in Requests, Create(q) PROVE TypeInv'
  <2>1. PICK c \in Customers, role \in Roles, limit \in Limits :
          /\ profiles' = Inserted(c, [role |-> role, limit |-> limit])
          /\ served' = [served EXCEPT ![c] = @ \cup {profiles'[c]}]
          /\ IF Exists(c) THEN UNCHANGED <<wanted, given>>
             ELSE /\ wanted' = [wanted EXCEPT ![c] = [role |-> role, limit |-> limit]]
                  /\ given' = [given EXCEPT ![c] = [role |-> {role}, limit |-> {limit}]]
    BY <1>9 DEF Create
  <2> DEFINE p == [role |-> role, limit |-> limit]
  <2>2. p \in Profiles BY DEF Profiles
  <2>3. /\ pc' = [pc EXCEPT ![q] = "done"] /\ UNCHANGED <<raced, meter, today, job>>
        /\ pc[q] = "idle"
    BY <1>9 DEF Create, Goto, MayBegin
  <2>4. job[q] = NoJob BY <1>2, <2>3 DEF JobsFit, JobsOf, QuestionSteps
  <2>5. /\ Working /\ pc'[q] = "done" /\ \A b \in Requests \ {q} : pc'[b] = pc[b]
        /\ \A b \in Requests : pc'[b] = "put" => pc[b] = "put" /\ job'[b] = job[b]
    BY <1>2, <2>3, <2>4 DEF JobsFit, JobsOf, QuestionSteps, Steps
  <2>6. CASE Exists(c)
    <3>1. UNCHANGED <<profiles, wanted, given, raced>> BY <2>1, <2>3, <2>6 DEF Inserted
    <3>2. served' \in [Customers -> SUBSET (Profiles \cup {NoProfile})] BY <1>2, <2>1, <3>1
    <3>3. PatchedExist'
      <4>1. profiles[c] \in Profiles BY <1>2, <2>6 DEF Exists
      <4>2. \A b \in Customers : \A r \in served'[b] : r # NoProfile => profiles'[b] \in Profiles
        BY <1>2, <2>1, <3>1, <4>1 DEF PatchedExist
      <4>3. QED BY <1>2, <2>5, <3>1, <4>2 DEF PatchedExist
    <3>4. Kept BY <1>2, <3>1, <3>2, <3>3
    <3>5. QED BY <1>1, <1>c, <2>3, <2>5, <3>4
  <2>7. CASE ~Exists(c)
    <3>1. profiles' = [profiles EXCEPT ![c] = p] /\ wanted' = [wanted EXCEPT ![c] = p]
      BY <2>1, <2>7 DEF Inserted
    <3> HIDE DEF p
    <3>2. profiles'[c] = p BY <1>2, <3>1
    <3>3. /\ profiles' \in [Customers -> Profiles \cup {NoProfile}]
          /\ wanted' \in [Customers -> Profiles \cup {NoProfile}]
          /\ served' \in [Customers -> SUBSET (Profiles \cup {NoProfile})]
      BY <1>2, <2>1, <2>2, <3>1, <3>2
    <3>4. given' \in [Customers -> [role : SUBSET Roles, limit : SUBSET Limits]]
      <4>1. PICK g \in [role : SUBSET Roles, limit : SUBSET Limits] :
              g = [role |-> {role}, limit |-> {limit}]
        OBVIOUS
      <4>2. given' = [given EXCEPT ![c] = g] BY <2>1, <2>7, <4>1
      <4>3. QED BY <1>2, <4>2
    <3>5. PatchedExist'
      <4>1. \A b \in Customers : profiles[b] \in Profiles => profiles'[b] \in Profiles
        BY <1>2, <2>2, <3>1
      <4>2. \A b \in Customers : profiles'[b] \in Profiles <=> wanted'[b] \in Profiles
        BY <1>2, <2>2, <3>1 DEF PatchedExist
      <4>3. \A r \in Requests : pc'[r] = "put" => profiles'[job'[r].customer] \in Profiles
        BY <1>2, <2>5, <4>1 DEF PatchedExist, JobsFit, JobsOf, Patch, QuestionSteps
      <4>4. \A b \in Customers : \A r \in served'[b] : r # NoProfile => profiles'[b] \in Profiles
        BY <1>2, <2>1, <2>2, <3>2, <4>1 DEF PatchedExist
      <4>5. QED BY <4>2, <4>3, <4>4 DEF PatchedExist
    <3>6. Kept BY <1>2, <2>3, <3>3, <3>4, <3>5
    <3>7. QED BY <1>1, <1>c, <2>3, <2>5, <3>6
  <2>8. QED BY <2>6, <2>7
<1>10. ASSUME NEW q \in Requests, BeginPatch(q) PROVE TypeInv'
  <2>0. PICK c \in Customers : \E copy \in served[c] : Patches(q, c, copy)
    BY <1>10 DEF BeginPatch, Patches
  <2>1. PICK copy \in served[c] : Patches(q, c, copy) BY <2>0
  <2>2. UNCHANGED <<profiles, served, wanted, given, meter, today>> BY <1>10 DEF BeginPatch
  <2>3. CASE copy = NoProfile
    <3>1. Leave(q) /\ UNCHANGED admin BY <2>1, <2>2, <2>3 DEF admin, Patches
    <3>2. /\ Working
          /\ \A r \in Requests : pc'[r] = "put" => pc[r] = "put" /\ job'[r] = job[r]
      BY <1>2, <3>1, LeaveTyped
    <3>3. Kept BY <1>k, <3>1, <3>2
    <3>4. QED BY <1>1, <1>c, <2>2, <3>2, <3>3
  <2>4. CASE copy # NoProfile
    <3>1. PICK role \in Roles \cup {NoChange}, limit \in Limits \cup {KeepLimit} :
            /\ job' = [job EXCEPT ![q] =
                 [customer |-> c, copy |-> copy, change |-> [role |-> role, limit |-> limit]]]
            /\ Goto(q, "put")
            /\ raced' = IF Patching(c) = {} /\ copy = profiles[c] THEN raced ELSE raced \cup {c}
      BY <2>1, <2>4 DEF Patches
    <3> DEFINE j == [customer |-> c, copy |-> copy, change |-> [role |-> role, limit |-> limit]]
    <3>2. copy \in Profiles /\ profiles[c] \in Profiles BY <1>2, <2>4 DEF PatchedExist
    <3>3. j \in JobsOf("put") /\ "put" \in Steps /\ j.customer = c
      BY <3>2 DEF JobsOf, QuestionSteps, Steps, Patch, Changes
    <3>4. job' = [job EXCEPT ![q] = j] /\ pc' = [pc EXCEPT ![q] = "put"] BY <3>1 DEF Goto
    <3> HIDE DEF j
    <3>5. Working BY <1>2, <3>3, <3>4, MoveTyped
    <3>6. PatchedExist' BY <1>2, <2>2, <3>2, <3>3, <3>4, MoveTyped DEF PatchedExist
    <3>7. raced' \subseteq Customers BY <1>2, <3>1
    <3>8. Kept BY <1>2, <2>2, <3>6, <3>7
    <3>9. QED BY <1>1, <1>c, <2>2, <3>5, <3>8
  <2>5. QED BY <2>3, <2>4
<1>11. ASSUME NEW q \in Requests, PutPatch(q) PROVE TypeInv'
  <2>1. job[q] \in Patch /\ pc[q] = "put" /\ profiles[job[q].customer] \in Profiles
    BY <1>2, <1>11 DEF PutPatch, JobsFit, JobsOf, QuestionSteps, PatchedExist
  <2>2. PICK c \in Customers : c = job[q].customer BY <2>1 DEF Patch
  <2>3. PICK change \in Changes : change = job[q].change BY <2>1 DEF Patch
  <2>4. PICK new \in Profiles : new = Patched(job[q].copy, change)
    BY <2>1, <2>3, PatchedFits DEF Patch
  <2>5. PICK w \in Profiles : w = Patched(wanted[c], change)
    BY <1>2, <2>1, <2>2, PatchedFits DEF PatchedExist
  <2>6. /\ profiles' = [profiles EXCEPT ![c] = new]
        /\ served' = [served EXCEPT ![c] = @ \cup {new}]
        /\ wanted' = [wanted EXCEPT ![c] = w]
        /\ Leave(q) /\ UNCHANGED <<raced, meter, today>>
    BY <1>2, <1>11, <2>2, <2>3, <2>4, <2>5 DEF PutPatch, Patched
  <2>7. given' \in [Customers -> [role : SUBSET Roles, limit : SUBSET Limits]]
    <3>1. given' = [given EXCEPT ![c] =
             [role  |-> @.role \cup ({change.role} \ {NoChange}),
              limit |-> @.limit \cup ({change.limit} \ {KeepLimit})]]
      BY <1>11, <2>2, <2>3 DEF PutPatch
    <3>2. /\ {change.role} \ {NoChange} \subseteq Roles
          /\ {change.limit} \ {KeepLimit} \subseteq Limits
      BY DEF Changes
    <3>3. QED BY <1>2, <3>1, <3>2
  <2>8. /\ Working
        /\ \A p \in Requests : pc'[p] = "put" => pc[p] = "put" /\ job'[p] = job[p]
    BY <1>2, <2>6, LeaveTyped
  <2>9. PatchedExist'
    <3>1. \A b \in Customers : profiles'[b] \in Profiles <=> wanted'[b] \in Profiles
      BY <1>2, <2>6 DEF PatchedExist
    <3>2. \A b \in Customers : profiles[b] \in Profiles => profiles'[b] \in Profiles
      BY <1>2, <2>6
    <3>3. \A p \in Requests : pc'[p] = "put" => profiles'[job'[p].customer] \in Profiles
      BY <1>2, <2>8, <3>2 DEF PatchedExist, JobsFit, JobsOf, Patch, QuestionSteps
    <3>4. \A b \in Customers : \A r \in served'[b] : r # NoProfile => profiles'[b] \in Profiles
      BY <1>2, <2>6, <3>2 DEF PatchedExist
    <3>5. QED BY <3>1, <3>3, <3>4 DEF PatchedExist
  <2>10. Kept BY <1>2, <2>6, <2>7, <2>9
  <2>11. QED BY <1>1, <1>c, <2>6, <2>8, <2>10
<1>12. CASE UNCHANGED vars
  <2>1. Working /\ UNCHANGED admin /\ UNCHANGED <<meter, today>>
        /\ \A p \in Requests : pc'[p] = "put" => pc[p] = "put" /\ job'[p] = job[p]
    BY <1>2, <1>12 DEF vars
  <2>2. QED BY <1>1, <1>k, <1>c, <2>1
<1>13. QED
  BY <1>3, <1>4, <1>5, <1>u, <1>6, <1>7, <1>8, <1>v, <1>9, <1>10, <1>11, <1>12 DEF Next

(* Every reachable state is typed (Accounts): no counter passes the        *)
(* highest limit and no profile is half written.                           *)
THEOREM AccountsTyped == Spec => []TypeOK
<1>1. TypeInv => TypeOK BY DEF TypeInv
<1>2. QED BY InitTyped, NextTyped, <1>1, PTL DEF Spec

LEMMA AlwaysTyped == Spec => []TypeInv
  BY InitTyped, NextTyped, PTL DEF Spec

-----------------------------------------------------------------------------
(* Slots.                                                                  *)

LEMMA InitSlots == Init => SlotInv
<1> SUFFICES ASSUME Init, NEW c \in Customers, NEW d \in Days
    PROVE  Asked(c, d) = {} /\ usage[c][d] = 0 /\ unheard[c][d] = {}
  BY DEF SlotInv, Counted, Slots
<1>1. QED BY DEF Init, Asked

(* A step that counts no question leaves the slots as they are.            *)
LEMMA OthersKeepSlots ==
  ASSUME TypeInv, SlotInv, UNCHANGED meter, today' \in Days, today <= today',
         \A q \in Requests : (pc'[q] = "asked" \/ pc[q] = "asked") =>
           pc'[q] = pc[q] /\ job'[q] = job[q],
         \A q \in Requests : pc'[q] = "consume" =>
           \/ pc[q] = "consume" /\ job'[q] = job[q]
           \/ job'[q].day = today
  PROVE  SlotInv'
<1> SUFFICES ASSUME NEW c \in Customers, NEW d \in Days
    PROVE  /\ \A p, q \in Asked(c, d)' : job'[p].slot = job'[q].slot => p = q
           /\ \A q \in Asked(c, d)' : job'[q].slot \in 1 .. job'[q].limit
           /\ Slots(c, d)' \cap unheard'[c][d] = {}
           /\ Counted(c, d)' \/ Deleted(c, d)'
  BY DEF SlotInv
<1>1. /\ Asked(c, d)' = Asked(c, d) /\ \A q \in Asked(c, d) : job'[q] = job[q]
      /\ UNCHANGED <<usage, unheard>>
  BY DEF Asked, meter
<1>2. Slots(c, d)' = Slots(c, d) BY <1>1 DEF Slots
<1>3. Counted(c, d) => Counted(c, d)' BY <1>1, <1>2 DEF Counted
<1>4. Deleted(c, d) => Deleted(c, d)'
  <2>1. d \in Int /\ today \in Int /\ today' \in Int /\ Retention \in Nat \ {0}
    BY AccountConstants DEF TypeInv, TypeOK, Days
  <2>2. QED BY <1>1, <2>1 DEF Deleted
<1>5. QED BY <1>1, <1>2, <1>3, <1>4 DEF SlotInv

(* Of the other counters a count changes nothing.                          *)
LEMMA CountsOfOthers ==
  ASSUME TypeInv, SlotInv, NEW q \in Requests, pc[q] = "consume", UNCHANGED today,
         pc'[q] = "asked" => job'[q].customer = job[q].customer /\ job'[q].day = job[q].day,
         pc'[q] = "consume" => job'[q] = job[q],
         \A p \in Requests \ {q} : pc'[p] = pc[p] /\ job'[p] = job[p],
         NEW c \in Customers, NEW d \in Days, ~(c = job[q].customer /\ d = job[q].day),
         usage'[c][d] = usage[c][d], unheard'[c][d] = unheard[c][d]
  PROVE  /\ \A p, r \in Asked(c, d)' : job'[p].slot = job'[r].slot => p = r
         /\ \A p \in Asked(c, d)' : job'[p].slot \in 1 .. job'[p].limit
         /\ Slots(c, d)' \cap unheard'[c][d] = {}
         /\ Counted(c, d)' \/ Deleted(c, d)'
<1>1. Asked(c, d)' = Asked(c, d) /\ \A p \in Asked(c, d) : job'[p] = job[p] BY DEF Asked
<1>2. Slots(c, d)' = Slots(c, d) BY <1>1 DEF Slots
<1>3. Counted(c, d) => Counted(c, d)' BY <1>2 DEF Counted
<1>4. Deleted(c, d) => Deleted(c, d)' BY DEF Deleted
<1>5. QED BY <1>1, <1>2, <1>3, <1>4 DEF SlotInv

(* The counter that is counted on is kept, and counts its slots.           *)
LEMMA Counting ==
  ASSUME TypeInv, SlotInv, NEW q \in Requests, pc[q] = "consume"
  PROVE  /\ job[q] \in Question /\ job[q].customer \in Customers /\ job[q].day \in Days
         /\ job[q].limit \in Nat /\ Count(job[q]) \in Nat
         /\ Counted(job[q].customer, job[q].day)
<1>1. job[q] \in Question /\ job[q].day \in Days BY DEF TypeInv, TypeOK, QuestionSteps
<1>2. PICK c \in Customers : c = job[q].customer BY <1>1 DEF Question
<1>3. PICK d \in Days : d = job[q].day BY <1>1
<1>4. ~Deleted(c, d) BY <1>3 DEF Deleted
<1>5. Counted(c, d) BY <1>4 DEF SlotInv
<1>6. usage[c][d] \in Nat /\ job[q].limit \in Nat
  BY <1>1, AccountConstants DEF TypeInv, TypeOK, Question
<1>7. QED BY <1>1, <1>2, <1>3, <1>5, <1>6 DEF Count

(* The question that is counted takes the slot after the last.             *)
LEMMA ConsumeTakesNext ==
  ASSUME TypeInv, SlotInv, NEW q \in Requests, Consume(q)
  PROVE  SlotInv'
<1>1. pc[q] = "consume" /\ UNCHANGED <<unheard, today>> BY DEF Consume
<1>2. PICK j \in Question : j = job[q] BY <1>1, Counting
<1>3. PICK n \in Nat : n = Count(j) BY <1>1, <1>2, Counting
<1>4. /\ j.customer \in Customers /\ j.day \in Days /\ j.limit \in Nat /\ today \in Int
      /\ usage \in [Customers -> [Days -> 0 .. MaxLimit]]
  BY <1>1, <1>2, Counting DEF TypeInv, TypeOK, Days
<1>5. CASE ~Free(n, j.limit)
  <2>1. Leave(q) /\ UNCHANGED <<usage, today>> BY <1>2, <1>3, <1>5 DEF Consume
  <2>2. QED BY <1>1, <1>4, <2>1, LeaveTyped, OthersKeepSlots DEF TypeInv, TypeOK, meter
<1>6. CASE Free(n, j.limit)
  <2> DEFINE k == [j EXCEPT !.slot = n + 1]
  <2>1. /\ usage' = [usage EXCEPT ![j.customer][j.day] = n + 1]
        /\ job' = [job EXCEPT ![q] = k] /\ pc' = [pc EXCEPT ![q] = "asked"]
    BY <1>2, <1>3, <1>4, <1>6 DEF Consume, Goto, Count, CountOne
  <2>2. k.slot = n + 1 /\ k.customer = j.customer /\ k.day = j.day /\ k.limit = j.limit
    BY DEF Question
  <2>3. /\ pc'[q] = "asked" /\ job'[q] = k
        /\ \A p \in Requests \ {q} : pc'[p] = pc[p] /\ job'[p] = job[p]
    BY <2>1 DEF TypeInv, TypeOK
  <2> HIDE DEF k
  <2> SUFFICES ASSUME NEW c \in Customers, NEW d \in Days
      PROVE  /\ \A p, r \in Asked(c, d)' : job'[p].slot = job'[r].slot => p = r
             /\ \A p \in Asked(c, d)' : job'[p].slot \in 1 .. job'[p].limit
             /\ Slots(c, d)' \cap unheard'[c][d] = {}
             /\ Counted(c, d)' \/ Deleted(c, d)'
    BY DEF SlotInv
  <2>4. CASE c = j.customer /\ d = j.day
    <3>1. Asked(c, d)' = Asked(c, d) \cup {q} /\ q \notin Asked(c, d)
      BY <1>1, <2>2, <2>3, <2>4 DEF Asked
    <3>2. Slots(c, d) \cup unheard[c][d] = 1 .. n
      BY <1>1, <1>2, <1>3, <2>4, Counting DEF Counted, Count
    <3>3. \A p \in Asked(c, d) : job'[p] = job[p] /\ job[p].slot \in 1 .. n
      BY <2>3, <3>1, <3>2 DEF Asked, Slots
    <3>4. n + 1 \notin 1 .. n BY SMT
    <3>5. \A p, r \in Asked(c, d)' : job'[p].slot = job'[r].slot => p = r
      BY <2>2, <2>3, <3>1, <3>3, <3>4 DEF SlotInv
    <3>6. k.slot \in 1 .. k.limit BY <1>4, <1>6, <2>2 DEF Free
    <3>7. \A p \in Asked(c, d)' : job'[p].slot \in 1 .. job'[p].limit
      BY <2>3, <3>1, <3>3, <3>6 DEF SlotInv
    <3>8. Slots(c, d)' = Slots(c, d) \cup {n + 1} BY <2>2, <2>3, <3>1, <3>3 DEF Slots
    <3>9. usage'[c][d] = n + 1 BY <1>4, <2>1, <2>4
    <3>10. 1 .. (n + 1) = (1 .. n) \cup {n + 1} BY SMT
    <3>11. Counted(c, d)' BY <1>1, <3>2, <3>8, <3>9, <3>10 DEF Counted
    <3>12. Slots(c, d)' \cap unheard'[c][d] = {} BY <1>1, <3>2, <3>4, <3>8 DEF SlotInv
    <3>13. QED BY <3>5, <3>7, <3>11, <3>12
  <2>5. CASE ~(c = j.customer /\ d = j.day)
    <3>1. usage'[c][d] = usage[c][d] BY <1>4, <2>1, <2>5
    <3>2. QED BY <1>1, <1>2, <2>2, <2>3, <2>5, <3>1, CountsOfOthers
  <2>6. QED BY <2>4, <2>5
<1>7. QED BY <1>5, <1>6

(* The update whose answer is lost takes the slot after the last too.      *)
LEMMA UnheardTakesNext ==
  ASSUME TypeInv, SlotInv, NEW q \in Requests, ConsumeUnheard(q)
  PROVE  SlotInv'
<1>1. pc[q] = "consume" /\ UNCHANGED today BY DEF ConsumeUnheard
<1>2. PICK j \in Question : j = job[q] BY <1>1, Counting
<1>3. PICK n \in Nat : n = Count(j) BY <1>1, <1>2, Counting
<1>4. /\ j.customer \in Customers /\ j.day \in Days
      /\ usage \in [Customers -> [Days -> 0 .. MaxLimit]]
      /\ unheard \in [Customers -> [Days -> SUBSET (1 .. MaxLimit)]]
  BY <1>1, <1>2, Counting DEF TypeInv, TypeOK
<1>5. /\ usage' = [usage EXCEPT ![j.customer][j.day] = n + 1]
      /\ unheard' = [unheard EXCEPT ![j.customer][j.day] = @ \cup {n + 1}]
  BY <1>2, <1>3, <1>4 DEF ConsumeUnheard, Count, CountOne
<1>6. /\ pc'[q] \in {"done", "consume"} /\ (pc'[q] = "consume" => job'[q] = job[q])
      /\ \A p \in Requests \ {q} : pc'[p] = pc[p] /\ job'[p] = job[p]
  BY <1>1, LeaveTyped DEF ConsumeUnheard
<1> SUFFICES ASSUME NEW c \in Customers, NEW d \in Days
    PROVE  /\ \A p, r \in Asked(c, d)' : job'[p].slot = job'[r].slot => p = r
           /\ \A p \in Asked(c, d)' : job'[p].slot \in 1 .. job'[p].limit
           /\ Slots(c, d)' \cap unheard'[c][d] = {}
           /\ Counted(c, d)' \/ Deleted(c, d)'
  BY DEF SlotInv
<1>7. CASE c = j.customer /\ d = j.day
  <2>1. Asked(c, d)' = Asked(c, d) /\ \A p \in Asked(c, d) : job'[p] = job[p]
    BY <1>1, <1>6 DEF Asked
  <2>2. Slots(c, d)' = Slots(c, d) BY <2>1 DEF Slots
  <2>3. Slots(c, d) \cup unheard[c][d] = 1 .. n
    BY <1>1, <1>2, <1>3, <1>7, Counting DEF Counted, Count
  <2>4. usage'[c][d] = n + 1 /\ unheard'[c][d] = unheard[c][d] \cup {n + 1}
    BY <1>4, <1>5, <1>7
  <2>5. n + 1 \notin 1 .. n /\ 1 .. (n + 1) = (1 .. n) \cup {n + 1} BY SMT
  <2>6. Counted(c, d)' BY <2>2, <2>3, <2>4, <2>5 DEF Counted
  <2>7. Slots(c, d)' \cap unheard'[c][d] = {} BY <2>2, <2>3, <2>4, <2>5 DEF SlotInv
  <2>8. QED BY <2>1, <2>6, <2>7 DEF SlotInv
<1>8. CASE ~(c = j.customer /\ d = j.day)
  <2>1. usage'[c][d] = usage[c][d] /\ unheard'[c][d] = unheard[c][d] BY <1>4, <1>5, <1>8
  <2>2. QED BY <1>1, <1>2, <1>6, <1>8, <2>1, CountsOfOthers
<1>9. QED BY <1>7, <1>8

LEMMA NextKeepsSlots == TypeInv /\ SlotInv /\ [Next]_vars => SlotInv'
<1> SUFFICES ASSUME TypeInv, SlotInv, [Next]_vars PROVE SlotInv'
  OBVIOUS
<1>1. TypeInv' /\ today' \in Days /\ today \in Int
  <2>1. TypeInv' BY NextTyped
  <2>2. today' \in Days BY <2>1 DEF TypeInv, TypeOK
  <2>3. QED BY <2>1, <2>2 DEF TypeInv, TypeOK, Days
<1>2. ASSUME NEW q \in Requests,
             \/ Stop(q) \/ BeginQuestion(q) \/ ReadDay(q) \/ Create(q) \/ BeginPatch(q) \/ PutPatch(q)
      PROVE  SlotInv'
  <2>1. UNCHANGED <<meter, today>>
    BY <1>2 DEF Stop, BeginQuestion, ReadDay, Create, BeginPatch, PutPatch
  <2>2. pc[q] \in {"idle", "limit", "consume", "put"}
    BY <1>2 DEF Stop, InFlight, BeginQuestion, ReadDay, Create, BeginPatch, PutPatch, MayBegin
  <2>3. pc'[q] # "asked" /\ \A p \in Requests \ {q} : pc'[p] = pc[p] /\ job'[p] = job[p]
    BY <1>2 DEF Stop, BeginQuestion, ReadDay, Create, BeginPatch, PutPatch, Leave, Goto, TypeInv, TypeOK
  <2>4. pc'[q] = "consume" => job'[q].day = today
    <3>1. SUFFICES ASSUME pc'[q] = "consume" PROVE job'[q].day = today
      OBVIOUS
    <3>2. ReadDay(q)
      BY <1>2, <3>1 DEF Stop, BeginQuestion, Create, BeginPatch, PutPatch, Leave, Goto, TypeInv, TypeOK
    <3>3. job[q] \in Question BY <3>2 DEF ReadDay, TypeInv, TypeOK, QuestionSteps
    <3>4. job' = [job EXCEPT ![q].day = today]
      BY <3>1, <3>2 DEF ReadDay, Leave, Goto, TypeInv, TypeOK
    <3>5. QED BY <3>3, <3>4 DEF TypeInv, Question
  <2>5. QED BY <1>1, <2>1, <2>2, <2>3, <2>4, OthersKeepSlots
<1>3. ASSUME NextDay \/ \E c \in Customers : CatchUp(c) PROVE SlotInv'
  BY <1>1, <1>3, OthersKeepSlots DEF NextDay, CatchUp
<1>4. ASSUME NEW c \in Customers, NEW d \in Days, Expire(c, d) PROVE SlotInv'
  <2>1. /\ usage' = [usage EXCEPT ![c][d] = 0] /\ UNCHANGED <<unheard, pc, job, today>>
        /\ d + Retention <= today /\ \A q \in InFlight : pc[q] = "consume" => job[q].day # d
    BY <1>4 DEF Expire
  <2>2. \A b \in Customers, e \in Days :
          usage'[b][e] = IF b = c /\ e = d THEN 0 ELSE usage[b][e]
    BY <2>1 DEF TypeInv, TypeOK
  <2>3. Deleted(c, d)' BY <2>1, <2>2 DEF Deleted, InFlight
  <2>4. \A b \in Customers, e \in Days : Asked(b, e)' = Asked(b, e) /\ Slots(b, e)' = Slots(b, e)
    BY <2>1 DEF Asked, Slots
  <2>5. \A b \in Customers, e \in Days : ~(b = c /\ e = d) =>
          (Counted(b, e) => Counted(b, e)') /\ (Deleted(b, e) => Deleted(b, e)')
    BY <2>1, <2>2, <2>4 DEF Counted, Deleted
  <2>6. QED BY <2>1, <2>3, <2>4, <2>5 DEF SlotInv
<1>5. CASE UNCHANGED vars BY <1>1, <1>5, OthersKeepSlots DEF vars
<1>6. QED BY <1>2, <1>3, <1>4, <1>5, ConsumeTakesNext, UnheardTakesNext DEF Next

(* No two questions of a day take one slot, none beyond the limit its      *)
(* request read, and the counter counts just those and the updates whose   *)
(* answer was lost (SlotsAreTakenOnce).                                    *)
THEOREM SlotsAlwaysTakenOnce == Spec => []SlotsAreTakenOnce
<1>1. TypeInv /\ SlotInv => SlotsAreTakenOnce
  <2> SUFFICES ASSUME TypeInv, SlotInv, NEW c \in Customers, NEW d \in Days, today < d + Retention
      PROVE  Counted(c, d)
    BY DEF SlotsAreTakenOnce, SlotInv, Counted, Slots
  <2>1. ~(d + Retention <= today) BY AccountConstants DEF TypeInv, TypeOK, Days
  <2>2. QED BY <2>1 DEF SlotInv, Deleted
<1>2. QED BY InitSlots, NextKeepsSlots, AlwaysTyped, <1>1, PTL DEF Spec

-----------------------------------------------------------------------------
(* Patches.                                                                *)

LEMMA InitPatches == Init => PatchInv /\ GivenInv
<1> SUFFICES ASSUME Init PROVE PatchInv /\ GivenInv
  OBVIOUS
<1>1. \A q \in Requests : pc[q] = "idle" BY DEF Init
<1>2. \A c \in Customers : served[c] = {profiles[c]} /\ wanted[c] = profiles[c] BY DEF Init
<1>3. PatchInv BY <1>1, <1>2 DEF PatchInv, Patching
<1>4. \A c \in Customers : profiles[c] # NoProfile => From(profiles[c], given[c])
  <2>1. profiles \in [Customers -> Profiles \cup {NoProfile}] BY InitTyped DEF TypeInv, TypeOK
  <2>2. \A c \in Customers : /\ given[c].role = {profiles[c].role} \cap Roles
                             /\ given[c].limit = {profiles[c].limit}
    BY DEF Init
  <2>3. QED BY <2>1, <2>2, ProfileFacts DEF From
<1>5. GivenInv BY <1>1, <1>2, <1>4 DEF GivenInv
<1>6. QED BY <1>3, <1>5

LEMMA NextKeepsPatches == TypeInv /\ PatchInv /\ [Next]_vars => PatchInv'
<1> SUFFICES ASSUME TypeInv, PatchInv, [Next]_vars PROVE PatchInv'
  OBVIOUS
<1>1. ASSUME UNCHANGED <<profiles, wanted, raced>>,
             \A p \in Requests : pc'[p] = "put" => pc[p] = "put" /\ job'[p] = job[p]
      PROVE  PatchInv'
  BY <1>1 DEF PatchInv, Patching
<1>2. ASSUME NEW q \in Requests,
             Stop(q) \/ BeginQuestion(q) \/ ReadDay(q) \/ Consume(q) \/ ConsumeUnheard(q)
      PROVE  PatchInv'
  <2>1. UNCHANGED <<profiles, wanted, raced>>
    BY <1>2 DEF Stop, BeginQuestion, ReadDay, Consume, ConsumeUnheard, admin
  <2>2. pc'[q] # "put" /\ \A p \in Requests \ {q} : pc'[p] = pc[p] /\ job'[p] = job[p]
    BY <1>2 DEF Stop, BeginQuestion, ReadDay, Consume, ConsumeUnheard, Leave, Goto, TypeInv, TypeOK
  <2>3. QED BY <1>1, <2>1, <2>2
<1>3. ASSUME NEW q \in Requests, Create(q) PROVE PatchInv'
  <2>1. /\ pc' = [pc EXCEPT ![q] = "done"] /\ UNCHANGED <<job, raced>>
        /\ \A b \in Customers : Exists(b) => wanted'[b] = wanted[b] /\ profiles'[b] = profiles[b]
        /\ \A b \in Customers : \/ wanted'[b] = wanted[b] /\ profiles'[b] = profiles[b]
                                \/ wanted'[b] = profiles'[b]
    BY <1>3 DEF Create, Goto, Inserted, TypeInv, TypeOK
  <2>2. \A p \in Requests : pc'[p] = "put" => pc[p] = "put" /\ job'[p] = job[p]
    BY <2>1 DEF TypeInv, TypeOK
  <2>3. \A p \in Requests : pc[p] = "put" => Exists(job[p].customer)
    BY ProfileFacts DEF TypeInv, PatchedExist, Exists
  <2>4. \A b \in Customers \ raced : profiles'[b] = wanted'[b] BY <2>1 DEF PatchInv
  <2>5. \A b \in Customers : Patching(b)' \subseteq Patching(b) BY <2>2 DEF Patching
  <2>6. \A b \in Customers \ raced : \A p \in Patching(b)' : job'[p].copy = profiles'[b]
    BY <2>1, <2>3, <2>5 DEF PatchInv, Patching
  <2>7. QED BY <2>1, <2>4, <2>5, <2>6 DEF PatchInv
<1>4. ASSUME NEW q \in Requests, BeginPatch(q) PROVE PatchInv'
  <2>1. PICK c \in Customers : \E copy \in served[c] : Patches(q, c, copy)
    BY <1>4 DEF BeginPatch, Patches
  <2>2. PICK copy : Patches(q, c, copy) BY <2>1
  <2>3. UNCHANGED <<profiles, wanted>> /\ pc[q] = "idle" BY <1>4 DEF BeginPatch, MayBegin
  <2>4. CASE copy = NoProfile
    <3>1. Leave(q) /\ UNCHANGED raced BY <2>2, <2>4 DEF Patches
    <3>2. \A p \in Requests : pc'[p] = "put" => pc[p] = "put" /\ job'[p] = job[p]
      BY <3>1, LeaveTyped
    <3>3. QED BY <1>1, <2>3, <3>1, <3>2
  <2>5. CASE copy # NoProfile
    <3>1. /\ pc'[q] = "put" /\ job'[q].customer = c /\ job'[q].copy = copy
          /\ \A p \in Requests \ {q} : pc'[p] = pc[p] /\ job'[p] = job[p]
          /\ raced' = IF Patching(c) = {} /\ copy = profiles[c] THEN raced ELSE raced \cup {c}
      BY <2>2, <2>5 DEF Patches, Goto, TypeInv, TypeOK
    <3>2. \A b \in Customers : Patching(b)' = IF b = c THEN Patching(b) \cup {q} ELSE Patching(b)
      BY <2>3, <3>1 DEF Patching
    <3>3. \A b \in Customers : \A p \in Patching(b) : job'[p] = job[p]
      BY <2>3, <3>1 DEF Patching
    <3>4. c \notin raced' => Patching(c) = {} /\ copy = profiles[c] BY <3>1
    <3>5. QED BY <2>3, <3>1, <3>2, <3>3, <3>4 DEF PatchInv
  <2>6. QED BY <2>4, <2>5
<1>5. ASSUME NEW q \in Requests, PutPatch(q) PROVE PatchInv'
  <2>0. job[q] \in Patch /\ pc[q] = "put" BY <1>5 DEF PutPatch, TypeInv, TypeOK, QuestionSteps
  <2>1. PICK c \in Customers : c = job[q].customer BY <2>0 DEF Patch
  <2>2. /\ profiles' = [profiles EXCEPT ![c] = Patched(job[q].copy, job[q].change)]
        /\ wanted' = [wanted EXCEPT ![c] = Patched(wanted[c], job[q].change)]
        /\ Leave(q) /\ UNCHANGED raced
    BY <1>5, <2>0, <2>1 DEF PutPatch, Patched, TypeInv, TypeOK
  <2>3. \A b \in Customers \ {c} : profiles'[b] = profiles[b] /\ wanted'[b] = wanted[b]
    BY <2>2 DEF TypeInv, TypeOK
  <2>4. c \notin raced => profiles'[c] = wanted'[c]
    BY <2>0, <2>1, <2>2 DEF TypeInv, TypeOK, PatchInv, Patching
  <2>5. \A p \in Requests : pc'[p] = "put" => p # q /\ pc[p] = "put" /\ job'[p] = job[p]
    BY <2>2, LeaveTyped
  <2>6. \A b \in Customers : Patching(b)' \subseteq Patching(b) \ {q} BY <2>5 DEF Patching
  <2>7. c \notin raced => Patching(c)' = {} BY <2>0, <2>1, <2>6 DEF PatchInv, Patching
  <2>8. QED BY <2>2, <2>3, <2>4, <2>5, <2>6, <2>7 DEF PatchInv, Patching
<1>6. ASSUME \/ NextDay \/ UNCHANGED vars
             \/ \E c \in Customers : CatchUp(c) \/ \E d \in Days : Expire(c, d)
      PROVE  PatchInv'
  BY <1>1, <1>6 DEF NextDay, CatchUp, Expire, vars, admin
<1>7. QED BY <1>2, <1>3, <1>4, <1>5, <1>6 DEF Next

(* A patch takes what it does not name from an item that was served, whose *)
(* values somebody gave.                                                   *)
LEMMA NextKeepsGiven == TypeInv /\ GivenInv /\ [Next]_vars => GivenInv'
<1> SUFFICES ASSUME TypeInv, GivenInv, [Next]_vars PROVE GivenInv'
  OBVIOUS
<1>1. ASSUME UNCHANGED <<profiles, given>>, \A c \in Customers : served'[c] \subseteq served[c] \cup {profiles[c]},
             \A p \in Requests : pc'[p] = "put" => pc[p] = "put" /\ job'[p] = job[p]
      PROVE  GivenInv'
  BY <1>1 DEF GivenInv
<1>2. ASSUME NEW q \in Requests,
             Stop(q) \/ BeginQuestion(q) \/ ReadDay(q) \/ Consume(q) \/ ConsumeUnheard(q)
      PROVE  GivenInv'
  <2>1. UNCHANGED <<profiles, given, served>>
    BY <1>2 DEF Stop, BeginQuestion, ReadDay, Consume, ConsumeUnheard, admin
  <2>2. pc'[q] # "put" /\ \A p \in Requests \ {q} : pc'[p] = pc[p] /\ job'[p] = job[p]
    BY <1>2 DEF Stop, BeginQuestion, ReadDay, Consume, ConsumeUnheard, Leave, Goto, TypeInv, TypeOK
  <2>3. QED BY <1>1, <2>1, <2>2
<1>3. ASSUME NEW q \in Requests, Create(q) PROVE GivenInv'
  <2>1. PICK c \in Customers, role \in Roles, limit \in Limits :
          /\ profiles' = Inserted(c, [role |-> role, limit |-> limit])
          /\ served' = [served EXCEPT ![c] = @ \cup {profiles'[c]}]
          /\ IF Exists(c) THEN UNCHANGED <<wanted, given>>
             ELSE /\ wanted' = [wanted EXCEPT ![c] = [role |-> role, limit |-> limit]]
                  /\ given' = [given EXCEPT ![c] = [role |-> {role}, limit |-> {limit}]]
    BY <1>3 DEF Create
  <2>2. \A p \in Requests : pc'[p] = "put" => pc[p] = "put" /\ job'[p] = job[p]
    BY <1>3 DEF Create, Goto, TypeInv, TypeOK
  <2>3. CASE Exists(c)
    <3>1. UNCHANGED <<profiles, given>> BY <2>1, <2>3 DEF Inserted
    <3>2. \A b \in Customers : served'[b] \subseteq served[b] \cup {profiles[b]}
      BY <2>1, <3>1 DEF TypeInv, TypeOK
    <3>3. QED BY <1>1, <2>2, <3>1, <3>2
  <2>4. CASE ~Exists(c)
    <3>1. PICK new \in Profiles : new = [role |-> role, limit |-> limit] BY DEF Profiles
    <3>2. PICK g : g = [role |-> {role}, limit |-> {limit}] OBVIOUS
    <3>3. From(new, g) BY <3>1, <3>2 DEF From
    <3>4. /\ profiles' = [profiles EXCEPT ![c] = new] /\ given' = [given EXCEPT ![c] = g]
          /\ profiles'[c] = new /\ given'[c] = g
          /\ \A b \in Customers \ {c} : profiles'[b] = profiles[b] /\ given'[b] = given[b]
                                        /\ served'[b] = served[b]
      BY <2>1, <2>4, <3>1, <3>2 DEF Inserted, TypeInv, TypeOK
    <3>5. \A p \in served[c] : p = NoProfile
      BY <2>4, ProfileFacts DEF TypeInv, PatchedExist, Exists
    <3>6. \A p \in served'[c] : p \in {NoProfile, new} BY <2>1, <3>4, <3>5 DEF TypeInv, TypeOK
    <3>7. \A p \in Requests : pc'[p] = "put" => /\ pc[p] = "put" /\ job'[p] = job[p]
                                              /\ job[p].customer \in Customers \ {c}
      BY <2>2, <2>4, ProfileFacts DEF TypeInv, TypeOK, PatchedExist, Exists, Patch, QuestionSteps
    <3>8. QED BY <3>3, <3>4, <3>6, <3>7 DEF GivenInv
  <2>5. QED BY <2>3, <2>4
<1>4. ASSUME NEW q \in Requests, BeginPatch(q) PROVE GivenInv'
  <2>1. PICK c \in Customers : \E copy \in served[c] : Patches(q, c, copy)
    BY <1>4 DEF BeginPatch, Patches
  <2>2. PICK copy \in served[c] : Patches(q, c, copy) BY <2>1
  <2>3. UNCHANGED <<profiles, given, served>> BY <1>4 DEF BeginPatch
  <2>4. CASE copy = NoProfile
    <3>1. Leave(q) BY <2>2, <2>4 DEF Patches
    <3>2. \A p \in Requests : pc'[p] = "put" => pc[p] = "put" /\ job'[p] = job[p]
      BY <3>1, LeaveTyped
    <3>3. QED BY <1>1, <2>3, <3>2
  <2>5. CASE copy # NoProfile
    <3>1. /\ job'[q].customer = c /\ job'[q].copy = copy
          /\ \A p \in Requests \ {q} : pc'[p] = pc[p] /\ job'[p] = job[p]
      BY <2>2, <2>5 DEF Patches, Goto, TypeInv, TypeOK
    <3>2. From(copy, given[c]) BY <2>5 DEF GivenInv
    <3>3. QED BY <2>3, <3>1, <3>2 DEF GivenInv
  <2>6. QED BY <2>4, <2>5
<1>5. ASSUME NEW q \in Requests, PutPatch(q) PROVE GivenInv'
  <2>1. job[q] \in Patch /\ pc[q] = "put" BY <1>5 DEF PutPatch, TypeInv, TypeOK, QuestionSteps
  <2>2. PICK c \in Customers : c = job[q].customer BY <2>1 DEF Patch
  <2>3. PICK change \in Changes : change = job[q].change BY <2>1 DEF Patch
  <2>4. PICK copy \in Profiles : copy = job[q].copy BY <2>1 DEF Patch
  <2>5. PICK new : new = Patched(copy, change) OBVIOUS
  <2>6. PICK g : g = [role  |-> given[c].role \cup ({change.role} \ {NoChange}),
                      limit |-> given[c].limit \cup ({change.limit} \ {KeepLimit})]
    OBVIOUS
  <2>7. From(copy, given[c]) BY <2>1, <2>2, <2>4 DEF GivenInv
  <2>8. From(new, g) BY <2>5, <2>6, <2>7 DEF From, Patched
  <2>9. \A p : From(p, given[c]) => From(p, g) BY <2>6 DEF From
  <2>10. /\ profiles' = [profiles EXCEPT ![c] = new] /\ served' = [served EXCEPT ![c] = @ \cup {new}]
         /\ given' = [given EXCEPT ![c] = g] /\ Leave(q)
    BY <1>5, <2>2, <2>3, <2>4, <2>5, <2>6 DEF PutPatch, TypeInv, TypeOK
  <2>11. /\ profiles'[c] = new /\ given'[c] = g /\ served'[c] = served[c] \cup {new}
         /\ \A b \in Customers \ {c} : profiles'[b] = profiles[b] /\ given'[b] = given[b]
                                       /\ served'[b] = served[b]
    BY <2>10 DEF TypeInv, TypeOK
  <2>12. \A p \in Requests : pc'[p] = "put" => /\ pc[p] = "put" /\ job'[p] = job[p]
                                             /\ job[p].customer \in Customers
    BY <2>10, LeaveTyped DEF TypeInv, TypeOK, Patch, QuestionSteps
  <2>13. \A b \in Customers : \A p \in served'[b] \cup {profiles'[b]} : p # NoProfile => From(p, given'[b])
    BY <2>8, <2>9, <2>11 DEF GivenInv
  <2>14. \A p \in Requests : pc'[p] = "put" => From(job'[p].copy, given'[job'[p].customer])
    BY <2>9, <2>11, <2>12 DEF GivenInv
  <2>15. QED BY <2>13, <2>14 DEF GivenInv
<1>6. ASSUME \/ NextDay \/ UNCHANGED vars
             \/ \E c \in Customers : CatchUp(c) \/ \E d \in Days : Expire(c, d)
      PROVE  GivenInv'
  <2>1. CASE NextDay \/ UNCHANGED vars \/ \E c \in Customers, d \in Days : Expire(c, d)
    BY <1>1, <2>1 DEF NextDay, Expire, vars, admin
  <2>2. ASSUME NEW c \in Customers, CatchUp(c) PROVE GivenInv'
    <3>1. /\ UNCHANGED <<profiles, given, pc, job>>
          /\ \A b \in Customers : served'[b] \subseteq served[b] \cup {profiles[b]}
      BY <2>2 DEF CatchUp, TypeInv, TypeOK
    <3>2. QED BY <1>1, <3>1
  <2>3. QED BY <1>6, <2>1, <2>2
<1>7. QED BY <1>2, <1>3, <1>4, <1>5, <1>6 DEF Next

(* A profile holds only values it was given, and one that no two patches   *)
(* raced for, each of the current item, has every patch applied to what    *)
(* was there, field by field (PatchesKeepTheRest).                         *)
THEOREM PatchesAlwaysKeepTheRest == Spec => []PatchesKeepTheRest
<1>1. PatchInv /\ GivenInv => PatchesKeepTheRest
  BY DEF PatchInv, GivenInv, From, PatchesKeepTheRest, Exists
<1>2. QED BY InitPatches, NextKeepsPatches, NextKeepsGiven, AlwaysTyped, <1>1, PTL DEF Spec
=============================================================================
