------------------------------- MODULE Accounts -------------------------------
(***************************************************************************)
(* Customer profiles (stores/customer_registry.py, channels/               *)
(* admin_customers.py) and the daily question limit (stores/               *)
(* usage_store.py): questions counted against the limit of a profile that  *)
(* admins change meanwhile.                                                *)
(*                                                                         *)
(* A request reads a profile, which may lag behind the last put, and works *)
(* with its copy: a question counts itself with one conditional update, an *)
(* admin's patch puts the whole copy back.  The role stands for the name,  *)
(* the applications, the notes and the password too, and the limit for the *)
(* manager's two fields: they are patched by the same rules.               *)
(***************************************************************************)
EXTENDS Integers, FiniteSets

CONSTANTS
  Customers,
  Root,         \* the admin a deployment starts with
  MaxLimit,     \* highest daily limit set
  MaxDays,
  Retention,    \* days a counter is kept (7)
  MaxRequests,
  MaxInFlight

ASSUME AccountConstants ==
  /\ Root \in Customers
  /\ MaxLimit \in Nat
  /\ {MaxDays, Retention, MaxRequests, MaxInFlight} \subseteq Nat \ {0}

Requests == 1 .. MaxRequests
Days     == 1 .. MaxDays

Unlimited == -1
KeepLimit == -2      \* the patch left the limit out, which is not the same as null
Limits    == 0 .. MaxLimit \cup {Unlimited}
Roles     == {"user", "admin"}
NoChange  == "keep"

Profiles  == [role : Roles, limit : Limits]
NoProfile == [role |-> "absent", limit |-> Unlimited]
Changes   == [role : Roles \cup {NoChange}, limit : Limits \cup {KeepLimit}]

Question == [customer : Customers, limit : 0 .. MaxLimit, day : Days \cup {0},
             slot : 0 .. MaxLimit]
Patch    == [customer : Customers, copy : Profiles, change : Changes]
NoJob    == [customer |-> "none"]

VARIABLES
  profiles,  \* the customers table
  served,    \* the items a read of each profile may still return
  usage,     \* the counter of each customer and day
  today,
  pc,        \* where each request is
  job,       \* what it works on
  wanted,    \* the profiles with every patch applied to what was there
  given,     \* the values each profile was created with or sent in a patch
  raced,     \* customers of whom two patches ran at once, or one read an older item
  unheard    \* the slots counted by an update whose answer was lost

admin == <<profiles, served, wanted, given, raced>>
meter == <<usage, unheard>>
vars  == <<admin, meter, today, pc, job>>

QuestionSteps == {"limit", "consume", "asked"}
Exists(c) == profiles[c] # NoProfile
InFlight  == {q \in Requests : pc[q] \in {"limit", "consume", "put"}}
Patching(c) == {q \in Requests : pc[q] = "put" /\ job[q].customer = c}

TypeOK ==
  /\ profiles \in [Customers -> Profiles \cup {NoProfile}]
  /\ usage \in [Customers -> [Days -> 0 .. MaxLimit]]
  /\ today \in Days
  /\ pc \in [Requests -> QuestionSteps \cup {"idle", "put", "done"}]
  /\ \A q \in Requests : job[q] \in IF pc[q] \in QuestionSteps THEN Question
                                    ELSE IF pc[q] = "put" THEN Patch ELSE {NoJob}
  /\ served \in [Customers -> SUBSET (Profiles \cup {NoProfile})]
  /\ wanted \in [Customers -> Profiles \cup {NoProfile}]
  /\ given \in [Customers -> [role : SUBSET Roles, limit : SUBSET Limits]]
  /\ raced \subseteq Customers
  /\ unheard \in [Customers -> [Days -> SUBSET (1 .. MaxLimit)]]

\* Besides the admin there may be customers, each with the highest limit.
Init ==
  /\ \E there \in SUBSET (Customers \ {Root}) :
       profiles = [c \in Customers |->
         IF c = Root THEN [role |-> "admin", limit |-> Unlimited]
         ELSE IF c \in there THEN [role |-> "user", limit |-> MaxLimit] ELSE NoProfile]
  /\ usage = [c \in Customers |-> [d \in Days |-> 0]]
  /\ today = 1
  /\ pc = [q \in Requests |-> "idle"]
  /\ job = [q \in Requests |-> NoJob]
  /\ served = [c \in Customers |-> {profiles[c]}]
  /\ wanted = profiles
  /\ given = [c \in Customers |-> [role |-> {profiles[c].role} \cap Roles,
                                  limit |-> {profiles[c].limit}]]
  /\ raced = {}
  /\ unheard = [c \in Customers |-> [d \in Days |-> {}]]

MayBegin(q) ==
  /\ pc[q] = "idle"
  /\ \A p \in Requests : p < q => pc[p] # "idle"
  /\ Cardinality(InFlight) < MaxInFlight

Goto(q, step) == pc' = [pc EXCEPT ![q] = step]
Leave(q)      == Goto(q, "done") /\ job' = [job EXCEPT ![q] = NoJob]

Stop(q) ==
  /\ q \in InFlight
  /\ Leave(q)
  /\ UNCHANGED <<admin, meter, today>>

\* get_item asks for no consistent read: older items are served until the replicas of
\* the table have caught up.
CatchUp(c) ==
  /\ served[c] # {profiles[c]}
  /\ served' = [served EXCEPT ![c] = {profiles[c]}]
  /\ UNCHANGED <<profiles, wanted, given, raced, meter, today, pc, job>>

\* A counter starts afresh because its key names the day; old ones are deleted, long
\* after the last request of their day.
NextDay ==
  /\ today < MaxDays
  /\ today' = today + 1
  /\ UNCHANGED <<admin, meter, pc, job>>

Expire(c, d) ==
  /\ usage[c][d] > 0
  /\ d + Retention <= today
  /\ \A q \in InFlight : pc[q] = "consume" => job[q].day # d
  /\ usage' = [usage EXCEPT ![c][d] = 0]
  /\ UNCHANGED <<admin, unheard, today, pc, job>>

-----------------------------------------------------------------------------
(* A question: POST /widget/chat up to the turn.                           *)

\* Admins and customers without a limit are not counted.
Metered(p) == p.role # "admin" /\ p.limit # Unlimited

\* The profile is read afresh, whatever the token says; if none is found the answer is
\* 401, and if it is not metered the turn begins.
BeginQuestion(q) ==
  /\ MayBegin(q)
  /\ \E c \in Customers : \E p \in served[c] :
       IF Metered(p)
       THEN /\ job' = [job EXCEPT ![q] =
                 [customer |-> c, limit |-> p.limit, day |-> 0, slot |-> 0]]
            /\ Goto(q, "limit")
       ELSE Leave(q)
  /\ UNCHANGED <<admin, meter, today>>

\* A limit of 0 is refused before the table is asked; then the day is read.
ReadDay(q) ==
  /\ pc[q] = "limit"
  /\ IF job[q].limit = 0 THEN Leave(q)
     ELSE job' = [job EXCEPT ![q].day = today] /\ Goto(q, "consume")
  /\ UNCHANGED <<admin, meter, today>>

\* Mutant: one question too many.
FreeOrLast(n, limit) == n <= limit

Free(n, limit) == n < limit

Count(j) == usage[j.customer][j.day]
CountOne(j) == usage' = [usage EXCEPT ![j.customer][j.day] = @ + 1]

\* The check and the count are one update; refused, the answer is 429.
Consume(q) ==
  /\ pc[q] = "consume"
  /\ IF Free(Count(job[q]), job[q].limit)
     THEN /\ CountOne(job[q])
          /\ job' = [job EXCEPT ![q].slot = Count(job[q]) + 1]
          /\ Goto(q, "asked")
     ELSE Leave(q) /\ UNCHANGED usage
  /\ UNCHANGED <<admin, unheard, today>>

\* The update is applied and its answer lost: the question is counted, and the client
\* library sends the update again or gives up with an exception.
ConsumeUnheard(q) ==
  /\ pc[q] = "consume"
  /\ LET j == job[q] IN
       /\ Free(Count(j), j.limit)
       /\ CountOne(j)
       /\ unheard' = [unheard EXCEPT ![j.customer][j.day] = @ \cup {Count(j) + 1}]
  /\ Leave(q) \/ UNCHANGED <<pc, job>>
  /\ UNCHANGED <<admin, today>>

-----------------------------------------------------------------------------
(* Admins: POST and PATCH /admin/customers.                                *)

\* The role is the profile's, as the request reads it.
IsAdmin == \E c \in Customers : \E p \in served[c] : p.role = "admin"

Inserted(c, profile) == IF Exists(c) THEN profiles ELSE [profiles EXCEPT ![c] = profile]

\* An id that is taken is a 409.
Create(q) ==
  /\ MayBegin(q) /\ IsAdmin
  /\ \E c \in Customers, role \in Roles, limit \in Limits :
       /\ profiles' = Inserted(c, [role |-> role, limit |-> limit])
       /\ served' = [served EXCEPT ![c] = @ \cup {profiles'[c]}]
       /\ IF Exists(c) THEN UNCHANGED <<wanted, given>>
          ELSE /\ wanted' = [wanted EXCEPT ![c] = [role |-> role, limit |-> limit]]
               /\ given' = [given EXCEPT ![c] = [role |-> {role}, limit |-> {limit}]]
  /\ Goto(q, "done")
  /\ UNCHANGED <<raced, meter, today, job>>

\* Mutant: a limit that was not sent is taken for null.
PatchedOrUnlimited(p, change) ==
  [role  |-> IF change.role = NoChange THEN p.role ELSE change.role,
   limit |-> IF change.limit = KeepLimit THEN Unlimited ELSE change.limit]

\* A field the patch left out stays; a null limit lifts it.
Patched(p, change) ==
  [role  |-> IF change.role = NoChange THEN p.role ELSE change.role,
   limit |-> IF change.limit = KeepLimit THEN p.limit ELSE change.limit]

\* A profile that is not found is a 404.
BeginPatch(q) ==
  /\ MayBegin(q) /\ IsAdmin
  /\ \E c \in Customers : \E copy \in served[c] :
       IF copy = NoProfile THEN Leave(q) /\ UNCHANGED raced
       ELSE \E role \in Roles \cup {NoChange}, limit \in Limits \cup {KeepLimit} :
              /\ job' = [job EXCEPT ![q] =
                   [customer |-> c, copy |-> copy, change |-> [role |-> role, limit |-> limit]]]
              /\ Goto(q, "put")
              /\ raced' = IF Patching(c) = {} /\ copy = profiles[c] THEN raced
                          ELSE raced \cup {c}
  /\ UNCHANGED <<profiles, served, wanted, given, meter, today>>

PutPatch(q) ==
  /\ pc[q] = "put"
  /\ LET c == job[q].customer
         change == job[q].change
         new == Patched(job[q].copy, change)
     IN /\ profiles' = [profiles EXCEPT ![c] = new]
        /\ served' = [served EXCEPT ![c] = @ \cup {new}]
        /\ wanted' = [wanted EXCEPT ![c] =
             [role  |-> IF change.role = NoChange THEN @.role ELSE change.role,
              limit |-> IF change.limit = KeepLimit THEN @.limit ELSE change.limit]]
        /\ given' = [given EXCEPT ![c] =
             [role  |-> @.role \cup ({change.role} \ {NoChange}),
              limit |-> @.limit \cup ({change.limit} \ {KeepLimit})]]
  /\ Leave(q)
  /\ UNCHANGED <<raced, meter, today>>

Next ==
  \/ \E q \in Requests :
       \/ Stop(q)
       \/ BeginQuestion(q) \/ ReadDay(q) \/ Consume(q) \/ ConsumeUnheard(q)
       \/ Create(q) \/ BeginPatch(q) \/ PutPatch(q)
  \/ NextDay
  \/ \E c \in Customers : CatchUp(c) \/ \E d \in Days : Expire(c, d)

Spec == Init /\ [][Next]_vars

-----------------------------------------------------------------------------
(* Properties.                                                             *)

Asked(c, d) == {q \in Requests : pc[q] = "asked" /\ job[q].customer = c /\ job[q].day = d}

\* Whatever questions come at once, across midnight or while the limit is changed: no
\* two questions of one day take the same slot, none takes a slot beyond the limit its
\* request read, and while the counter is kept it counts just the questions admitted
\* and the updates whose answer was lost (stores/usage_store.py, try_consume).
SlotsAreTakenOnce ==
  \A c \in Customers, d \in Days :
    LET slots == {job[q].slot : q \in Asked(c, d)} IN
    /\ \A p, q \in Asked(c, d) : job[p].slot = job[q].slot => p = q
    /\ \A q \in Asked(c, d) : job[q].slot \in 1 .. job[q].limit
    /\ slots \cap unheard[c][d] = {}
    /\ today < d + Retention => slots \cup unheard[c][d] = 1 .. usage[c][d]

\* Whatever patches overlap or work from an older item, a field of a profile is what it
\* was created with or what a patch that named the field sent.  And unless two patches
\* of it ran at once or one worked from an older item, each is applied to what was
\* there: none is undone by a later patch that did not name the field, or by a second
\* create (channels/admin_customers.py).
PatchesKeepTheRest ==
  \A c \in Customers :
    /\ Exists(c) => profiles[c].role \in given[c].role /\ profiles[c].limit \in given[c].limit
    /\ c \notin raced => profiles[c] = wanted[c]
=============================================================================
