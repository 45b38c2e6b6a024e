--------------------------- MODULE RequestProofs ---------------------------
(***************************************************************************)
(* Theorems about what a request meets before it is executed and while it  *)
(* is.  Sessions, for any number of requests and any ages and delays: what *)
(* a request believes is not older than they allow.  PersistedQueries, for *)
(* every set of servers, clients and texts and every manifest: what runs is*)
(* what was asked for by its hash.  RequestLoaders, for any requests, ids  *)
(* and versions: a load answers its own document, none older than the      *)
(* request.                                                                *)
(***************************************************************************)
EXTENDS Sessions, PersistedQueries, RequestLoaders, Integers, FiniteSetTheorems, TLAPS

Facts == Statuses \cup {"listed"}

(* What the user and the app token are when they are remembered.            *)
FactOf(key, s) == IF key = "user" THEN s \in Statuses ELSE s = "listed"
AgeOf(key) == IF key = "user" THEN MaxAge ELSE AppAge

(* What is in the database was last there now.                              *)
ClockRight ==
    /\ now \in Nat /\ failures \in Nat
    /\ status \in Statuses /\ listed \in BOOLEAN /\ black \in BOOLEAN
    /\ last \in [Facts -> Nat]
    /\ \A s \in Facts : last[s] <= now
    /\ last[status] = now /\ (listed => last["listed"] = now)

(* A write on its way says what was true when it was read, and is not late. *)
WriteRight(w) ==
    /\ w.key \in {"user", "app"} /\ FactOf(w.key, w.is)
    /\ w.at \in Nat /\ w.at <= now /\ now - w.at <= MaxDelay
    /\ failures = 0 => last[w.is] >= w.at

(* An entry says what was true not longer ago than it is old, and a write   *)
(* may take.                                                                *)
EntryRight(key, e) ==
    e # None =>
        /\ e = [is |-> e.is, left |-> e.left]
        /\ FactOf(key, e.is)
        /\ e.left \in 1 .. AgeOf(key)
        /\ failures = 0 => now - last[e.is] <= AgeOf(key) - e.left + MaxDelay

HeldRight ==
    /\ held = [user |-> held.user, app |-> held.app]
    /\ EntryRight("user", held.user) /\ EntryRight("app", held.app)

(* A request that began with a blacklisted token finds that out, and none   *)
(* has a user before it is done.                                            *)
CallRight(c) ==
    /\ c = [at |-> c.at, began |-> c.began, valid |-> c.valid, app |-> c.app,
            user |-> c.user, lag |-> c.lag, appLag |-> c.appLag]
    /\ c.began \in BOOLEAN /\ c.valid \in BOOLEAN
    /\ c.began => black
    /\ (failures = 0 /\ c.began /\ c.at \notin {"idle", "blacklist"}) => c.valid = FALSE
    /\ c.at = "user read" => c.valid = TRUE
    /\ c.at # "done" => c.user = None
    /\ failures = 0 =>
          /\ c.began => c.user = None
          /\ c.lag <= MaxAge + MaxDelay /\ c.appLag <= AppAge + MaxDelay

CallsRight ==
    /\ calls = [r \in Requests |-> calls[r]]
    /\ \A r \in Requests : CallRight(calls[r])

SessionInv == ClockRight /\ (\A w \in writes : WriteRight(w)) /\ HeldRight /\ CallsRight

-----------------------------------------------------------------------------
Ages == MaxAge \in Nat \ {0} /\ AppAge \in Nat \ {0} /\ MaxDelay \in Nat

(* Time stands still, and what is known of the past can only grow.          *)
Calm ==
    /\ now' = now /\ (failures' = 0 => failures = 0) /\ (black => black')
    /\ \A s \in Facts : last'[s] >= last[s]

(* A time is known for every status and for the listing.                    *)
LEMMA FactsOf ==
  ASSUME NEW key, NEW s, FactOf(key, s)
  PROVE  s \in Facts
  BY DEF FactOf, Facts

(* Where time stands still, what was right stays right.                     *)
LEMMA StillRight ==
  ASSUME Ages, ClockRight, ClockRight', Calm
  PROVE  /\ \A w : WriteRight(w) => WriteRight(w)'
         /\ \A key, e : EntryRight(key, e) => EntryRight(key, e)'
         /\ \A c : CallRight(c) => CallRight(c)'
  <1>1. ASSUME NEW w, WriteRight(w)
        PROVE  WriteRight(w)'
    <2>1. w.is \in Facts
      BY <1>1, FactsOf DEF WriteRight
    <2> QED BY <1>1, <2>1 DEF WriteRight, Calm, ClockRight
  <1>2. ASSUME NEW key, NEW e, EntryRight(key, e)
        PROVE  EntryRight(key, e)'
    <2> SUFFICES ASSUME e # None
                 PROVE  EntryRight(key, e)'
      BY DEF EntryRight
    <2>1. e.is \in Facts
      BY <1>2, FactsOf DEF EntryRight
    <2>2. now - last[e.is] \in Int /\ now' - last'[e.is] <= now - last[e.is]
      BY <2>1 DEF Calm, ClockRight
    <2>3. failures' = 0 => now' - last'[e.is] <= AgeOf(key) - e.left + MaxDelay
      <3>1. SUFFICES ASSUME failures' = 0
                     PROVE  now' - last'[e.is] <= AgeOf(key) - e.left + MaxDelay
        OBVIOUS
      <3>2. now - last[e.is] <= AgeOf(key) - e.left + MaxDelay
        BY <1>2, <3>1 DEF EntryRight, Calm
      <3>3. AgeOf(key) - e.left + MaxDelay \in Int
        BY <1>2 DEF EntryRight, AgeOf, Ages
      <3>4. now' - last'[e.is] \in Int
        BY <2>1 DEF ClockRight
      <3> QED BY <2>2, <3>2, <3>3, <3>4
    <2> QED BY <1>2, <2>3 DEF EntryRight, AgeOf
  <1>3. ASSUME NEW c, CallRight(c)
        PROVE  CallRight(c)'
    BY <1>3 DEF CallRight, Calm
  <1> QED BY <1>1, <1>2, <1>3

(* An entry that ages stays right while a moment passes.                    *)
LEMMA AgedRight ==
  ASSUME Ages, ClockRight, Tick, NEW key \in {"user", "app"}, NEW e, EntryRight(key, e)
  PROVE  EntryRight(key, Aged(e))'
  <1> SUFFICES ASSUME e # None, e.left # 1
               PROVE  EntryRight(key, [e EXCEPT !.left = @ - 1])'
    BY DEF EntryRight, Aged
  <1> DEFINE a == [is |-> e.is, left |-> e.left - 1]
  <1>1. [e EXCEPT !.left = @ - 1] = a
    BY DEF EntryRight
  <1>2. e.is \in Facts
    BY FactsOf DEF EntryRight
  <1>3. a.left \in 1 .. AgeOf(key)
    BY DEF EntryRight, AgeOf, Ages
  <1>4. now' = now + 1 /\ last'[e.is] >= last[e.is] /\ last'[e.is] \in Nat /\ failures' = failures
    BY <1>2 DEF Tick, Seen, ClockRight
  <1>5. failures' = 0 => now' - last'[a.is] <= AgeOf(key) - a.left + MaxDelay
    <2> SUFFICES ASSUME failures = 0
                 PROVE  now' - last'[e.is] <= AgeOf(key) - (e.left - 1) + MaxDelay
      BY <1>4
    <2>1. now - last[e.is] <= AgeOf(key) - e.left + MaxDelay
      BY DEF EntryRight
    <2>2. AgeOf(key) \in Nat /\ e.left \in Nat /\ MaxDelay \in Nat
      BY DEF EntryRight, AgeOf, Ages
    <2>3. now \in Nat /\ last[e.is] \in Nat
      BY <1>2 DEF ClockRight
    <2> QED BY <1>4, <2>1, <2>2, <2>3
  <1>6. FactOf(key, a.is)
    BY DEF EntryRight, FactOf
  <1>7. EntryRight(key, a)'
    BY <1>3, <1>5, <1>6 DEF EntryRight, AgeOf
  <1> QED BY <1>1, <1>7

(* A step of a request reads the database, and counts what fails.           *)
RequestStep(r) ==
    \/ Begin(r) \/ CheckBlacklist(r) \/ LookUpApp(r)
    \/ ReadApp(r) \/ LookUpUser(r) \/ ReadUser(r)

(* The steps of a request that only read.                                   *)
LEMMA RequestReads ==
  ASSUME NEW r \in Requests, RequestStep(r)
  PROVE  UNCHANGED database /\ (UNCHANGED failures \/ Broken)
  <1>1. Begin(r) => UNCHANGED database /\ UNCHANGED failures
    BY DEF Begin
  <1>2. CheckBlacklist(r) => UNCHANGED database /\ (UNCHANGED failures \/ Broken)
    BY DEF CheckBlacklist, Sound
  <1>3. LookUpApp(r) => UNCHANGED database /\ UNCHANGED failures
    BY DEF LookUpApp
  <1>4. ReadApp(r) => UNCHANGED database /\ (UNCHANGED failures \/ Broken)
    BY DEF ReadApp, Sound
  <1>5. LookUpUser(r) => UNCHANGED database /\ UNCHANGED failures
    BY DEF LookUpUser
  <1>6. ReadUser(r) => UNCHANGED database /\ (UNCHANGED failures \/ Broken)
    BY DEF ReadUser, Sound
  <1> QED BY <1>1, <1>2, <1>3, <1>4, <1>5, <1>6 DEF RequestStep

(* The clock.                                                               *)
LEMMA ClockStep ==
  ASSUME Ages, ClockRight, [SessionNext]_sessionVars
  PROVE  ClockRight'
  <1>1. CASE Tick
    BY <1>1 DEF Tick, ClockRight, Seen, Present, Facts
  <1>2. ASSUME NEW s \in Statuses, ChangeStatus(s)
        PROVE  ClockRight'
    BY <1>2 DEF ChangeStatus, ClockRight, Seen, Present, Facts
  <1>3. CASE Unlist
    BY <1>3 DEF Unlist, ClockRight, Seen, Present, Facts, Change
  <1>4. CASE Blacklist
    BY <1>4 DEF Blacklist, ClockRight
  <1>5. CASE UNCHANGED database /\ failures' \in Nat
    BY <1>5 DEF ClockRight, database
  <1>6. ASSUME NEW w \in writes, Land(w)
        PROVE  ClockRight'
    BY <1>5, <1>6 DEF Land, ClockRight
  <1>7. CASE Evict \/ UNCHANGED sessionVars
    BY <1>5, <1>7 DEF Evict, ClockRight, sessionVars
  <1>8. ASSUME NEW r \in Requests, RequestStep(r)
        PROVE  ClockRight'
    BY <1>5, <1>8, RequestReads DEF Broken, ClockRight
  <1> QED BY <1>1, <1>2, <1>3, <1>4, <1>6, <1>7, <1>8 DEF SessionNext, RequestStep

(* All steps but a tick leave the time alone.                               *)
LEMMA CalmStep ==
  ASSUME ClockRight, ClockRight', [SessionNext]_sessionVars, ~Tick
  PROVE  Calm
  <1>1. ASSUME NEW s \in Statuses, ChangeStatus(s)
        PROVE  Calm
    BY <1>1 DEF ChangeStatus, ClockRight, Seen, Present, Facts, Calm
  <1>2. CASE Unlist
    BY <1>2 DEF Unlist, ClockRight, Seen, Facts, Calm
  <1>3. CASE Blacklist
    BY <1>3 DEF Blacklist, ClockRight, Calm
  <1>4. CASE UNCHANGED database /\ (failures' = 0 => failures = 0)
    BY <1>4 DEF ClockRight, database, Calm
  <1>5. ASSUME NEW w \in writes, Land(w)
        PROVE  Calm
    BY <1>4, <1>5 DEF Land
  <1>6. CASE Evict \/ UNCHANGED sessionVars
    BY <1>4, <1>6 DEF Evict, sessionVars
  <1>7. ASSUME NEW r \in Requests, RequestStep(r)
        PROVE  Calm
    BY <1>4, <1>7, RequestReads DEF Broken, ClockRight
  <1> QED BY <1>1, <1>2, <1>3, <1>5, <1>6, <1>7 DEF SessionNext, RequestStep

(* What is on its way to Redis after a step is right, and young enough.     *)
LEMMA WritesStep ==
  ASSUME Ages, SessionInv, ClockRight', [SessionNext]_sessionVars
  PROVE  \A w \in writes' : WriteRight(w)'
  <1>1. CASE Tick
    <2> SUFFICES ASSUME NEW w \in writes
                 PROVE  WriteRight(w)'
      BY <1>1 DEF Tick
    <2>1. WriteRight(w) /\ w.is \in Facts
      BY FactsOf DEF SessionInv, WriteRight
    <2>2. last'[w.is] >= last[w.is]
      BY <1>1, <2>1 DEF Tick, Seen, SessionInv, ClockRight
    <2> QED BY <1>1, <2>1, <2>2 DEF Tick, WriteRight, SessionInv, ClockRight, Ages
  <1>2. CASE ~Tick
    <2>1. ASSUME NEW w \in writes
          PROVE  WriteRight(w)'
      BY <1>2, <2>1, CalmStep, StillRight DEF SessionInv
    <2>2. ASSUME NEW r \in Requests, ReadApp(r)
          PROVE  \A w \in writes' \ writes : WriteRight(w)'
      <3> SUFFICES ASSUME NEW w \in writes' \ writes
                   PROVE  WriteRight(w)'
        OBVIOUS
      <3>1. w = [key |-> "app", is |-> "listed", at |-> now]
        BY <2>2 DEF ReadApp
      <3>2. (Sound /\ listed) \/ Broken
        BY <2>2 DEF ReadApp
      <3>3. failures' = 0 => last["listed"] = now
        BY <3>2 DEF Broken, Sound, SessionInv, ClockRight
      <3>4. UNCHANGED <<now, last>>
        BY <2>2 DEF ReadApp, database
      <3> QED BY <3>1, <3>3, <3>4 DEF WriteRight, FactOf, SessionInv, ClockRight, Ages, Facts
    <2>3. ASSUME NEW r \in Requests, ReadUser(r)
          PROVE  \A w \in writes' \ writes : WriteRight(w)'
      <3> SUFFICES ASSUME NEW w \in writes' \ writes
                   PROVE  WriteRight(w)'
        OBVIOUS
      <3>1. w = [key |-> "user", is |-> status, at |-> now]
        BY <2>3 DEF ReadUser
      <3>2. UNCHANGED <<now, last>>
        BY <2>3 DEF ReadUser, database
      <3> QED BY <3>1, <3>2 DEF WriteRight, FactOf, SessionInv, ClockRight, Ages, Facts
    <2>4. writes' \ writes # {} => \E r \in Requests : ReadApp(r) \/ ReadUser(r)
      <3>1. ASSUME NEW s \in Statuses, ChangeStatus(s)
            PROVE  writes' = writes
        BY <3>1 DEF ChangeStatus
      <3>2. Unlist \/ Blacklist \/ Evict \/ UNCHANGED sessionVars => writes' = writes
        BY DEF Unlist, Blacklist, Evict, sessionVars
      <3>3. ASSUME NEW w \in writes, Land(w)
            PROVE  writes' \subseteq writes
        BY <3>3 DEF Land
      <3>4. ASSUME NEW r \in Requests,
                   Begin(r) \/ CheckBlacklist(r) \/ LookUpApp(r) \/ LookUpUser(r)
            PROVE  writes' = writes
        BY <3>4 DEF Begin, CheckBlacklist, LookUpApp, LookUpUser
      <3> QED BY <1>2, <3>1, <3>2, <3>3, <3>4 DEF SessionNext
    <2> QED BY <2>1, <2>2, <2>3, <2>4
  <1> QED BY <1>1, <1>2

(* What Redis holds after a step is right if each entry is.                 *)
LEMMA HeldFrom ==
  ASSUME NEW u, NEW a, held' = [user |-> u, app |-> a],
         EntryRight("user", u)', EntryRight("app", a)'
  PROVE  HeldRight'
  <1>1. held'.user = u /\ held'.app = a
    OBVIOUS
  <1> QED BY <1>1 DEF HeldRight, EntryRight

(* One of the two entries is replaced.                                      *)
LEMMA UserReplaced ==
  ASSUME NEW h, NEW k, NEW u, NEW a, NEW e, h = [user |-> u, app |-> a], k = "user"
  PROVE  [h EXCEPT ![k] = e] = [user |-> e, app |-> a]
  OBVIOUS

(* The same for the entry of the app token.                                 *)
LEMMA AppReplaced ==
  ASSUME NEW h, NEW k, NEW u, NEW a, NEW e, h = [user |-> u, app |-> a], k = "app"
  PROVE  [h EXCEPT ![k] = e] = [user |-> u, app |-> e]
  OBVIOUS

(* What Redis holds after a step is right.                                  *)
LEMMA HeldStep ==
  ASSUME Ages, SessionInv, ClockRight', [SessionNext]_sessionVars
  PROVE  HeldRight'
  <1> DEFINE u == held.user
             a == held.app
  <1>0. held = [user |-> u, app |-> a] /\ EntryRight("user", u) /\ EntryRight("app", a)
    BY DEF SessionInv, HeldRight
  <1>1. CASE Tick
    <2>1. held' = [user |-> Aged(u), app |-> Aged(a)]
      BY <1>0, <1>1 DEF Tick
    <2>2. ASSUME NEW e, NEW o, held' = [user |-> Aged(e), app |-> Aged(o)],
                 EntryRight("user", e), EntryRight("app", o)
          PROVE  HeldRight'
      BY <1>1, <2>2, AgedRight, HeldFrom DEF SessionInv
    <2> QED BY <1>0, <2>1, <2>2
  <1>2. CASE ~Tick
    <2>1. \A key, e : EntryRight(key, e) => EntryRight(key, e)'
      BY <1>2, CalmStep, StillRight DEF SessionInv
    <2>2. ASSUME NEW e, NEW o, held' = [user |-> e, app |-> o],
                 EntryRight("user", e), EntryRight("app", o)
          PROVE  HeldRight'
      BY <2>1, <2>2, HeldFrom
    <2>3. CASE UNCHANGED held
      BY <1>0, <2>2, <2>3
    <2>4. CASE Evict
      BY <2>2, <2>4 DEF Evict, EntryRight
    <2>5. ASSUME NEW w \in writes, Land(w)
          PROVE  HeldRight'
      <3> DEFINE e == [is |-> w.is, left |-> AgeOf(w.key)]
      <3>1. held' = IF w.key = "user" THEN [user |-> e, app |-> a] ELSE [user |-> u, app |-> e]
        <4>1. held' = [held EXCEPT ![w.key] = e] /\ w.key \in {"user", "app"}
          BY <2>5 DEF Land, Stored, AgeOf, SessionInv, WriteRight
        <4> HIDE DEF e
        <4>2. held = [user |-> u, app |-> a]
          BY <1>0
        <4> HIDE DEF u, a
        <4>3. CASE w.key = "user"
          <5>1. held' = [user |-> e, app |-> a]
            BY <4>1, <4>2, <4>3, UserReplaced, Zenon
          <5> QED BY <4>3, <5>1
        <4>4. CASE w.key = "app"
          <5>1. held' = [user |-> u, app |-> e]
            BY <4>1, <4>2, <4>4, AppReplaced, Zenon
          <5> QED BY <4>4, <5>1
        <4> QED BY <4>1, <4>3, <4>4
      <3>2. WriteRight(w) /\ w.is \in Facts
        BY FactsOf DEF SessionInv, WriteRight
      <3>3. EntryRight(w.key, e)
        <4>1. AgeOf(w.key) \in Nat \ {0}
          BY DEF AgeOf, Ages
        <4>2. failures = 0 => now - last[w.is] <= AgeOf(w.key) - AgeOf(w.key) + MaxDelay
          BY <3>2, <4>1 DEF WriteRight, SessionInv, ClockRight, Ages
        <4> QED BY <3>2, <4>1, <4>2 DEF EntryRight, WriteRight
      <3> HIDE DEF e
      <3> QED BY <1>0, <2>2, <3>1, <3>2, <3>3 DEF WriteRight
    <2>6. held' = held \/ Evict \/ \E w \in writes : Land(w)
      <3>1. ASSUME NEW s \in Statuses, ChangeStatus(s)
            PROVE  held' = held
        BY <3>1 DEF ChangeStatus
      <3>2. Unlist \/ Blacklist \/ UNCHANGED sessionVars => held' = held
        BY DEF Unlist, Blacklist, sessionVars
      <3>3. ASSUME NEW r \in Requests, RequestStep(r)
            PROVE  held' = held
        BY <3>3 DEF RequestStep, Begin, CheckBlacklist, LookUpApp, ReadApp, LookUpUser, ReadUser
      <3> QED BY <1>2, <3>1, <3>2, <3>3 DEF SessionNext, RequestStep
    <2> QED BY <2>3, <2>4, <2>5, <2>6
  <1> QED BY <1>1, <1>2

(* What a request is when it begins.                                        *)
LEMMA BegunCall ==
  ASSUME NEW b, NEW n, NEW f, NEW z, NEW g, NEW at
  PROVE  [[at |-> g, began |-> f, valid |-> f, app |-> f, user |-> n, lag |-> z, appLag |-> z]
            EXCEPT !.at = at, !.began = b]
           = [at |-> at, began |-> b, valid |-> f, app |-> f, user |-> n, lag |-> z, appLag |-> z]
  <1> DEFINE i == [at |-> g, began |-> f, valid |-> f, app |-> f, user |-> n, lag |-> z,
                   appLag |-> z]
             j == [i EXCEPT !.at = at]
  <1>1. j = [at |-> at, began |-> f, valid |-> f, app |-> f, user |-> n, lag |-> z, appLag |-> z]
    OBVIOUS
  <1> HIDE DEF j
  <1>2. [j EXCEPT !.began = b]
           = [at |-> at, began |-> b, valid |-> f, app |-> f, user |-> n, lag |-> z, appLag |-> z]
    BY <1>1
  <1> QED BY <1>2 DEF j

(* A request that takes a step: it is enough that its own call is right.    *)
LEMMA CallsFrom ==
  ASSUME Ages, SessionInv, ClockRight', Calm, NEW r \in Requests, NEW c,
         calls' = [calls EXCEPT ![r] = c], CallRight(c)'
  PROVE  CallsRight'
  <1>1. \A d : CallRight(d) => CallRight(d)'
    BY StillRight DEF SessionInv
  <1>2. \A q \in Requests : calls'[q] = IF q = r THEN c ELSE calls[q]
    BY DEF SessionInv, CallsRight
  <1>3. \A q \in Requests : CallRight(calls[q])
    BY DEF SessionInv, CallsRight
  <1>4. \A q \in Requests : \E d : calls'[q] = d /\ CallRight(d)'
    BY <1>1, <1>2, <1>3
  <1>5. \A q \in Requests : CallRight(calls[q])'
    BY <1>4 DEF CallRight
  <1> QED BY <1>5 DEF CallsRight, SessionInv

MovesTo(r, to) == calls' = [calls EXCEPT ![r].at = to]

(* Every request is right after a step.                                     *)
LEMMA CallsStep ==
  ASSUME Ages, SessionInv, ClockRight', [SessionNext]_sessionVars
  PROVE  CallsRight'
  <1>1. ASSUME UNCHANGED <<calls, black>>, failures' = failures
        PROVE  CallsRight'
    BY <1>1 DEF SessionInv, CallsRight, CallRight
  <1>2. CASE Tick
    BY <1>1, <1>2 DEF Tick
  <1>3. ASSUME ~Tick, UNCHANGED calls
        PROVE  CallsRight'
    <2>1. \A d : CallRight(d) => CallRight(d)'
      BY <1>3, CalmStep, StillRight DEF SessionInv
    <2>2. \A q \in Requests : \E d : calls'[q] = d /\ CallRight(d)'
      BY <1>3, <2>1 DEF SessionInv, CallsRight
    <2>3. \A q \in Requests : CallRight(calls[q])'
      BY <2>2 DEF CallRight
    <2> QED BY <1>3, <2>3 DEF CallsRight, SessionInv
  <1>4. ASSUME NEW r \in Requests, RequestStep(r), ~Tick
        PROVE  CallsRight'
    <2>1. PICK d : d = calls[r] /\ CallRight(d)
      BY DEF SessionInv, CallsRight
    <2>2. Calm /\ now' = now /\ last' = last /\ (failures' = 0 => failures = 0) /\ black' = black
      BY <1>4, CalmStep, RequestReads DEF SessionInv, Calm, database
    <2>3. ASSUME NEW e, calls' = [calls EXCEPT ![r] = e], CallRight(e)'
          PROVE  CallsRight'
      BY <2>2, <2>3, CallsFrom
    <2>4. CASE Begin(r)
      <3>1. PICK e : e = [at |-> "blacklist", began |-> black, valid |-> FALSE, app |-> FALSE,
                          user |-> None, lag |-> 0, appLag |-> 0]
        OBVIOUS
      <3>2. CallRight(e)'
        BY <2>2, <3>1 DEF CallRight, Ages, SessionInv, ClockRight
      <3>3. e = [Idle EXCEPT !.at = "blacklist", !.began = black]
        <4>1. PICK i : i = [Idle EXCEPT !.at = "blacklist", !.began = black]
          OBVIOUS
        <4>2. i = [at |-> "blacklist", began |-> black, valid |-> FALSE, app |-> FALSE,
                   user |-> None, lag |-> 0, appLag |-> 0]
          BY <4>1, BegunCall, Zenon DEF Idle
        <4> QED BY <3>1, <4>1, <4>2, Zenon
      <3> QED BY <2>3, <2>4, <3>2, <3>3 DEF Begin
    <2>5. CASE CheckBlacklist(r)
      <3>1. PICK v \in BOOLEAN : /\ calls' = [calls EXCEPT ![r].at = "app", ![r].valid = v]
                                 /\ failures' = 0 => v = ~black
        <4>1. Broken => failures' # 0
          BY DEF Broken, SessionInv, ClockRight
        <4>2. black \in BOOLEAN
          BY DEF SessionInv, ClockRight
        <4> QED BY <2>5, <4>1, <4>2 DEF CheckBlacklist
      <3>2. PICK e : e = [d EXCEPT !.at = "app", !.valid = v]
        OBVIOUS
      <3>3. calls' = [calls EXCEPT ![r] = e]
        BY <2>1, <3>1, <3>2
      <3>4. CallRight(e)'
        BY <2>1, <2>2, <2>5, <3>1, <3>2 DEF CallRight, CheckBlacklist
      <3> QED BY <2>3, <3>3, <3>4
    <2>6. ASSUME NEW lag, calls' = AppKnown(r, lag), d.at \notin {"idle", "blacklist", "done"},
                 failures' = 0 => lag <= AppAge + MaxDelay
          PROVE  CallsRight'
      <3>1. PICK e : e = [d EXCEPT !.at = "user", !.app = TRUE, !.appLag = lag]
        OBVIOUS
      <3>2. calls' = [calls EXCEPT ![r] = e]
        BY <2>1, <2>6, <3>1 DEF AppKnown
      <3>3. CallRight(e)'
        BY <2>1, <2>2, <2>6, <3>1 DEF CallRight
      <3> QED BY <2>3, <3>2, <3>3
    <2>7. ASSUME NEW to, MovesTo(r, to), to \notin {"idle", "blacklist"},
                 d.at \notin {"idle", "blacklist", "done"}, to = "user read" => d.valid = TRUE
          PROVE  CallsRight'
      <3>1. PICK e : e = [d EXCEPT !.at = to]
        OBVIOUS
      <3>2. calls' = [calls EXCEPT ![r] = e]
        BY <2>1, <2>7, <3>1 DEF MovesTo
      <3>3. CallRight(e)'
        BY <2>1, <2>2, <2>7, <3>1 DEF CallRight
      <3> QED BY <2>3, <3>2, <3>3
    <2>8. CASE LookUpApp(r)
      <3>1. CASE held.app = None
        <4>1. MovesTo(r, "app read") /\ d.at = "app"
          BY <2>1, <2>8, <3>1 DEF MovesTo, LookUpApp
        <4> QED BY <2>7, <4>1
      <3>2. CASE held.app # None
        <4>1. failures = 0 => now - last["listed"] <= AppAge + MaxDelay
          BY <3>2 DEF SessionInv, HeldRight, EntryRight, FactOf, AgeOf, ClockRight, Ages, Facts
        <4>2. PICK lag : lag = now - last["listed"]
          OBVIOUS
        <4> QED BY <2>1, <2>2, <2>6, <2>8, <3>2, <4>1, <4>2 DEF LookUpApp
      <3> QED BY <3>1, <3>2
    <2>9. CASE ReadApp(r)
      <3>1. CASE calls' = [calls EXCEPT ![r].at = "user"]
        <4>1. MovesTo(r, "user") /\ d.at = "app read"
          BY <2>1, <2>9, <3>1 DEF MovesTo, ReadApp
        <4> QED BY <2>7, <4>1
      <3>2. CASE calls' = AppKnown(r, now - last["listed"]) /\ ((Sound /\ listed) \/ Broken)
        <4>1. failures' = 0 => now - last["listed"] <= AppAge + MaxDelay
          BY <3>2 DEF Sound, Broken, SessionInv, ClockRight, Ages, Facts
        <4>2. PICK lag : lag = now - last["listed"]
          OBVIOUS
        <4> QED BY <2>1, <2>6, <2>9, <3>2, <4>1, <4>2 DEF ReadApp
      <3> QED BY <2>9, <3>1, <3>2 DEF ReadApp
    <2>10. ASSUME NEW s, calls' = Answered(r, s), d.valid = TRUE,
                  d.at \notin {"idle", "blacklist", "done"},
                  (failures' = 0 /\ s \in Statuses) => now - last[s] <= MaxAge + MaxDelay
           PROVE  CallsRight'
      <3>1. PICK lag : lag = IF s \in Statuses THEN now - last[s] ELSE 0
        OBVIOUS
      <3>2. failures' = 0 => lag <= MaxAge + MaxDelay
        BY <2>10, <3>1 DEF Ages
      <3>3. PICK e : e = [d EXCEPT !.at = "done", !.user = s, !.lag = lag]
        OBVIOUS
      <3>4. calls' = [calls EXCEPT ![r] = e]
        BY <2>1, <2>10, <3>1, <3>3 DEF Answered
      <3>5. CallRight(e)'
        BY <2>1, <2>2, <2>10, <3>2, <3>3 DEF CallRight
      <3> QED BY <2>3, <3>4, <3>5
    <2>11. CASE LookUpUser(r)
      <3>1. d.at = "user" /\ d.valid = calls[r].valid /\ d.valid \in BOOLEAN
        BY <2>1, <2>11 DEF LookUpUser, CallRight
      <3>2. CASE d.valid = FALSE
        <4>1. MovesTo(r, "done")
          BY <2>11, <3>1, <3>2 DEF MovesTo, LookUpUser
        <4> QED BY <2>7, <3>1, <4>1
      <3>3. CASE d.valid = TRUE /\ held.user # None
        <4>1. calls' = Answered(r, held.user.is)
          BY <2>11, <3>1, <3>3 DEF LookUpUser
        <4>2. failures = 0 /\ held.user.is \in Statuses =>
                 now - last[held.user.is] <= MaxAge + MaxDelay
          BY <3>3 DEF SessionInv, HeldRight, EntryRight, FactOf, AgeOf, ClockRight, Ages, Facts
        <4> QED BY <2>2, <2>10, <3>1, <3>3, <4>1, <4>2
      <3>4. CASE d.valid = TRUE /\ held.user = None
        <4>1. MovesTo(r, "user read")
          BY <2>11, <3>1, <3>4 DEF MovesTo, LookUpUser
        <4> QED BY <2>7, <3>1, <3>4, <4>1
      <3> QED BY <3>1, <3>2, <3>3, <3>4
    <2>12. CASE ReadUser(r)
      <3>1. d.at = "user read" /\ d.valid = TRUE
        BY <2>1, <2>12 DEF ReadUser, CallRight
      <3>2. CASE calls' = Answered(r, status)
        <4>1. now - last[status] <= MaxAge + MaxDelay
          BY DEF SessionInv, ClockRight, Ages, Facts
        <4> QED BY <2>10, <3>1, <3>2, <4>1
      <3>3. CASE calls' = Answered(r, "as the token says")
        <4>1. "as the token says" \notin Statuses
          BY DEF Statuses
        <4> QED BY <2>10, <3>1, <3>3, <4>1
      <3> QED BY <2>12, <3>2, <3>3 DEF ReadUser
    <2> QED BY <1>4, <2>4, <2>5, <2>8, <2>9, <2>11, <2>12 DEF RequestStep
  <1>5. ASSUME NEW s \in Statuses, ChangeStatus(s)
        PROVE  UNCHANGED calls
    BY <1>5 DEF ChangeStatus
  <1>6. Unlist \/ Blacklist \/ Evict \/ UNCHANGED sessionVars => UNCHANGED calls
    BY DEF Unlist, Blacklist, Evict, sessionVars
  <1>7. ASSUME NEW w \in writes, Land(w)
        PROVE  UNCHANGED calls
    BY <1>7 DEF Land
  <1> QED BY <1>2, <1>3, <1>4, <1>5, <1>6, <1>7 DEF SessionNext, RequestStep

-----------------------------------------------------------------------------
(* The invariant holds in every behaviour.                                  *)
LEMMA SessionInvHolds ==
  ASSUME Ages
  PROVE  SessionSpec => []SessionInv
  <1>1. SessionInit => SessionInv
    <2> SUFFICES ASSUME SessionInit
                 PROVE  SessionInv
      OBVIOUS
    <2>1. ClockRight
      <3>1. last = [s \in Facts |-> 0]
        BY Zenon DEF SessionInit, Facts
      <3>2. /\ last \in [Facts -> Nat]
            /\ \A s \in Facts : last[s] = 0
        BY <3>1
      <3>3. now = 0 /\ failures = 0 /\ status = "active"
        BY Zenon DEF SessionInit
      <3>4. listed \in BOOLEAN /\ black \in BOOLEAN
        BY Zenon DEF SessionInit
      <3> QED BY <3>2, <3>3, <3>4 DEF ClockRight, Statuses, Facts
    <2>2. HeldRight
      BY DEF SessionInit, HeldRight, EntryRight
    <2>3. CallsRight
      <3>1. CallRight(Idle)
        BY DEF CallRight, Idle, Ages
      <3> QED BY <3>1, Zenon DEF SessionInit, CallsRight
    <2> QED BY <2>1, <2>2, <2>3 DEF SessionInit, SessionInv
  <1>2. SessionInv /\ [SessionNext]_sessionVars => SessionInv'
    <2> SUFFICES ASSUME SessionInv, [SessionNext]_sessionVars
                 PROVE  SessionInv'
      OBVIOUS
    <2>1. ClockRight'
      BY ClockStep DEF SessionInv
    <2> QED BY <2>1, WritesStep, HeldStep, CallsStep DEF SessionInv
  <1> QED BY <1>1, <1>2, PTL DEF SessionSpec

(* While no read of the database fails, what a request believes of its user *)
(* and its app token was true at most as long ago as Redis may keep it and  *)
(* a write may take, and a request that began after its token was           *)
(* blacklisted has no user - for any number of requests and of changes.     *)
THEOREM BeliefsAreRecent ==
  ASSUME Ages
  PROVE  SessionSpec => []SessionIsCurrent
  <1>1. SessionInv => SessionIsCurrent
    BY DEF SessionInv, CallsRight, CallRight, SessionIsCurrent
  <1> QED BY <1>1, SessionInvHolds, PTL

-----------------------------------------------------------------------------
(* Persisted queries.                                                       *)

ManifestIsRight == \A m \in Manifest : HashOf[m.text] = m.hash

(* Each server keeps every text under its own hash, ...                     *)
KnownRight ==
    /\ known = [s \in Servers |-> known[s]]
    /\ \A s \in Servers : \A h \in DOMAIN known[s] : HashOf[known[s][h]] = h

(* ... and no safelist has more than the manifest.                          *)
SafelistRight ==
    /\ safelist = [s \in Servers |-> safelist[s]]
    /\ \A s \in Servers : safelist[s] \subseteq Approved

RunInv == ManifestIsRight => KnownRight /\ SafelistRight /\ RunsWhatWasAsked

-----------------------------------------------------------------------------
(* What loadManifest reads is right if the manifest is.                     *)
LEMMA LoadedRight ==
  ASSUME ManifestIsRight, NEW q \in Loaded
  PROVE  \A h \in DOMAIN q : HashOf[q[h]] = h
  <1> SUFFICES ASSUME NEW h \in DOMAIN q
               PROVE  HashOf[q[h]] = h
    OBVIOUS
  <1>1. [hash |-> h, text |-> q[h]] \in Manifest
    BY DEF Loaded
  <1>2. HashOf[[hash |-> h, text |-> q[h]].text] = [hash |-> h, text |-> q[h]].hash
    BY <1>1 DEF ManifestIsRight
  <1> QED BY <1>2

(* Putting a text under its hash keeps the map right.                       *)
LEMMA PutRight ==
  ASSUME NEW q, \A h \in DOMAIN q : HashOf[q[h]] = h,
         NEW hash, NEW text, HashOf[text] = hash
  PROVE  \A h \in DOMAIN Put(q, hash, text) : HashOf[Put(q, hash, text)[h]] = h
  BY DEF Put

(* An admitted hash, with a text of that hash, may be executed.             *)
LEMMA ExecutesRight ==
  ASSUME ManifestIsRight, SafelistRight, NEW s \in Servers, NEW hash, NEW text,
         Admits(s, hash), HashOf[text] = hash, Executes(s, hash, text), UNCHANGED only
  PROVE  RunsWhatWasAsked'
  BY DEF SafelistRight, Admits, Executes, RunsWhatWasAsked

(* A text registered under its own hash may be executed.                    *)
LEMMA RegistersRight ==
  ASSUME ManifestIsRight, KnownRight, SafelistRight, NEW s \in Servers, NEW hash, NEW text,
         Registers(s, hash, text), UNCHANGED <<only, safelist>>
  PROVE  KnownRight' /\ SafelistRight' /\ RunsWhatWasAsked'
  <1>1. RunsWhatWasAsked'
    BY ExecutesRight DEF Registers
  <1>2. SafelistRight'
    BY DEF SafelistRight
  <1>3. KnownRight'
    <2> DEFINE p == Put(known[s], hash, text)
    <2>1. known' = [known EXCEPT ![s] = p]
      BY DEF Registers
    <2>2. \A h \in DOMAIN p : HashOf[p[h]] = h
      BY PutRight DEF KnownRight, Registers
    <2> HIDE DEF p
    <2> QED BY <2>1, <2>2 DEF KnownRight
  <1> QED BY <1>1, <1>2, <1>3

(* The invariant holds in every behaviour.                                  *)
LEMMA RunInvHolds == PersistedSpec => []RunInv
  <1>1. PersistedInit => RunInv
    <2> SUFFICES ASSUME PersistedInit, ManifestIsRight
                 PROVE  KnownRight /\ SafelistRight /\ RunsWhatWasAsked
      BY DEF RunInv
    <2>1. KnownRight
      BY LoadedRight DEF PersistedInit, KnownRight
    <2> QED BY <2>1 DEF PersistedInit, SafelistRight, RunsWhatWasAsked
  <1>2. RunInv /\ [PersistedNext]_persistedVars => RunInv'
    <2> SUFFICES ASSUME ManifestIsRight, KnownRight, SafelistRight, RunsWhatWasAsked,
                        [PersistedNext]_persistedVars
                 PROVE  KnownRight' /\ SafelistRight' /\ RunsWhatWasAsked'
      BY DEF RunInv, ManifestIsRight
    <2>1. ASSUME NEW s \in Servers, Restart(s)
          PROVE  KnownRight' /\ SafelistRight' /\ RunsWhatWasAsked'
      <3>1. PICK q \in Loaded : known' = [known EXCEPT ![s] = q]
        BY <2>1 DEF Restart
      <3>2. KnownRight'
        BY <3>1, LoadedRight DEF KnownRight
      <3> QED BY <2>1, <3>2 DEF Restart, SafelistRight, RunsWhatWasAsked
    <2>2. ASSUME NEW s \in Servers, Clear(s)
          PROVE  KnownRight' /\ SafelistRight' /\ RunsWhatWasAsked'
      BY <2>2 DEF Clear, Nothing, KnownRight, SafelistRight, RunsWhatWasAsked
    <2>3. ASSUME NEW s \in Servers, NEW text \in Texts, Bare(s, text)
          PROVE  KnownRight' /\ SafelistRight' /\ RunsWhatWasAsked'
      BY <2>3 DEF Bare, Executes, KnownRight, SafelistRight, RunsWhatWasAsked
    <2>4. ASSUME NEW c \in Clients, NEW s \in Servers, Retry(c, s)
          PROVE  KnownRight' /\ SafelistRight' /\ RunsWhatWasAsked'
      BY <2>4, RegistersRight DEF Retry
    <2>5. ASSUME NEW c \in Clients, NEW s \in Servers, NEW text \in Texts, Ask(c, s, text)
          PROVE  KnownRight' /\ SafelistRight' /\ RunsWhatWasAsked'
      <3> DEFINE hash == HashOf[text]
      <3>1. KnownRight' /\ SafelistRight'
        BY <2>5 DEF Ask, KnownRight, SafelistRight
      <3>2. CASE hash \in DOMAIN known[s]
        <4>1. HashOf[known[s][hash]] = hash
          BY <3>2 DEF KnownRight
        <4>2. Admits(s, hash) /\ Executes(s, hash, known[s][hash]) /\ UNCHANGED only
          BY <2>5, <3>2 DEF Ask
        <4> QED BY <3>1, <4>1, <4>2, ExecutesRight
      <3>3. CASE hash \notin DOMAIN known[s]
        BY <2>5, <3>1, <3>3 DEF Ask, RunsWhatWasAsked
      <3> QED BY <3>2, <3>3
    <2>6. ASSUME NEW s \in Servers, NEW hash \in Range(HashOf), NEW text \in Texts,
                 Mistake(s, hash, text)
          PROVE  KnownRight' /\ SafelistRight' /\ RunsWhatWasAsked'
      BY <2>6, RegistersRight DEF Mistake
    <2>7. CASE UNCHANGED persistedVars
      BY <2>7 DEF persistedVars, KnownRight, SafelistRight, RunsWhatWasAsked
    <2> QED BY <2>1, <2>2, <2>3, <2>4, <2>5, <2>6, <2>7 DEF PersistedNext
  <1> QED BY <1>1, <1>2, PTL DEF PersistedSpec

(* Whatever is registered, cleared and restarted, a request that gives a    *)
(* hash runs a text of that hash, and on a safelist what runs has a hash of *)
(* the manifest or includes __schema or __type, if the manifest's hashes    *)
(* are right.                                                               *)
THEOREM WhatRunsWasAsked == PersistedSpec => []RunsWhatWasAsked
  <1>1. RunInv => RunsWhatWasAsked
    BY DEF RunInv, RunsWhatWasAsked, ManifestIsRight
  <1> QED BY <1>1, RunInvHolds, PTL

-----------------------------------------------------------------------------
(* RequestLoaders.                                                         *)

Memos == UNION {[ids -> [id : Ids, doc : Nat]] : ids \in SUBSET Ids}
Loader == [open : BOOLEAN, queue : Seq(Ids), memo : Memos, from : [Ids -> Nat]]

(* Versions only grow, so the database is never older than a request; what  *)
(* a request keeps is under its own id and was read after the request began.*)
LoaderRight(loader) ==
    /\ \A i \in Ids : loader.from[i] <= docs[i]
    /\ \A i \in DOMAIN loader.memo :
          loader.memo[i].id = i /\ loader.memo[i].doc >= loader.from[i]

LoaderInv ==
    /\ docs \in [Ids -> Nat]
    /\ loaders \in [Contexts -> Loader]
    /\ \A r \in Contexts : LoaderRight(loaders[r])
    /\ LoadsAreOwnAndFresh

-----------------------------------------------------------------------------
(* The query finds each document that exists, whatever their order.         *)
LEMMA FoundAll ==
  ASSUME NEW ids \in Seq(Ids), NEW found \in Found(ids)
  PROVE  Range(found) = {[id |-> i, doc |-> docs[i]] : i \in {j \in Range(ids) : docs[j] # 0}}
  <1> DEFINE Ones == {j \in Range(ids) : docs[j] # 0}
             Pair == [i \in Ones |-> [id |-> i, doc |-> docs[i]]]
             S == {[id |-> i, doc |-> docs[i]] : i \in Ones}
  <1>1. IsFiniteSet(Range(ids))
    <2>1. ids \in [1 .. Len(ids) -> Range(ids)] /\ Len(ids) \in Nat
      BY DEF Range
    <2>2. ids \in Surjection(1 .. Len(ids), Range(ids))
      BY <2>1 DEF Surjection, Range
    <2>3. IsFiniteSet(1 .. Len(ids))
      BY <2>1, FS_Interval
    <2> QED BY <2>2, <2>3, FS_Surjection
  <1>2. IsFiniteSet(Ones)
    BY <1>1, FS_Subset
  <1>3. Pair \in Surjection(Ones, S)
    BY DEF Surjection
  <1>4. IsFiniteSet(S)
    BY <1>2, <1>3, FS_Surjection
  <1> DEFINE n == Cardinality(S)
  <1>5. n \in Nat
    BY <1>4, FS_CardinalityType
  <1>6. found \in [1 .. n -> S] /\ \A i, j \in 1 .. n : i # j => found[i] # found[j]
    BY Zenon DEF Found, SetToSeqs
  <1>7. found \in Injection(1 .. n, S)
    BY <1>6 DEF Injection, IsInjective
  <1>8. Cardinality(1 .. n) = n
    BY <1>5, FS_Interval
  <1>9. found \in Surjection(1 .. n, S)
    BY <1>4, <1>7, <1>8, FS_Injection
  <1>10. \A t \in S : \E s \in 1 .. n : found[s] = t
    BY <1>6, <1>9, Zenon DEF Surjection
  <1> HIDE DEF S
  <1>11. Range(found) = S
    BY <1>6, <1>10 DEF Range
  <1> QED BY <1>11 DEF S

(* The answers have the ids of the query and the versions of the database.  *)
LEMMA AnswersRight ==
  ASSUME docs \in [Ids -> Nat], NEW ids \in Seq(Ids), NEW found \in Found(ids),
         NEW k \in DOMAIN ids
  PROVE  Matched(ids, found)[k] = [id |-> ids[k], doc |-> docs[ids[k]]]
  <1> DEFINE All == {[id |-> i, doc |-> docs[i]] : i \in {j \in Range(ids) : docs[j] # 0}}
  <1>1. Range(found) = All
    BY FoundAll
  <1>2. ids[k] \in Range(ids)
    BY DEF Range
  <1>3. CASE docs[ids[k]] # 0
    <2>1. [id |-> ids[k], doc |-> docs[ids[k]]] \in Range(found)
      BY <1>1, <1>2, <1>3
    <2>2. \E d \in Range(found) : d.id = ids[k]
      BY <2>1
    <2>3. \A d \in Range(found) : d.id = ids[k] => d = [id |-> ids[k], doc |-> docs[ids[k]]]
      BY <1>1
    <2> QED BY <2>2, <2>3 DEF Matched
  <1>4. CASE docs[ids[k]] = 0
    <2>1. \A d \in Range(found) : d.id # ids[k]
      BY <1>1, <1>4
    <2> QED BY <2>1, <1>4 DEF Matched
  <1> QED BY <1>3, <1>4

-----------------------------------------------------------------------------
LEMMA UnreadIsMemo == Unread \in Memos /\ DOMAIN Unread = {}
  <1>1. Unread \in [{} -> [id : Ids, doc : Nat]]
    BY DEF Unread
  <1> QED BY <1>1 DEF Memos

LEMMA MemosAre ==
  ASSUME NEW memo \in Memos
  PROVE  /\ DOMAIN memo \subseteq Ids
         /\ \A i \in DOMAIN memo : memo[i] \in [id : Ids, doc : Nat]
  BY DEF Memos

(* A loader that changes leaves the others as they are.                     *)
LEMMA OneChanges ==
  ASSUME LoaderInv, NEW r \in Contexts, NEW new \in Loader, LoaderRight(new),
         loaders' = [loaders EXCEPT ![r] = new], UNCHANGED docs
  PROVE  loaders' \in [Contexts -> Loader] /\ \A q \in Contexts : LoaderRight(loaders[q])'
  BY DEF LoaderInv, LoaderRight

(* A loader starts with nothing.                                            *)
LEMMA NewRight ==
  ASSUME docs \in [Ids -> Nat], NEW open \in BOOLEAN
  PROVE  New(open, docs) \in Loader /\ LoaderRight(New(open, docs))
  <1>1. <<>> \in Seq(Ids)
    OBVIOUS
  <1>2. New(open, docs) \in Loader
    BY <1>1, UnreadIsMemo DEF New, Loader
  <1>3. New(open, docs).from = docs /\ New(open, docs).memo = Unread
    BY DEF New
  <1> QED BY <1>2, <1>3, UnreadIsMemo DEF LoaderRight

LEMMA InitRight == LoaderInit => LoaderInv
  <1> SUFFICES ASSUME LoaderInit
               PROVE  LoaderInv
    OBVIOUS
  <1>1. docs \in [Ids -> Nat] /\ \A r \in Contexts : loaders[r] = New(FALSE, docs)
    BY DEF LoaderInit
  <1>2. New(FALSE, docs) \in Loader /\ LoaderRight(New(FALSE, docs))
    BY <1>1, NewRight
  <1> QED BY <1>1, <1>2 DEF LoaderInit, LoaderInv, LoadsAreOwnAndFresh

LEMMA StepRight == LoaderInv /\ [LoaderNext]_loaderVars => LoaderInv'
  <1> SUFFICES ASSUME LoaderInv, [LoaderNext]_loaderVars
               PROVE  LoaderInv'
    OBVIOUS
  <1>0. /\ docs \in [Ids -> Nat] /\ loaders \in [Contexts -> Loader]
        /\ \A r \in Contexts : LoaderRight(loaders[r])
    BY DEF LoaderInv
  <1>1. ASSUME NEW i \in Ids, Write(i)
        PROVE  LoaderInv'
    <2>1. docs' \in [Ids -> Nat] /\ \A j \in Ids : docs'[j] >= docs[j]
      BY <1>0, <1>1 DEF Write
    <2>2. \A r \in Contexts, j \in Ids : loaders[r].from[j] \in Nat
      BY <1>0 DEF Loader
    <2>3. \A r \in Contexts : LoaderRight(loaders[r])'
      BY <1>0, <1>1, <2>1, <2>2 DEF Write, LoaderRight
    <2> QED BY <1>1, <2>1, <2>3 DEF Write, LoadsAreOwnAndFresh, LoaderInv
  <1>2. ASSUME NEW r \in Contexts, Open(r)
        PROVE  LoaderInv'
    <2>1. New(TRUE, docs) \in Loader /\ LoaderRight(New(TRUE, docs))
      BY <1>0, NewRight
    <2>2. loaders' = [loaders EXCEPT ![r] = New(TRUE, docs)] /\ UNCHANGED docs
      BY <1>2 DEF Open
    <2>3. loaders' \in [Contexts -> Loader] /\ \A q \in Contexts : LoaderRight(loaders[q])'
      BY <2>1, <2>2, OneChanges
    <2> QED BY <1>2, <2>3 DEF Open, LoadsAreOwnAndFresh, LoaderInv
  <1>3. ASSUME NEW r \in Contexts, End(r)
        PROVE  LoaderInv'
    <2> DEFINE new == [loaders[r] EXCEPT !.open = FALSE]
    <2>1. /\ new \in Loader
          /\ new.from = loaders[r].from /\ new.memo = loaders[r].memo
      BY <1>0 DEF Loader
    <2>2. loaders' = [loaders EXCEPT ![r] = new] /\ UNCHANGED docs
      BY <1>3 DEF End
    <2> HIDE DEF new
    <2>3. LoaderRight(new)
      BY <1>0, <2>1 DEF LoaderRight
    <2>4. loaders' \in [Contexts -> Loader] /\ \A q \in Contexts : LoaderRight(loaders[q])'
      BY <2>1, <2>2, <2>3, OneChanges
    <2> QED BY <1>3, <2>4 DEF End, LoadsAreOwnAndFresh, LoaderInv
  <1>4. ASSUME NEW r \in Contexts, NEW i \in Ids, Load(r, i)
        PROVE  LoaderInv'
    <2>1. CASE i \in DOMAIN loaders[r].memo
      <3>1. loaded' = [id |-> i, doc |-> loaders[r].memo[i], from |-> loaders[r].from[i]]
        BY <1>4, <2>1 DEF Load, Answer
      <3>2. loaders[r].memo[i].id = i /\ loaders[r].memo[i].doc >= loaders[r].from[i]
        BY <1>0, <2>1 DEF LoaderRight
      <3>3. LoadsAreOwnAndFresh'
        BY <3>1, <3>2 DEF LoadsAreOwnAndFresh
      <3> QED BY <1>0, <1>4, <2>1, <3>3 DEF Load, LoaderInv, LoaderRight
    <2>2. CASE i \notin DOMAIN loaders[r].memo
      <3> DEFINE new == [loaders[r] EXCEPT !.queue = Append(@, i)]
      <3>0. Append(loaders[r].queue, i) \in Seq(Ids)
        BY <1>0 DEF Loader
      <3>1. /\ new \in Loader
            /\ new.from = loaders[r].from /\ new.memo = loaders[r].memo
        BY <1>0, <3>0 DEF Loader
      <3>2. loaders' = [loaders EXCEPT ![r] = new] /\ UNCHANGED docs
        BY <1>4, <2>2 DEF Load
      <3> HIDE DEF new
      <3>3. LoaderRight(new)
        BY <1>0, <3>1 DEF LoaderRight
      <3>4. loaders' \in [Contexts -> Loader] /\ \A q \in Contexts : LoaderRight(loaders[q])'
        BY <3>1, <3>2, <3>3, OneChanges
      <3> QED BY <1>4, <2>2, <3>4 DEF Load, LoadsAreOwnAndFresh, LoaderInv
    <2> QED BY <2>1, <2>2
  <1>5. ASSUME NEW r \in Contexts, Dispatch(r)
        PROVE  LoaderInv'
    <2> DEFINE ids == loaders[r].queue
               old == loaders[r].memo
    <2>1. PICK found \in Found(ids) :
             loaders' = [loaders EXCEPT ![r].queue = <<>>,
                                        ![r].memo = Kept(@, ids, Matched(ids, found))]
      BY <1>5 DEF Dispatch
    <2> DEFINE memo == Kept(old, ids, Matched(ids, found))
               new == [loaders[r] EXCEPT !.queue = <<>>, !.memo = memo]
    <2>2. ids \in Seq(Ids) /\ old \in Memos /\ loaders[r].from \in [Ids -> Nat]
      BY <1>0 DEF Loader
    <2>3. \A i \in Range(ids) : i \in Ids /\ memo[i].id = i /\ memo[i].doc = docs[i]
                                 /\ memo[i] \in [id : Ids, doc : Nat]
      <3> SUFFICES ASSUME NEW i \in Range(ids)
                   PROVE  i \in Ids /\ memo[i].id = i /\ memo[i].doc = docs[i]
                          /\ memo[i] \in [id : Ids, doc : Nat]
        OBVIOUS
      <3>1. PICK k \in DOMAIN ids : k = (CHOOSE l \in DOMAIN ids : ids[l] = i) /\ ids[k] = i
        BY DEF Range
      <3>2. memo[i] = Matched(ids, found)[k]
        BY <3>1 DEF Kept
      <3>3. memo[i] = [id |-> i, doc |-> docs[i]]
        BY <1>0, <2>2, <3>1, <3>2, AnswersRight
      <3>4. i \in Ids
        <4> HIDE DEF ids
        <4> QED BY <2>2, <3>1
      <3> QED BY <1>0, <3>3, <3>4
    <2>4. /\ DOMAIN memo = DOMAIN old \cup Range(ids)
          /\ \A i \in DOMAIN memo : i \notin Range(ids) => memo[i] = old[i]
          /\ memo = [i \in DOMAIN memo |-> memo[i]]
      BY DEF Kept
    <2>5. new.memo = memo /\ new.from = loaders[r].from
      BY <1>0 DEF Loader
    <2>6. new = [loaders[r] EXCEPT !.queue = <<>>, !.memo = memo]
      OBVIOUS
    <2>7. loaders' = [loaders EXCEPT ![r] = new] /\ UNCHANGED docs
      BY <1>0, <1>5, <2>1 DEF Dispatch
    <2> HIDE DEF memo, new
    <2>8. memo \in Memos
      <3>1. DOMAIN memo \subseteq Ids /\ \A i \in DOMAIN memo : memo[i] \in [id : Ids, doc : Nat]
        BY <2>2, <2>3, <2>4, MemosAre
      <3>2. memo \in [DOMAIN memo -> [id : Ids, doc : Nat]]
        BY <2>4, <3>1
      <3> QED BY <3>1, <3>2 DEF Memos
    <2>9. new \in Loader
      <3>0. <<>> \in Seq(Ids)
        OBVIOUS
      <3>1. [loaders[r] EXCEPT !.queue = <<>>] \in Loader
        BY <1>0, <3>0 DEF Loader
      <3> QED BY <2>6, <2>8, <3>1 DEF Loader
    <2>10. LoaderRight(new)
      BY <1>0, <2>2, <2>3, <2>4, <2>5, MemosAre DEF LoaderRight
    <2>11. loaders' \in [Contexts -> Loader] /\ \A q \in Contexts : LoaderRight(loaders[q])'
      BY <2>7, <2>9, <2>10, OneChanges
    <2> QED BY <1>5, <2>11 DEF Dispatch, LoadsAreOwnAndFresh, LoaderInv
  <1>6. CASE UNCHANGED loaderVars
    BY <1>6 DEF loaderVars, LoaderInv, LoaderRight, LoadsAreOwnAndFresh
  <1> QED BY <1>1, <1>2, <1>3, <1>4, <1>5, <1>6 DEF LoaderNext

(* What a loader answers is the document with the id it was asked for, not  *)
(* older than the request, though nothing calls clear and batches come back *)
(* without the documents that do not exist: for any requests and ids.       *)
THEOREM LoadsAnswerTheirOwn == LoaderSpec => []LoadsAreOwnAndFresh
  <1>1. LoaderInv => LoadsAreOwnAndFresh
    BY DEF LoaderInv
  <1> QED BY <1>1, InitRight, StepRight, PTL DEF LoaderSpec
=============================================================================
