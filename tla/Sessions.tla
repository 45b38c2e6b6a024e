------------------------------ MODULE Sessions ------------------------------
(***************************************************************************)
(* Whom a request is taken to come from: authMiddleware.js, with users and *)
(* static app tokens remembered in Redis through CacheController.js.  The  *)
(* middleware waits for the database and for Redis between its steps; what *)
(* it writes to Redis it does not wait for.  One user with one token, and  *)
(* one static app token; verifyToken is taken to accept both.              *)
(***************************************************************************)
EXTENDS Common, Naturals, Sequences

CONSTANTS Requests,
          MaxAge,     \* how long Redis keeps a user
          AppAge,     \* how long it keeps an app token
          MaxDelay,   \* the longest time between reading and writing Redis
          MaxTime, MaxFaults,
          MaxChanges  \* of the user and the app token in the database

VARIABLES now,
          status,     \* the user's status in the database, "gone" without one
          listed,     \* the app token is in the database
          black,      \* the user token is blacklisted
          last,       \* when a status, or the app token, was last in the database
          held,       \* Redis: [user, app], each None or [is, left]
          writes,     \* values on their way to Redis: [key, is, at]
          calls,      \* the requests
          failures,   \* reads of the database that failed
          changes

database == <<now, status, listed, black, last, changes>>
sessionVars == <<database, held, writes, calls, failures>>

Statuses == {"active", "blocked", "gone"}
Idle == [at |-> "idle", began |-> FALSE, valid |-> FALSE, app |-> FALSE, user |-> None,
         lag |-> 0, appLag |-> 0]

SessionInit ==
    /\ now = 0 /\ status = "active" /\ listed = TRUE /\ black = FALSE
    /\ last = [s \in Statuses \cup {"listed"} |-> 0]
    /\ held = [user |-> None, app |-> None] /\ writes = {}
    /\ calls = [r \in Requests |-> Idle] /\ failures = 0 /\ changes = 0

-----------------------------------------------------------------------------
(* The world: time, other requests that change the database, Redis.         *)

Present == {status} \cup (IF listed THEN {"listed"} ELSE {})
Seen(t) == [s \in DOMAIN last |-> IF s \in Present THEN t ELSE last[s]]

Aged(entry) ==
    IF entry = None \/ entry.left = 1 THEN None ELSE [entry EXCEPT !.left = @ - 1]

Tick ==
    /\ now < MaxTime /\ \A w \in writes : now - w.at < MaxDelay
    /\ now' = now + 1
    /\ last' = Seen(now')
    /\ held' = [k \in DOMAIN held |-> Aged(held[k])]
    /\ UNCHANGED <<status, listed, black, changes, writes, calls, failures>>

Change == changes < MaxChanges /\ changes' = changes + 1

ChangeStatus(s) ==
    /\ s # status /\ status' = s /\ Change
    /\ last' = [Seen(now) EXCEPT ![s] = now]
    /\ UNCHANGED <<now, listed, black, held, writes, calls, failures>>

Unlist ==
    /\ listed /\ listed' = FALSE /\ Change /\ last' = Seen(now)
    /\ UNCHANGED <<now, status, black, held, writes, calls, failures>>

Blacklist ==
    /\ ~black /\ black' = TRUE
    /\ UNCHANGED <<now, status, listed, last, changes, held, writes, calls, failures>>

(* Redis drops what it holds: a restart, or memory running out.             *)
Evict ==
    /\ held' = [user |-> None, app |-> None] /\ held' # held
    /\ UNCHANGED <<database, writes, calls, failures>>

(* Variant: what is written never expires. *)
StoredForGood(w) == [held EXCEPT ![w.key] = [is |-> w.is, left |-> MaxTime + 1]]

(* CacheController.set, with the ages of authMiddleware.                    *)
Stored(w) ==
    [held EXCEPT ![w.key] =
        [is |-> w.is, left |-> IF w.key = "user" THEN MaxAge ELSE AppAge]]

Land(w) ==
    /\ writes' = writes \ {w}
    /\ held' = Stored(w)
    /\ UNCHANGED <<database, calls, failures>>

-----------------------------------------------------------------------------
Begin(r) ==
    /\ calls[r].at = "idle" /\ \A q \in Requests : q < r => calls[q].at # "idle"
    /\ calls' = [calls EXCEPT ![r] = [Idle EXCEPT !.at = "blacklist", !.began = black]]
    /\ UNCHANGED <<database, held, writes, failures>>

(* An error of the database is the result of fetchOne.                      *)
Broken == failures < MaxFaults /\ failures' = failures + 1
Sound == UNCHANGED failures

(* validateForBlackListedToken: only a record with the token invalidates.   *)
CheckBlacklist(r) ==
    /\ calls[r].at = "blacklist"
    /\ \/ Sound /\ calls' = [calls EXCEPT ![r].at = "app", ![r].valid = ~black]
       \/ Broken /\ calls' = [calls EXCEPT ![r].at = "app", ![r].valid = TRUE]
    /\ UNCHANGED <<database, held, writes>>

AppKnown(r, lag) == [calls EXCEPT ![r].at = "user", ![r].app = TRUE, ![r].appLag = lag]

(* verifyIfStaticTokenIsValidOrNot: Redis first ...                         *)
LookUpApp(r) ==
    /\ calls[r].at = "app"
    /\ calls' = IF held.app # None THEN AppKnown(r, now - last["listed"])
                ELSE [calls EXCEPT ![r].at = "app read"]
    /\ UNCHANGED <<database, held, writes, failures>>

(* ... then the database; whatever it answers is remembered, errors too.    *)
ReadApp(r) ==
    /\ calls[r].at = "app read"
    /\ \/ /\ Sound /\ ~listed
          /\ calls' = [calls EXCEPT ![r].at = "user"]
          /\ UNCHANGED writes
       \/ /\ (Sound /\ listed) \/ Broken
          /\ calls' = AppKnown(r, now - last["listed"])
          /\ writes' = writes \cup {[key |-> "app", is |-> "listed", at |-> now]}
    /\ UNCHANGED <<database, held>>

(* The status with how long ago it last was the user's.                     *)
Answered(r, s) ==
    [calls EXCEPT ![r].at = "done", ![r].user = s,
                  ![r].lag = IF s \in Statuses THEN now - last[s] ELSE 0]

(* extractAndUpdateUserTokenInfoInRequest and handleUserToken.              *)
LookUpUser(r) ==
    /\ calls[r].at = "user"
    /\ calls' = CASE ~calls[r].valid -> [calls EXCEPT ![r].at = "done"]
                  [] calls[r].valid /\ held.user # None -> Answered(r, held.user.is)
                  [] OTHER -> [calls EXCEPT ![r].at = "user read"]
    /\ UNCHANGED <<database, held, writes, failures>>

(* A user who is gone, and an error, leave what the token says; what has no *)
(* id is written to Redis but never used.                                   *)
ReadUser(r) ==
    /\ calls[r].at = "user read"
    /\ \/ /\ Sound /\ status # "gone"
          /\ calls' = Answered(r, status)
          /\ writes' = writes \cup {[key |-> "user", is |-> status, at |-> now]}
       \/ /\ (Sound /\ status = "gone") \/ Broken
          /\ calls' = Answered(r, "as the token says")
          /\ UNCHANGED writes
    /\ UNCHANGED <<database, held>>

SessionNext ==
    \/ Tick \/ Unlist \/ Blacklist \/ Evict
    \/ \E s \in Statuses : ChangeStatus(s)
    \/ \E w \in writes : Land(w)
    \/ \E r \in Requests :
          \/ Begin(r) \/ CheckBlacklist(r) \/ LookUpApp(r) \/ ReadApp(r)
          \/ LookUpUser(r) \/ ReadUser(r)

SessionSpec == SessionInit /\ [][SessionNext]_sessionVars

-----------------------------------------------------------------------------
(* While no read of the database fails: a request that began after its      *)
(* token was blacklisted has no user; and the status a request has, or the  *)
(* validity of its app token, was true in the database at most as long ago  *)
(* as Redis may keep it and a write may take to reach Redis - although      *)
(* nothing in the code ever removes an entry when its record changes.       *)
SessionIsCurrent ==
    failures = 0 =>
        \A r \in Requests :
            /\ calls[r].began => calls[r].user = None
            /\ calls[r].lag <= MaxAge + MaxDelay
            /\ calls[r].appLag <= AppAge + MaxDelay
=============================================================================
