------------------------------ MODULE Accounts ------------------------------
(***************************************************************************)
(* Accounts and sessions: backend/handlers/auth.go, middleware/auth.go,    *)
(* the users of storage/db.go and storage/session.go.  Requests run side   *)
(* by side; each transaction of the two databases is one step of its       *)
(* request, and the process may stop between any two.                      *)
(*                                                                         *)
(* Identifiers and tokens are random: the account a request registers and  *)
(* the token of the session it opens are named after the request.          *)
(***************************************************************************)
EXTENDS ClientEvents, FiniteSets

CONSTANTS
    Requests,         \* requests of clients
    Nobody,           \* no account, no token, no name
    UserNames,        \* as typed: [norm, length], what normalizeUsername makes of it and its length
    Passwords,        \* as typed: [core, length, pad], the text, its length and the blanks around it
    LegacyBooks,      \* books and progress from before there were accounts
    SessionDuration,
    LastHour          \* bound: the clock stops there

ASSUME AccountsAssumption ==
    /\ Nobody \notin Requests
    /\ SessionDuration \in Nat /\ LastHour \in Nat
    /\ \A n \in UserNames : n.norm # Nobody /\ n.length \in Nat
    /\ \A p \in Passwords : p.length \in Nat /\ p.pad \in Nat

VARIABLES
    req,       \* a request: what it asks, its step, what it knows, its answer
    users,     \* UsersBucket: account -> name and password
    usernames, \* UsernameIndex: normalized name -> account
    owner,     \* owner of each legacy book
    sessions,  \* SessionsBucket: token -> account and expiry
    hour,      \* time.Now()
    past       \* history: tokens issued, tokens signed out, a claim was interrupted

accountVars == <<req, users, usernames, owner, sessions, hour, past, events>>

MinPasswordLength == 8
MaxPasswordLength == 72
MaxUserNameLength == 50

Names == {n.norm : n \in UserNames}
NoUser == [name |-> Nobody, core |-> Nobody]
NoSession == [user |-> Nobody, expires |-> 0]
Idle == [op |-> "none", step |-> "idle", name |-> Nobody, core |-> Nobody, pad |-> 0, user |-> Nobody,
         token |-> Nobody, first |-> FALSE, seen |-> {}, stale |-> FALSE, answer |-> "none"]
ListUsers == {u \in Requests : users[u] # NoUser}
Expired(s) == hour > s.expires

AccountsInit ==
    /\ req = [r \in Requests |-> Idle]
    /\ users = [r \in Requests |-> NoUser]
    /\ usernames = [n \in Names |-> Nobody]
    /\ owner = [b \in LegacyBooks |-> Nobody]
    /\ sessions = [t \in Requests |-> NoSession]
    /\ hour = 0
    /\ past = [issued |-> [t \in Requests |-> NoSession], ended |-> {}, interrupted |-> FALSE]

storeVars == <<users, usernames, owner, sessions>>

At(r, step) == req[r].step = step
Sets(r, q) == req' = [req EXCEPT ![r] = q]
Answered(q, a) == [q EXCEPT !.step = "done", !.answer = a]
Asks(op, n, p) == [Idle EXCEPT !.op = op, !.name = n.norm, !.core = p.core, !.pad = p.pad]

-----------------------------------------------------------------------------
(* Register: the name and the password count without the blanks around them. *)
Register(r, n, p) ==
    LET q == Asks("register", n, p)
        valid == /\ n.length \in 1 .. MaxUserNameLength
                 /\ p.length - p.pad \in MinPasswordLength .. MaxPasswordLength
    IN  /\ At(r, "idle")
        /\ Sets(r, IF valid THEN [q EXCEPT !.step = "lookup"] ELSE Answered(q, "invalid"))
        /\ UNCHANGED <<storeVars, hour, past>>

GetUserByUsername(n) ==
    IF usernames[n] # Nobody /\ usernames[n] \in ListUsers THEN usernames[n] ELSE Nobody

RegisterLooks(r) ==
    /\ At(r, "lookup")
    /\ Sets(r, IF GetUserByUsername(req[r].name) # Nobody THEN Answered(req[r], "conflict")
               ELSE [req[r] EXCEPT !.step = "list", !.seen = ListUsers])
    /\ UNCHANGED <<storeVars, hour, past>>

(* ListUsers, then HashPassword: whether this is the first account is settled here. *)
RegisterLists(r) ==
    /\ At(r, "list")
    /\ Sets(r, [req[r] EXCEPT !.step = "save", !.first = (ListUsers = {})])
    /\ UNCHANGED <<storeVars, hour, past>>

(* SaveUser checks nothing: the later of two registrations takes the name. *)
SaveUser(r) ==
    /\ At(r, "save")
    /\ users' = [users EXCEPT ![r] = [name |-> req[r].name, core |-> req[r].core]]
    /\ usernames' = [usernames EXCEPT ![req[r].name] = r]
    /\ Sets(r, [req[r] EXCEPT !.step = IF req[r].first THEN "claim" ELSE "session", !.user = r])
    /\ UNCHANGED <<owner, sessions, hour, past>>

\* Mutant: what has an owner is given away too.
AssignDataToUser(r) ==
    /\ At(r, "claim")
    /\ owner' = [b \in LegacyBooks |-> r]
    /\ Sets(r, [req[r] EXCEPT !.step = "session"])
    /\ UNCHANGED <<users, usernames, sessions, hour, past>>

AssignUnownedDataToUser(r) ==
    /\ At(r, "claim")
    /\ owner' = [b \in LegacyBooks |-> IF owner[b] = Nobody THEN r ELSE owner[b]]
    /\ Sets(r, [req[r] EXCEPT !.step = "session"])
    /\ UNCHANGED <<users, usernames, sessions, hour, past>>

(* createSessionResponse *)
SaveSession(r) ==
    LET s == [user |-> req[r].user, expires |-> hour + SessionDuration]
    IN  /\ At(r, "session")
        /\ sessions' = [sessions EXCEPT ![r] = s]
        /\ past' = [past EXCEPT !.issued[r] = s]
        /\ Sets(r, Answered(req[r], "ok"))
        /\ UNCHANGED <<users, usernames, owner, hour>>

-----------------------------------------------------------------------------
(* Login takes the password as it is typed, blanks included. *)
Login(r, n, p) ==
    LET q == Asks("login", n, p)
    IN  /\ At(r, "idle")
        /\ Sets(r, IF n.length = 0 THEN Answered(q, "invalid")
                   ELSE IF p.length > MaxPasswordLength THEN Answered(q, "denied")
                   ELSE [q EXCEPT !.step = "check"])
        /\ UNCHANGED <<storeVars, hour, past>>

CheckPassword(u, core, pad) == users[u].core = core /\ pad = 0

LoginChecks(r) ==
    LET u == GetUserByUsername(req[r].name)
    IN  /\ At(r, "check")
        /\ Sets(r, IF u = Nobody \/ ~CheckPassword(u, req[r].core, req[r].pad) THEN Answered(req[r], "denied")
                   ELSE [req[r] EXCEPT !.step = "session", !.user = u])
        /\ UNCHANGED <<storeVars, hour, past>>

(* A client presents a token it was given, or none that is known. *)
Known == {t \in Requests : past.issued[t] # NoSession} \cup {Nobody}

Logout(r, t) ==
    /\ At(r, "idle") /\ t \in Known
    /\ Sets(r, Answered([Idle EXCEPT !.op = "logout", !.token = t], IF t = Nobody THEN "invalid" ELSE "ok"))
    /\ sessions' = [k \in Requests |-> IF k = t THEN NoSession ELSE sessions[k]]
    /\ past' = [past EXCEPT !.ended = @ \cup ({t} \ {Nobody})]
    /\ UNCHANGED <<users, usernames, owner, hour>>

LogoutFails(r, t) ==
    /\ At(r, "idle") /\ t \in Known \ {Nobody}
    /\ Sets(r, Answered([Idle EXCEPT !.op = "logout", !.token = t], "error"))
    /\ UNCHANGED <<storeVars, hour, past>>

(* AuthRequired, before any handler: the session first, then its account.  *)
(* A token is stale if it was signed out or had expired before.            *)
AuthRequired(r, t) ==
    LET q == [Idle EXCEPT !.op = "enter", !.token = t]
        stale == t # Nobody /\ (t \in past.ended \/ Expired(past.issued[t]))
    IN  /\ At(r, "idle") /\ t \in Known
        /\ Sets(r, IF t = Nobody THEN Answered(q, "denied") ELSE [q EXCEPT !.step = "token", !.stale = stale])
        /\ UNCHANGED <<storeVars, hour, past>>

\* Mutant: the expiry of a session is left to the hourly cleaner.
GetSessionUnchecked(r) ==
    LET s == sessions[req[r].token]
    IN  /\ At(r, "token")
        /\ Sets(r, IF s = NoSession THEN Answered(req[r], "denied")
                   ELSE [req[r] EXCEPT !.step = "account", !.user = s.user])
        /\ UNCHANGED <<storeVars, hour, past>>

GetSession(r) ==
    LET s == sessions[req[r].token]
    IN  /\ At(r, "token")
        /\ Sets(r, IF s = NoSession \/ Expired(s) THEN Answered(req[r], "denied")
                   ELSE [req[r] EXCEPT !.step = "account", !.user = s.user])
        /\ UNCHANGED <<storeVars, hour, past>>

GetUserBySessionToken(r) ==
    /\ At(r, "account")
    /\ Sets(r, Answered(req[r], IF req[r].user \in ListUsers THEN "ok" ELSE "denied"))
    /\ UNCHANGED <<storeVars, hour, past>>

-----------------------------------------------------------------------------
(* A transaction fails: its request answers with an error and goes no further. *)
StoreFails(r) ==
    /\ req[r].step \notin {"idle", "done"}
    /\ Sets(r, Answered(req[r], "error"))
    /\ past' = [past EXCEPT !.interrupted = @ \/ At(r, "claim")]
    /\ UNCHANGED <<storeVars, hour>>

(* The process stops: requests are lost, both databases stay. *)
Crash ==
    /\ \E r \in Requests : req[r].step \notin {"idle", "done"}
    /\ req' = [r \in Requests |-> IF req[r].step \in {"idle", "done"} THEN req[r] ELSE Answered(req[r], "lost")]
    /\ past' = [past EXCEPT !.interrupted = @ \/ \E r \in Requests : At(r, "claim")]
    /\ UNCHANGED <<storeVars, hour>>

(* The cleaner of main.go, when the process starts and every hour. *)
CleanExpiredSessions ==
    /\ sessions' = [t \in Requests |-> IF Expired(sessions[t]) THEN NoSession ELSE sessions[t]]
    /\ UNCHANGED <<req, users, usernames, owner, hour, past>>

HourPasses ==
    /\ hour < LastHour
    /\ hour' = hour + 1
    /\ UNCHANGED <<req, storeVars, past>>

AccountsNext ==
    \/ External /\ \E r \in Requests, n \in UserNames, p \in Passwords : Register(r, n, p) \/ Login(r, n, p)
    \/ External /\ \E r \in Requests, t \in Requests \cup {Nobody} : Logout(r, t) \/ LogoutFails(r, t) \/ AuthRequired(r, t)
    \/ Internal /\ \E r \in Requests :
         \/ RegisterLooks(r) \/ RegisterLists(r) \/ SaveUser(r) \/ AssignUnownedDataToUser(r) \/ SaveSession(r)
         \/ LoginChecks(r) \/ GetSession(r) \/ GetUserBySessionToken(r)
    \/ External /\ ((\E r \in Requests : StoreFails(r)) \/ Crash)
    \/ Internal /\ (CleanExpiredSessions \/ HourPasses)

(***************************************************************************)
(* Properties                                                              *)
(***************************************************************************)

(* Every account is listed under a name, and every name leads to an account *)
(* that has it: the index and the records change together.                  *)
NamesLeadHome ==
    /\ \A u \in ListUsers : usernames[users[u].name] # Nobody
    /\ \A n \in Names : usernames[n] # Nobody => usernames[n] \in ListUsers /\ users[usernames[n]].name = n

(* A session is opened only for an account whose name and password were    *)
(* given, and lasts until it is signed out or expires: neither somebody    *)
(* else's sign-out, the cleaner nor a restart ends it early.               *)
SessionExact(t, s) ==
    /\ sessions[t] \in {NoSession, s}
    /\ s # NoSession => /\ s.user \in ListUsers /\ req[t].answer = "ok"
                        /\ users[s.user] = [name |-> req[t].name, core |-> req[t].core]
                        /\ IF t \in past.ended THEN sessions[t] = NoSession ELSE Expired(s) \/ sessions[t] = s

SessionsExact == \A t \in Requests : SessionExact(t, past.issued[t])

(* A request that passes acts for the account its token was issued to, and *)
(* its token was neither signed out nor expired when it came: what happens *)
(* between the two reads never lets an older token in.                     *)
AdmittedRightly ==
    \A r \in Requests : req[r].op = "enter" /\ req[r].answer = "ok" =>
        ~req[r].stale /\ req[r].user = past.issued[req[r].token].user

(* Data from before the accounts goes to an account that exists, and stays *)
(* behind only while its claim is under way or if that was interrupted.    *)
LegacyClaimed ==
    /\ \A b \in LegacyBooks : owner[b] \in ListUsers \cup {Nobody}
    /\ (\E b \in LegacyBooks : owner[b] = Nobody) /\ ListUsers # {} =>
         past.interrupted \/ \E r \in Requests : At(r, "claim")

(* A name changes hands only between registrations that overlapped, and    *)
(* data never changes its owner.                                           *)
NothingTaken ==
    [][/\ \A n \in Names : usernames[n] \notin {Nobody, usernames'[n]} =>
              usernames[n] \notin req[usernames'[n]].seen
       /\ \A b \in LegacyBooks : owner[b] # Nobody => owner'[b] = owner[b]]_accountVars

AccountsSafe == [](NamesLeadHome /\ SessionsExact /\ AdmittedRightly /\ LegacyClaimed) /\ NothingTaken
=============================================================================
