----------------------------- MODULE DeviceLogin -----------------------------
(***************************************************************************)
(* `infernet login`: the device-code flow.                                   *)
(*                                                                           *)
(* The command line makes a row of cli_sessions and polls its code; a user   *)
(* who is signed in on the web opens the link, and that page writes the      *)
(* user into the row; the next poll mints a bearer token and marks the row   *)
(* consumed.  The page and the poll both read the row, wait for something    *)
(* else, and then update it without looking again.  The token goes into a    *)
(* config file that other commands rewrite as a whole.                       *)
(***************************************************************************)
EXTENDS Integers, Sequences

CONSTANTS
    Users,      \* accounts
    MaxLogins,  \* `infernet login` processes of a machine, a session each (bound)
    MaxPolls,   \* poll requests handled at the same time (bound)
    MaxEdits,   \* other commands that edit the config (bound)
    MaxSlips,   \* faults that may happen in a behaviour (bound)
    None

VARIABLES
    web,       \* the browser of a user
    row,       \* a row of cli_sessions
    visit,     \* the page /auth/cli/<code> a user's browser is waiting for
    poll,      \* a poll request in the control plane
    cli,       \* an `infernet login` process
    cliConfig,    \* config.json of the machine: who is signed in, and the rest
    minted,    \* history: the bearer tokens issued for a session
    crossed,   \* history: sessions that two pages were writing at a time
    overlap,   \* history: sessions that two polls were answering at a time
    dropped,   \* history: sessions whose token did not reach the command line
    slips

loginVars == <<web, row, visit, poll, cli, cliConfig, minted, crossed, overlap,
               dropped, slips>>

Logins == 1..MaxLogins
Polls == 1..MaxPolls

NoPoll == [session |-> None, user |-> None]
LoginEnds == {"token", "consumed", "expired", "failed", "killed"}

ASSUME LoginAssumption ==
    /\ MaxLogins \in Nat /\ MaxPolls \in Nat /\ MaxEdits \in Nat /\ MaxSlips \in Nat
    /\ None \notin Users \cup Nat \cup LoginEnds

LoginTypeOK ==
    /\ web \in [Users -> {"out", "mailed", "update", "in"}]
    /\ row \in [Logins -> [made : BOOLEAN, user : Users \cup {None},
                           consumed : BOOLEAN, expired : BOOLEAN]]
    /\ visit \in [Users -> Logins \cup {None}]
    /\ poll \in [Polls -> [session : Logins \cup {None}, user : Users \cup {None}]]
    /\ cli \in [Logins -> [at : {"idle", "waiting", "asking", "saving", "ended"},
                           call : Polls \cup {None}, end : LoginEnds \cup {None},
                           token : Users \cup {None}, rest : 0..MaxEdits]]
    /\ cliConfig \in [user : Users \cup {None}, rest : 0..MaxEdits]
    /\ minted \in [Logins -> Seq(Users)]
    /\ {crossed, overlap, dropped} \subseteq SUBSET Logins
    /\ slips \in 0..MaxSlips

LoginInit ==
    /\ web = [u \in Users |-> "out"]
    /\ row = [s \in Logins |-> [made |-> FALSE, user |-> None,
                                consumed |-> FALSE, expired |-> FALSE]]
    /\ visit = [u \in Users |-> None]
    /\ poll = [h \in Polls |-> NoPoll]
    /\ cli = [s \in Logins |-> [at |-> "idle", call |-> None, end |-> None,
                                token |-> None, rest |-> 0]]
    /\ cliConfig = [user |-> None, rest |-> 0]
    /\ minted = [s \in Logins |-> << >>]
    /\ crossed = {} /\ overlap = {} /\ dropped = {}
    /\ slips = 0

histories == <<minted, crossed, overlap, dropped>>

-----------------------------------------------------------------------------
(* The web session of a user (routes under /api/auth).                       *)

Browses(u, from, to) ==
    /\ web[u] \in from
    /\ web' = [web EXCEPT ![u] = to]
    /\ UNCHANGED <<row, visit, poll, cli, cliConfig, histories, slips>>

\* login with a password.  The answer leads to /dashboard, wherever the user
\* came from: the parameter `next` of the login page is not read.
SignIn(u) == Browses(u, {"out", "mailed", "update"}, "in")

\* login without a password, or signup: a mail with a link.
MailLink(u) == Browses(u, {"out", "update"}, "mailed")
SignUp(u) == Browses(u, {"out"}, "mailed")

\* callback: the code of the mail is exchanged for a session.
Callback(u) == Browses(u, {"mailed"}, "in")

\* reset-password: the mail leads to /auth/update-password, which shows its form
\* to everyone; without a session the new password is refused.
ResetPassword(u) == Browses(u, {"out"}, "update")
UpdatePassword(u) == Browses(u, {"update"}, "out")

Logout(u) == Browses(u, {"in"}, "out")

-----------------------------------------------------------------------------
(* The page /auth/cli/<code>.                                                *)

\* A user who is signed in opens the link; the row is there, alive and free.
\* (Otherwise the page only says so, or sends the user to the login page.)
PageReads(u, s) ==
    /\ web[u] = "in" /\ visit[u] = None
    /\ row[s].made /\ ~row[s].expired /\ ~row[s].consumed /\ row[s].user = None
    /\ visit' = [visit EXCEPT ![u] = s]
    /\ crossed' = IF \E v \in Users : visit[v] = s THEN crossed \cup {s} ELSE crossed
    /\ UNCHANGED <<web, row, poll, cli, cliConfig, minted, overlap, dropped, slips>>

\* The update names the code and nothing else.
PageAuthorizes(u) ==
    /\ visit[u] # None
    /\ row' = [row EXCEPT ![visit[u]].user = u]
    /\ visit' = [visit EXCEPT ![u] = None]
    /\ UNCHANGED <<web, poll, cli, cliConfig, histories, slips>>

-----------------------------------------------------------------------------
(* The command line and its polls.                                           *)

\* Sessions are numbered as they are made.
Next1(s) == \A q \in Logins : cli[q].at = "idle" <=> q >= s

\* The config is read, the row inserted, the code answered.
Start(s) ==
    /\ Next1(s)
    /\ row' = [row EXCEPT ![s].made = TRUE]
    /\ cli' = [cli EXCEPT ![s].at = "waiting", ![s].rest = cliConfig.rest]
    /\ UNCHANGED <<web, visit, poll, cliConfig, histories, slips>>

\* The insert fails, or its answer is lost and the row stays.
StartFails(s) ==
    /\ Next1(s)
    /\ \E made \in BOOLEAN : row' = [row EXCEPT ![s].made = made]
    /\ cli' = [cli EXCEPT ![s].at = "ended", ![s].end = "failed"]
    /\ UNCHANGED <<web, visit, poll, cliConfig, histories, slips>>

\* A poll finds the row expired or consumed.  (It finds it pending: nothing.)
PollRefused(s) ==
    /\ cli[s].at = "waiting"
    /\ row[s].expired \/ row[s].consumed
    /\ cli' = [cli EXCEPT ![s].at = "ended",
                          ![s].end = IF row[s].expired THEN "expired" ELSE "consumed"]
    /\ UNCHANGED <<web, row, visit, poll, cliConfig, histories, slips>>

\* A poll finds the row authorized, and looks its user up.
PollReads(s, h) ==
    /\ cli[s].at = "waiting"
    /\ poll[h] = NoPoll
    /\ \A g \in 1..h - 1 : poll[g] # NoPoll
    /\ row[s].user # None /\ ~row[s].expired /\ ~row[s].consumed
    /\ poll' = [poll EXCEPT ![h] = [session |-> s, user |-> row[s].user]]
    /\ cli' = [cli EXCEPT ![s].at = "asking", ![s].call = h]
    /\ overlap' = IF \E g \in Polls : poll[g].session = s THEN overlap \cup {s}
                  ELSE overlap
    /\ UNCHANGED <<web, row, visit, cliConfig, minted, crossed, dropped, slips>>

\* Who waits for the answer of a poll.
Listens(h) == {s \in Logins : cli[s].at = "asking" /\ cli[s].call = h}

\* The answer of poll h reaches whoever waits for it.
Answered(h, user) ==
    cli' = [s \in Logins |->
              IF s \notin Listens(h) THEN cli[s]
              ELSE [cli[s] EXCEPT !.at = IF user = None THEN "waiting" ELSE "saving",
                                  !.call = None, !.token = user]]

\* Mutation: the row is not marked.
MintLeavesRow(h) ==
    LET s == poll[h].session
        u == poll[h].user IN
    /\ s # None
    /\ minted' = [minted EXCEPT ![s] = Append(@, u)]
    /\ Answered(h, u)
    /\ dropped' = IF Listens(h) = {} THEN dropped \cup {s} ELSE dropped
    /\ poll' = [poll EXCEPT ![h] = NoPoll]
    /\ UNCHANGED <<web, row, visit, cliConfig, crossed, overlap, slips>>

\* issueBearer, the update of the row by its code, the answer.
Mint(h) ==
    LET s == poll[h].session
        u == poll[h].user IN
    /\ s # None
    /\ minted' = [minted EXCEPT ![s] = Append(@, u)]
    /\ row' = [row EXCEPT ![s].consumed = TRUE]
    /\ Answered(h, u)
    /\ dropped' = IF Listens(h) = {} THEN dropped \cup {s} ELSE dropped
    /\ poll' = [poll EXCEPT ![h] = NoPoll]
    /\ UNCHANGED <<web, visit, cliConfig, crossed, overlap, slips>>

\* saveAuth writes the token into the config that was read at the start.  The
\* machine's key, if any, is then linked (SignedLinks); a failure changes nothing.
SaveAuth(s) ==
    /\ cli[s].at = "saving"
    /\ cliConfig' = [user |-> cli[s].token, rest |-> cli[s].rest]
    /\ cli' = [cli EXCEPT ![s].at = "ended", ![s].end = "token"]
    /\ UNCHANGED <<web, row, visit, poll, histories, slips>>

-----------------------------------------------------------------------------
(* Other commands on the machine, time, and faults.                          *)

\* init, setup, login --url: read and written in one go.
EditCliConfig ==
    /\ cliConfig.rest < MaxEdits
    /\ cliConfig' = [cliConfig EXCEPT !.rest = @ + 1]
    /\ UNCHANGED <<web, row, visit, poll, cli, histories, slips>>

\* login --logout.
ForgetAuth ==
    /\ cliConfig.user # None
    /\ cliConfig' = [cliConfig EXCEPT !.user = None]
    /\ UNCHANGED <<web, row, visit, poll, cli, histories, slips>>

\* login --token: a token of some user, made elsewhere; it is not verified.
PasteToken ==
    /\ \E u \in Users : cliConfig' = [cliConfig EXCEPT !.user = u]
    /\ UNCHANGED <<web, row, visit, poll, cli, histories, slips>>

\* Ten minutes are over.  The command line began to count after the row was made.
Expire(s) ==
    /\ row[s].made /\ ~row[s].expired
    /\ row' = [row EXCEPT ![s].expired = TRUE]
    /\ UNCHANGED <<web, visit, poll, cli, cliConfig, histories, slips>>

Slip ==
    /\ slips < MaxSlips
    /\ slips' = slips + 1

\* The connection of a poll breaks; the handler runs on.
ConnectionBreaks(s) ==
    /\ Slip
    /\ cli[s].at = "asking"
    /\ cli' = [cli EXCEPT ![s].at = "waiting", ![s].call = None]
    /\ UNCHANGED <<web, row, visit, poll, cliConfig, histories>>

\* Mutation: the loop ends on the first answer that is not a 2xx.
PollGivesUp(h) ==
    /\ Slip
    /\ poll[h] # NoPoll
    /\ cli' = [s \in Logins |->
                 IF s \in Listens(h) THEN [cli[s] EXCEPT !.at = "ended", !.end = "failed"]
                 ELSE cli[s]]
    /\ poll' = [poll EXCEPT ![h] = NoPoll]
    /\ UNCHANGED <<web, row, visit, cliConfig, histories>>

\* The user is not found, or the handler dies: not a 2xx, the poll is repeated.
PollFails(h) ==
    /\ Slip
    /\ poll[h] # NoPoll
    /\ Answered(h, None)
    /\ poll' = [poll EXCEPT ![h] = NoPoll]
    /\ UNCHANGED <<web, row, visit, cliConfig, histories>>

\* The command is interrupted.
InterruptLogin(s) ==
    /\ Slip
    /\ cli[s].at \in {"waiting", "asking", "saving"}
    /\ cli' = [cli EXCEPT ![s].at = "ended", ![s].end = "killed", ![s].call = None]
    /\ UNCHANGED <<web, row, visit, poll, cliConfig, histories>>

-----------------------------------------------------------------------------
Polling(s) == PollRefused(s) \/ \E h \in Polls : PollReads(s, h)

LoginNext ==
    \/ \E u \in Users :
         \/ SignIn(u) \/ MailLink(u) \/ SignUp(u) \/ Callback(u)
         \/ ResetPassword(u) \/ UpdatePassword(u) \/ Logout(u)
         \/ PageAuthorizes(u)
         \/ \E s \in Logins : PageReads(u, s)
    \/ \E s \in Logins :
         \/ Start(s) \/ StartFails(s) \/ Polling(s) \/ SaveAuth(s)
         \/ Expire(s) \/ ConnectionBreaks(s) \/ InterruptLogin(s)
    \/ \E h \in Polls : Mint(h) \/ PollFails(h)
    \/ EditCliConfig \/ ForgetAuth \/ PasteToken

LoginSpec == LoginInit /\ [][LoginNext]_loginVars

\* The loop polls every two seconds; a handler that runs comes to its end.
LoginFairness ==
    /\ \A s \in Logins : WF_loginVars(Polling(s)) /\ WF_loginVars(SaveAuth(s))
    /\ \A h \in Polls : WF_loginVars(Mint(h))

LoginFairSpec == LoginSpec /\ LoginFairness

-----------------------------------------------------------------------------
(* Properties.                                                               *)

(***************************************************************************)
(* The token that a login saves is of a user whose page wrote the row, and   *)
(* every token of a session of the user the row names, unless two pages      *)
(* wrote the row at a time.  A session has a second token only if two        *)
(* polls were answered at a time, which takes a connection that broke (the   *)
(* row is consumed "atomically-ish", poll route, line 51).                   *)
(***************************************************************************)
TokenIsTheUsers ==
    \A s \in Logins : LET Minted == {minted[s][n] : n \in DOMAIN minted[s]} IN
        /\ cli[s].token # None => cli[s].token \in Minted
        /\ s \notin crossed => Minted \subseteq {row[s].user}
        /\ Len(minted[s]) > 1 => s \in overlap

(***************************************************************************)
(* The command line is told "already consumed" only when a token of its      *)
(* session was minted for a poll it no longer waited for: a row is not       *)
(* consumed and the token withheld.  (The user has to log in again.)         *)
(***************************************************************************)
ConsumedIsDropped ==
    \A s \in Logins :
        /\ cli[s].end = "consumed" => s \in dropped
        /\ row[s].consumed => s \in dropped \/ cli[s].token # None

(***************************************************************************)
(* What other commands wrote into the config survives a login, unless they   *)
(* wrote it while that login was waiting: the edits are counted, and the     *)
(* count goes back only when the config that is saved was read earlier.      *)
(***************************************************************************)
EditsSurvive ==
    [][cliConfig'.rest < cliConfig.rest =>
         \E s \in Logins : cli[s].at = "saving" /\ cli[s].rest # cliConfig.rest]_loginVars

(***************************************************************************)
(* Once the page has written the user, the login that waits ends with a      *)
(* token, if the ten minutes last, nobody interrupts it and no answer with   *)
(* a token is lost.  Other faults are made good by the next poll.            *)
(***************************************************************************)
AuthorizedGetsToken ==
    \A s \in Logins :
        (row[s].user # None /\ cli[s].at = "waiting")
          ~> (cli[s].end \in {"token", "killed"} \/ row[s].expired \/ s \in dropped)

\* Both of the above on sessions and tokens.
LoginsAreTrue == TokenIsTheUsers /\ ConsumedIsDropped

\* A login delivers its token, and nothing is lost for it.
LoginDelivers == AuthorizedGetsToken /\ EditsSurvive
=============================================================================
