--------------------------- MODULE JourneysProofs ---------------------------
(***************************************************************************)
(* What holds of signing in, of the chat page and of picking nodes, for    *)
(* every number of users, polls, messages, machines and faults, each by an *)
(* inductive invariant of its own; and what holds of the five journeys     *)
(* together.                                                               *)
(***************************************************************************)
EXTENDS MCJourneys, ServicesProofs

-----------------------------------------------------------------------------
(* Logins: a saved token is of the user the row names, and a login hears   *)
(* "consumed" only when an answer was lost.                                *)
(*                                                                         *)
(* A poll that waits for its answer knows the user it read (PollsKnown);   *)
(* of two polls of one session the second overlapped the first             *)
(* (SecondOverlaps); and unless two pages write a row, its user is written *)
(* once and before any poll reads it (WrittenOnce).                        *)

RowRec == [made : BOOLEAN, user : Users \cup {None}, consumed : BOOLEAN, expired : BOOLEAN]
CliRec == [at : {"idle", "waiting", "asking", "saving", "ended"},
           call : Polls \cup {None}, end : LoginEnds \cup {None},
           token : Users \cup {None}, rest : 0..MaxEdits]

\* A poll that is answered knows its user, and whoever waits for it is its login.
PollsKnown ==
    /\ \A h \in Polls : poll[h].session # None => poll[h].user \in Users
    /\ \A s \in Logins : cli[s].at = "asking" =>
         cli[s].call \in Polls /\ poll[cli[s].call].session = s
    /\ \A s \in Logins : cli[s].at \in {"idle", "waiting", "asking"} => cli[s].token = None

\* Of two polls of a session the second came while the first was answered; a
\* token is minted and the row marked in one step.
SecondOverlaps ==
    /\ \A g, h \in Polls : poll[g].session # None /\ poll[g].session = poll[h].session =>
         g = h \/ poll[g].session \in overlap
    /\ \A s \in Logins : minted[s] # << >> => row[s].consumed
    /\ \A h \in Polls : poll[h].session # None /\ minted[poll[h].session] # << >> =>
         poll[h].session \in overlap

\* Until a page has written its user there is no poll to answer; unless two pages
\* write a row, its user is written once.
WrittenOnce ==
    /\ \A u \in Users : visit[u] # None /\ visit[u] \notin crossed =>
         /\ row[visit[u]].user = None
         /\ \A v \in Users : visit[v] = visit[u] => v = u
    /\ \A s \in Logins : row[s].user = None =>
         minted[s] = << >> /\ \A h \in Polls : poll[h].session # s
    /\ \A h \in Polls : poll[h].session # None /\ poll[h].session \notin crossed =>
         poll[h].user = row[poll[h].session].user

LoginInv == LoginTypeOK /\ PollsKnown /\ SecondOverlaps /\ WrittenOnce /\ LoginsAreTrue

LEMMA LoginInvInit == LoginInit => LoginInv
<1>. SUFFICES ASSUME LoginInit PROVE LoginInv
  OBVIOUS
<1>. USE LoginAssumption DEF LoginInit, NoPoll
<1>1. LoginTypeOK
  <2>1. << >> \in Seq(Users) /\ 0 \in 0..MaxEdits /\ 0 \in 0..MaxSlips
    OBVIOUS
  <2>. QED  BY <2>1 DEF LoginTypeOK
<1>2. PollsKnown
  BY DEF PollsKnown
<1>3. SecondOverlaps /\ WrittenOnce
  <2>1. \A s \in Logins : s # None
    BY DEF Logins
  <2>. QED  BY <2>1 DEF SecondOverlaps, WrittenOnce
<1>4. LoginsAreTrue
  <2>1. ConsumedIsDropped
    BY DEF ConsumedIsDropped, LoginEnds
  <2>2. TokenIsTheUsers
    BY DEF TokenIsTheUsers
  <2>. QED  BY <2>1, <2>2 DEF LoginsAreTrue
<1>. QED  BY <1>1, <1>2, <1>3, <1>4 DEF LoginInv

\* A login that goes on by itself asks no new poll, keeps its token, and hears
\* "consumed" only when an answer was lost.
GoesOn(s) ==
    /\ cli'[s].at = "asking" => cli[s].at = "asking" /\ cli'[s].call = cli[s].call
    /\ cli'[s].at \in {"idle", "waiting", "asking"} => cli'[s].token = None
    /\ cli'[s].token = cli[s].token
    /\ cli'[s].end = "consumed" => s \in dropped

\* Then nothing else is at stake.
LEMMA GoingOnKeeps ==
    ASSUME LoginInv, LoginTypeOK', \A s \in Logins : GoesOn(s),
           UNCHANGED <<visit, poll, histories>>,
           \A s \in Logins : row'[s].user = row[s].user /\ row'[s].consumed = row[s].consumed
    PROVE  LoginInv'
<1>. USE DEF histories
<1>1. PollsKnown'
  BY DEF LoginInv, PollsKnown, GoesOn
<1>2. SecondOverlaps'
  BY DEF LoginInv, SecondOverlaps
<1>3. WrittenOnce'
  <2>1. \A u \in Users : visit[u] # None => visit[u] \in Logins
    BY DEF LoginInv, LoginTypeOK
  <2>2. \A h \in Polls : poll[h].session # None => poll[h].session \in Logins
    BY DEF LoginInv, LoginTypeOK
  <2>. QED  BY <2>1, <2>2 DEF LoginInv, WrittenOnce
<1>4. TokenIsTheUsers'
  BY DEF LoginInv, LoginsAreTrue, TokenIsTheUsers, GoesOn
<1>5. ConsumedIsDropped'
  BY DEF LoginInv, LoginsAreTrue, ConsumedIsDropped, GoesOn
<1>. QED  BY <1>1, <1>2, <1>3, <1>4, <1>5 DEF LoginInv, LoginsAreTrue

\* The browser of a user, the config, and steps that change nothing here.
LEMMA AsideKeeps ==
    ASSUME LoginInv, UNCHANGED <<row, visit, poll, cli, histories>>,
           web' \in [Users -> {"out", "mailed", "update", "in"}],
           cliConfig' \in [user : Users \cup {None}, rest : 0..MaxEdits],
           slips' \in 0..MaxSlips
    PROVE  LoginInv'
<1>1. LoginTypeOK'
  BY DEF LoginInv, LoginTypeOK, histories
<1>2. \A s \in Logins : GoesOn(s)
  BY DEF GoesOn, LoginInv, PollsKnown, LoginsAreTrue, ConsumedIsDropped
<1>. QED  BY <1>1, <1>2, GoingOnKeeps

LEMMA WebKeeps ==
    ASSUME LoginInv, NEW u \in Users,
           \/ SignIn(u) \/ MailLink(u) \/ SignUp(u) \/ Callback(u)
           \/ ResetPassword(u) \/ UpdatePassword(u) \/ Logout(u)
    PROVE  LoginInv'
<1>1. PICK to \in {"out", "mailed", "update", "in"} :
        /\ web' = [web EXCEPT ![u] = to]
        /\ UNCHANGED <<row, visit, poll, cli, cliConfig, histories, slips>>
  BY DEF SignIn, MailLink, SignUp, Callback, ResetPassword, UpdatePassword, Logout, Browses
<1>. QED  BY <1>1, AsideKeeps DEF LoginInv, LoginTypeOK

LEMMA ConfigKeeps ==
    ASSUME LoginInv, EditCliConfig \/ ForgetAuth \/ PasteToken
    PROVE  LoginInv'
<1>1. /\ cliConfig \in [user : Users \cup {None}, rest : 0..MaxEdits]
      /\ web \in [Users -> {"out", "mailed", "update", "in"}] /\ slips \in 0..MaxSlips
  BY DEF LoginInv, LoginTypeOK
<1>2. cliConfig' \in [user : Users \cup {None}, rest : 0..MaxEdits]
  BY <1>1, LoginAssumption DEF EditCliConfig, ForgetAuth, PasteToken
<1>. QED  BY <1>1, <1>2, AsideKeeps DEF EditCliConfig, ForgetAuth, PasteToken

\* A login that changes by itself.
LEMMA CliStepKeeps ==
    ASSUME LoginInv, NEW s \in Logins, NEW new \in CliRec,
           cli'[s] = new, \A t \in Logins \ {s} : cli'[t] = cli[t],
           cli' = [t \in Logins |-> cli'[t]],
           new.at # "asking",
           new.at \in {"idle", "waiting"} => new.token = None,
           new.token = cli[s].token,
           new.end = "consumed" => s \in dropped,
           row' \in [Logins -> RowRec],
           \A t \in Logins : row'[t].user = row[t].user /\ row'[t].consumed = row[t].consumed,
           cliConfig' \in [user : Users \cup {None}, rest : 0..MaxEdits],
           slips' \in 0..MaxSlips,
           UNCHANGED <<web, visit, poll, histories>>
    PROVE  LoginInv'
<1>1. cli \in [Logins -> CliRec]
  BY DEF LoginInv, LoginTypeOK, CliRec
<1>2. cli'[s] = new /\ cli' \in [Logins -> CliRec] /\ \A t \in Logins \ {s} : cli'[t] = cli[t]
  BY <1>1
<1>3. LoginTypeOK'
  BY <1>2 DEF LoginInv, LoginTypeOK, CliRec, RowRec, histories
<1>4. \A t \in Logins : GoesOn(t)
  BY <1>2 DEF GoesOn, LoginInv, PollsKnown, LoginsAreTrue, ConsumedIsDropped
<1>. QED  BY <1>3, <1>4, GoingOnKeeps

LEMMA LoginFacts ==
    ASSUME LoginInv
    PROVE  /\ row \in [Logins -> RowRec] /\ cli \in [Logins -> CliRec]
           /\ cliConfig \in [user : Users \cup {None}, rest : 0..MaxEdits]
           /\ slips \in 0..MaxSlips
           /\ slips < MaxSlips => slips + 1 \in 0..MaxSlips
           /\ \A s \in Logins : cli[s].at \in {"idle", "waiting", "asking"} => cli[s].token = None
           /\ \A s \in Logins : row[s].consumed => s \in dropped \/ cli[s].token # None
BY LoginAssumption
   DEF LoginInv, LoginTypeOK, RowRec, CliRec, PollsKnown, LoginsAreTrue, ConsumedIsDropped

LEMMA StartKeeps ==
    ASSUME LoginInv, NEW s \in Logins, Start(s) \/ StartFails(s)
    PROVE  LoginInv'
<1>0. cli[s].at = "idle"
  <2>1. s \in Int
    BY LoginAssumption DEF Logins
  <2>. QED  BY <2>1 DEF Start, StartFails, Next1
<1>1. PICK made \in BOOLEAN : row' = [row EXCEPT ![s].made = made]
  BY DEF Start, StartFails
<1>2. /\ row' \in [Logins -> RowRec]
      /\ \A t \in Logins : row'[t].user = row[t].user /\ row'[t].consumed = row[t].consumed
  BY <1>1, LoginFacts DEF RowRec
<1>3. CASE Start(s)
  <2>1. PICK old \in CliRec : old = cli[s] /\ cliConfig.rest \in 0..MaxEdits
    BY LoginFacts
  <2>2. PICK new : new = [old EXCEPT !.at = "waiting", !.rest = cliConfig.rest]
    OBVIOUS
  <2>3. /\ new \in CliRec /\ new.at = "waiting" /\ new.token = old.token /\ new.end = old.end
    BY <2>1, <2>2 DEF CliRec
  <2>4. cli' = [cli EXCEPT ![s] = new]
    BY <1>3, <2>1, <2>2, LoginFacts DEF Start
  <2>5. /\ cli'[s] = new /\ \A t \in Logins \ {s} : cli'[t] = cli[t]
        /\ cli' = [t \in Logins |-> cli'[t]]
    BY <2>4, LoginFacts
  <2>6. new.token = None /\ (new.end = "consumed" => s \in dropped)
    BY <1>0, <2>1, <2>3, LoginFacts DEF LoginInv, LoginsAreTrue, ConsumedIsDropped
  <2>7. UNCHANGED <<web, visit, poll, histories, cliConfig, slips>>
    BY <1>3 DEF Start
  <2>. QED  BY <1>2, <2>1, <2>3, <2>5, <2>6, <2>7, LoginFacts, CliStepKeeps
<1>4. CASE StartFails(s)
  <2>1. PICK old \in CliRec : old = cli[s]
    BY LoginFacts
  <2>2. PICK new : new = [old EXCEPT !.at = "ended", !.end = "failed"]
    OBVIOUS
  <2>3. /\ new \in CliRec /\ new.at = "ended" /\ new.end = "failed" /\ new.token = old.token
    BY <2>2 DEF CliRec, LoginEnds
  <2>4. cli' = [cli EXCEPT ![s] = new]
    BY <1>4, <2>1, <2>2, LoginFacts DEF StartFails
  <2>5. /\ cli'[s] = new /\ \A t \in Logins \ {s} : cli'[t] = cli[t]
        /\ cli' = [t \in Logins |-> cli'[t]]
    BY <2>4, LoginFacts
  <2>6. UNCHANGED <<web, visit, poll, histories, cliConfig, slips>>
    BY <1>4 DEF StartFails
  <2>. QED  BY <1>2, <2>1, <2>3, <2>5, <2>6, LoginFacts, CliStepKeeps
<1>. QED  BY <1>3, <1>4

LEMMA PollRefusedKeeps ==
    ASSUME LoginInv, NEW s \in Logins, PollRefused(s)
    PROVE  LoginInv'
<1>. DEFINE new == [at |-> "ended", call |-> cli[s].call,
                    end |-> IF row[s].expired THEN "expired" ELSE "consumed",
                    token |-> cli[s].token, rest |-> cli[s].rest]
<1>1. cli'[s] = new
  BY LoginFacts DEF PollRefused, CliRec
<1>2. new \in CliRec
  BY LoginFacts DEF CliRec, LoginEnds
<1>3. \A t \in Logins \ {s} : cli'[t] = cli[t]
  BY LoginFacts DEF PollRefused
<1>4. cli' = [t \in Logins |-> cli'[t]]
  BY LoginFacts DEF PollRefused
<1>5. new.at = "ended" /\ new.token = cli[s].token
  OBVIOUS
<1>6. new.end = "consumed" => s \in dropped
  BY LoginFacts DEF PollRefused
<1>. HIDE DEF new
<1>7. UNCHANGED <<web, row, visit, poll, histories, cliConfig, slips>>
  BY DEF PollRefused
<1>. QED  BY <1>1, <1>2, <1>3, <1>4, <1>5, <1>6, <1>7, LoginFacts, CliStepKeeps

LEMMA SaveAuthKeeps ==
    ASSUME LoginInv, NEW s \in Logins, SaveAuth(s)
    PROVE  LoginInv'
<1>. DEFINE new == [at |-> "ended", call |-> cli[s].call, end |-> "token",
                    token |-> cli[s].token, rest |-> cli[s].rest]
<1>1. cli'[s] = new
  BY LoginFacts DEF SaveAuth, CliRec
<1>2. new \in CliRec
  BY LoginFacts DEF CliRec, LoginEnds
<1>3. \A t \in Logins \ {s} : cli'[t] = cli[t]
  BY LoginFacts DEF SaveAuth
<1>4. cli' = [t \in Logins |-> cli'[t]]
  BY LoginFacts DEF SaveAuth
<1>5. new.at = "ended" /\ new.token = cli[s].token /\ new.end = "token"
  OBVIOUS
<1>6. cliConfig' \in [user : Users \cup {None}, rest : 0..MaxEdits]
  BY LoginFacts DEF SaveAuth, CliRec
<1>. HIDE DEF new
<1>7. UNCHANGED <<web, row, visit, poll, histories, slips>>
  BY DEF SaveAuth
<1>. QED  BY <1>1, <1>2, <1>3, <1>4, <1>5, <1>6, <1>7, LoginFacts, CliStepKeeps

LEMMA BrokenKeeps ==
    ASSUME LoginInv, NEW s \in Logins, ConnectionBreaks(s) \/ InterruptLogin(s)
    PROVE  LoginInv'
<1>0. /\ UNCHANGED <<web, row, visit, poll, histories, cliConfig>>
      /\ slips' \in 0..MaxSlips
  BY LoginFacts DEF ConnectionBreaks, InterruptLogin, Slip
<1>1. CASE ConnectionBreaks(s)
  <2>. DEFINE new == [at |-> "waiting", call |-> None, end |-> cli[s].end,
                      token |-> cli[s].token, rest |-> cli[s].rest]
  <2>1. cli'[s] = new
    BY <1>1, LoginFacts DEF ConnectionBreaks, CliRec
  <2>2. new \in CliRec
    BY LoginFacts DEF CliRec, LoginEnds
  <2>3. \A t \in Logins \ {s} : cli'[t] = cli[t]
    BY <1>1, LoginFacts DEF ConnectionBreaks
  <2>4. cli' = [t \in Logins |-> cli'[t]]
    BY <1>1, LoginFacts DEF ConnectionBreaks
  <2>. HIDE DEF new
  <2>5. new.at = "waiting" /\ new.token = None /\ new.token = cli[s].token /\ new.end = cli[s].end
    BY <1>1, LoginFacts DEF new, ConnectionBreaks
  <2>6. new.end = "consumed" => s \in dropped
    BY <2>5 DEF LoginInv, LoginsAreTrue, ConsumedIsDropped
  <2>. QED  BY <1>0, <2>1, <2>2, <2>3, <2>4, <2>5, <2>6, LoginFacts, CliStepKeeps
<1>2. CASE InterruptLogin(s)
  <2>1. PICK old \in CliRec : old = cli[s]
    BY LoginFacts
  <2>2. PICK new : new = [old EXCEPT !.at = "ended", !.end = "killed", !.call = None]
    OBVIOUS
  <2>3. new \in CliRec /\ new.at = "ended" /\ new.end = "killed" /\ new.token = old.token
    BY <2>2 DEF CliRec, LoginEnds
  <2>4. cli' = [cli EXCEPT ![s] = new]
    BY <1>2, <2>1, <2>2, LoginFacts DEF InterruptLogin
  <2>5. /\ cli'[s] = new /\ \A t \in Logins \ {s} : cli'[t] = cli[t]
        /\ cli' = [t \in Logins |-> cli'[t]]
    BY <2>4, LoginFacts
  <2>. QED  BY <1>0, <2>1, <2>3, <2>5, LoginFacts, CliStepKeeps
<1>. QED  BY <1>1, <1>2

LEMMA ExpireKeeps ==
    ASSUME LoginInv, NEW s \in Logins, Expire(s)
    PROVE  LoginInv'
<1>1. /\ row' \in [Logins -> RowRec]
      /\ \A t \in Logins : row'[t].user = row[t].user /\ row'[t].consumed = row[t].consumed
  BY LoginFacts DEF Expire, RowRec
<1>2. LoginTypeOK'
  BY <1>1 DEF Expire, LoginInv, LoginTypeOK, RowRec, histories
<1>3. \A t \in Logins : GoesOn(t)
  BY DEF Expire, GoesOn, LoginInv, PollsKnown, LoginsAreTrue, ConsumedIsDropped
<1>. QED  BY <1>1, <1>2, <1>3, GoingOnKeeps DEF Expire

-----------------------------------------------------------------------------
(* The page, the poll and the token. *)

LEMMA PageReadsKeeps ==
    ASSUME LoginInv, NEW u \in Users, NEW s \in Logins, PageReads(u, s)
    PROVE  LoginInv'
<1>1. /\ visit' = [visit EXCEPT ![u] = s] /\ row[s].user = None
      /\ crossed' = IF \E v \in Users : visit[v] = s THEN crossed \cup {s} ELSE crossed
      /\ UNCHANGED <<web, row, poll, cli, cliConfig, minted, overlap, dropped, slips>>
  BY DEF PageReads
<1>2. visit \in [Users -> Logins \cup {None}] /\ crossed \subseteq Logins
  BY DEF LoginInv, LoginTypeOK
<1>3. /\ visit'[u] = s /\ \A v \in Users \ {u} : visit'[v] = visit[v]
      /\ crossed \subseteq crossed' /\ crossed' \subseteq crossed \cup {s}
  BY <1>1, <1>2
<1>4. LoginTypeOK'
  BY <1>1, <1>2, <1>3 DEF LoginInv, LoginTypeOK
<1>5. PollsKnown' /\ SecondOverlaps'
  BY <1>1 DEF LoginInv, PollsKnown, SecondOverlaps
<1>6. \A v \in Users : visit'[v] # None /\ visit'[v] \notin crossed' =>
         /\ row[visit'[v]].user = None
         /\ \A w \in Users : visit'[w] = visit'[v] => w = v
  <2>. SUFFICES ASSUME NEW v \in Users, visit'[v] # None, visit'[v] \notin crossed'
       PROVE  /\ row[visit'[v]].user = None
              /\ \A w \in Users : visit'[w] = visit'[v] => w = v
    OBVIOUS
  <2>1. CASE v = u
    <3>1. ~\E w \in Users : visit[w] = s
      BY <1>1, <1>3, <2>1
    <3>. QED  BY <1>1, <1>3, <2>1, <3>1
  <2>2. CASE v # u
    <3>1. visit[v] # None /\ visit[v] \notin crossed /\ visit'[v] = visit[v]
      BY <1>3, <2>2
    <3>2. visit[v] # s
      BY <1>1, <3>1
    <3>. QED  BY <1>3, <2>2, <3>1, <3>2 DEF LoginInv, WrittenOnce
  <2>. QED  BY <2>1, <2>2
<1>7. WrittenOnce'
  BY <1>1, <1>3, <1>6 DEF LoginInv, WrittenOnce
<1>8. LoginsAreTrue'
  <2>1. TokenIsTheUsers'
    BY <1>1, <1>3 DEF LoginInv, LoginsAreTrue, TokenIsTheUsers
  <2>2. ConsumedIsDropped'
    BY <1>1 DEF LoginInv, LoginsAreTrue, ConsumedIsDropped
  <2>. QED  BY <2>1, <2>2 DEF LoginsAreTrue
<1>. QED  BY <1>4, <1>5, <1>7, <1>8 DEF LoginInv

LEMMA PageAuthorizesKeeps ==
    ASSUME LoginInv, NEW u \in Users, PageAuthorizes(u)
    PROVE  LoginInv'
<1>1. PICK s \in Logins : s = visit[u]
  BY DEF PageAuthorizes, LoginInv, LoginTypeOK
<1>2. /\ row' = [row EXCEPT ![s].user = u] /\ visit' = [visit EXCEPT ![u] = None]
      /\ UNCHANGED <<web, poll, cli, cliConfig, minted, crossed, overlap, dropped, slips>>
  BY <1>1 DEF PageAuthorizes, histories
<1>3. visit \in [Users -> Logins \cup {None}]
  BY DEF LoginInv, LoginTypeOK
<1>4. /\ visit'[u] = None /\ \A v \in Users \ {u} : visit'[v] = visit[v]
      /\ visit' \in [Users -> Logins \cup {None}]
  BY <1>2, <1>3
<1>5. /\ row' \in [Logins -> RowRec] /\ row'[s].user = u
      /\ row'[s].consumed = row[s].consumed
      /\ \A t \in Logins \ {s} : row'[t] = row[t]
  BY <1>2, LoginFacts DEF RowRec
<1>6. u # None /\ s # None
  BY LoginAssumption DEF Logins
<1>7. LoginTypeOK'
  BY <1>2, <1>4, <1>5 DEF LoginInv, LoginTypeOK, RowRec
<1>8. PollsKnown'
  BY <1>2 DEF LoginInv, PollsKnown
<1>9. \A h \in Polls : poll[h].session # None => poll[h].session \in Logins
  BY DEF LoginInv, LoginTypeOK
<1>10. SecondOverlaps'
  BY <1>2, <1>5, <1>9 DEF LoginInv, SecondOverlaps
<1>11. s \in crossed \/ (minted[s] = << >> /\ \A h \in Polls : poll[h].session # s)
  BY <1>1, <1>6 DEF LoginInv, WrittenOnce
<1>12. WrittenOnce'
  <2>1. \A v \in Users : visit'[v] # None /\ visit'[v] \notin crossed =>
         /\ row'[visit'[v]].user = None
         /\ \A w \in Users : visit'[w] = visit'[v] => w = v
    BY <1>1, <1>3, <1>4, <1>5, <1>6 DEF LoginInv, WrittenOnce
  <2>2. \A t \in Logins : row'[t].user = None =>
         minted[t] = << >> /\ \A h \in Polls : poll[h].session # t
    BY <1>5, <1>6 DEF LoginInv, WrittenOnce
  <2>3. \A h \in Polls : poll[h].session # None /\ poll[h].session \notin crossed =>
         poll[h].user = row'[poll[h].session].user
    BY <1>5, <1>9, <1>11 DEF LoginInv, WrittenOnce
  <2>. QED  BY <1>2, <2>1, <2>2, <2>3 DEF WrittenOnce
<1>13. TokenIsTheUsers'
  <2>. SUFFICES ASSUME NEW t \in Logins
       PROVE  LET Minted == {minted[t][n] : n \in DOMAIN minted[t]} IN
              /\ cli[t].token # None => cli[t].token \in Minted
              /\ t \notin crossed => Minted \subseteq {row'[t].user}
              /\ Len(minted[t]) > 1 => t \in overlap
    BY <1>2 DEF TokenIsTheUsers
  <2>. QED  BY <1>5, <1>11 DEF LoginInv, LoginsAreTrue, TokenIsTheUsers
<1>14. ConsumedIsDropped'
  BY <1>2, <1>5 DEF LoginInv, LoginsAreTrue, ConsumedIsDropped
<1>. QED  BY <1>7, <1>8, <1>10, <1>12, <1>13, <1>14 DEF LoginInv, LoginsAreTrue

LEMMA PollReadsKeeps ==
    ASSUME LoginInv, NEW s \in Logins, NEW h \in Polls, PollReads(s, h)
    PROVE  LoginInv'
<1>. DEFINE new == [at |-> "asking", call |-> h, end |-> cli[s].end,
                    token |-> cli[s].token, rest |-> cli[s].rest]
<1>1. PICK u \in Users : u = row[s].user
  BY LoginFacts DEF PollReads, RowRec
<1>2. /\ cli[s].at = "waiting" /\ poll[h] = NoPoll /\ ~row[s].consumed
      /\ poll' = [poll EXCEPT ![h] = [session |-> s, user |-> u]]
      /\ overlap' = IF \E g \in Polls : poll[g].session = s THEN overlap \cup {s}
                    ELSE overlap
      /\ UNCHANGED <<web, row, visit, cliConfig, minted, crossed, dropped, slips>>
  BY <1>1 DEF PollReads
<1>3. /\ poll \in [Polls -> [session : Logins \cup {None}, user : Users \cup {None}]]
      /\ overlap \subseteq Logins
  BY DEF LoginInv, LoginTypeOK
<1>4. /\ poll' \in [Polls -> [session : Logins \cup {None}, user : Users \cup {None}]]
      /\ poll'[h].session = s /\ poll'[h].user = u
      /\ \A g \in Polls \ {h} : poll'[g] = poll[g]
      /\ poll[h].session = None /\ s # None
  BY <1>2, <1>3, LoginAssumption DEF NoPoll, Logins
<1>5. cli'[s] = new
  BY LoginFacts DEF PollReads, CliRec
<1>6. new \in CliRec
  BY LoginFacts DEF CliRec
<1>7. \A t \in Logins \ {s} : cli'[t] = cli[t]
  BY LoginFacts DEF PollReads
<1>8. cli' \in [Logins -> CliRec]
  <2>1. cli' = [t \in Logins |-> cli'[t]]
    BY LoginFacts DEF PollReads
  <2>. QED  BY <1>5, <1>6, <1>7, <2>1, LoginFacts
<1>9. new.at = "asking" /\ new.call = h /\ new.end = cli[s].end /\ new.token = cli[s].token
      /\ new.token = None
  BY <1>2, LoginFacts
<1>. HIDE DEF new
<1>10. /\ overlap \subseteq overlap' /\ overlap' \subseteq Logins
       /\ (\E g \in Polls : poll[g].session = s) => s \in overlap'
  BY <1>2, <1>3
<1>11. LoginTypeOK'
  BY <1>2, <1>4, <1>8, <1>10 DEF LoginInv, LoginTypeOK, CliRec
<1>12. PollsKnown'
  <2>1. \A g \in Polls : poll'[g].session # None => poll'[g].user \in Users
    BY <1>4 DEF LoginInv, PollsKnown
  <2>2. \A t \in Logins : cli'[t].at = "asking" =>
          cli'[t].call \in Polls /\ poll'[cli'[t].call].session = t
    <3>. SUFFICES ASSUME NEW t \in Logins, cli'[t].at = "asking"
         PROVE  cli'[t].call \in Polls /\ poll'[cli'[t].call].session = t
      OBVIOUS
    <3>1. CASE t = s
      BY <3>1, <1>4, <1>5, <1>9
    <3>2. CASE t # s
      <4>1. cli'[t] = cli[t] /\ cli[t].call \in Polls /\ poll[cli[t].call].session = t
        BY <3>2, <1>7 DEF LoginInv, PollsKnown
      <4>2. t # None
        BY LoginAssumption DEF Logins
      <4>. QED  BY <4>1, <4>2, <1>4
    <3>. QED  BY <3>1, <3>2
  <2>3. \A t \in Logins : cli'[t].at \in {"idle", "waiting", "asking"} => cli'[t].token = None
    BY <1>5, <1>7, <1>9, LoginFacts
  <2>. QED  BY <2>1, <2>2, <2>3 DEF PollsKnown
<1>13. minted[s] = << >>
  BY <1>2 DEF LoginInv, SecondOverlaps
<1>14. SecondOverlaps'
  <2>1. \A f, g \in Polls : poll'[f].session # None /\ poll'[f].session = poll'[g].session =>
          f = g \/ poll'[f].session \in overlap'
    BY <1>4, <1>10 DEF LoginInv, SecondOverlaps
  <2>2. \A g \in Polls : poll'[g].session # None /\ minted[poll'[g].session] # << >> =>
          poll'[g].session \in overlap'
    BY <1>4, <1>10, <1>13 DEF LoginInv, SecondOverlaps
  <2>. QED  BY <1>2, <2>1, <2>2 DEF LoginInv, SecondOverlaps
<1>15. WrittenOnce'
  BY <1>1, <1>2, <1>4, LoginAssumption DEF LoginInv, WrittenOnce
<1>16. TokenIsTheUsers'
  BY <1>2, <1>5, <1>7, <1>9, <1>10 DEF LoginInv, LoginsAreTrue, TokenIsTheUsers
<1>17. ConsumedIsDropped'
  BY <1>2, <1>5, <1>7, <1>9 DEF LoginInv, LoginsAreTrue, ConsumedIsDropped
<1>. QED  BY <1>11, <1>12, <1>14, <1>15, <1>16, <1>17 DEF LoginInv, LoginsAreTrue

\* What an answer does to the logins: the one that waits for it goes on.
LEMMA AnswerTells ==
    ASSUME LoginInv, NEW h \in Polls, NEW s \in Logins, poll[h].session = s,
           NEW u \in Users \cup {None}, Answered(h, u)
    PROVE  /\ cli' \in [Logins -> CliRec]
           /\ \A t \in Logins \ {s} : cli'[t] = cli[t]
           /\ \A t \in Logins : cli'[t].end = cli[t].end
           /\ \A t \in Logins \ Listens(h) : cli'[t] = cli[t]
           /\ s \in Listens(h) =>
                /\ cli'[s].at = IF u = None THEN "waiting" ELSE "saving"
                /\ cli'[s].token = u
           /\ \A t \in Logins : cli'[t].at = "asking" =>
                cli[t].at = "asking" /\ cli'[t].call = cli[t].call /\ cli[t].call # h
           /\ Listens(h) \subseteq {s}
<1>1. \A t \in Listens(h) : t = s
  BY DEF Listens, LoginInv, PollsKnown
<1>2. \A t \in Logins \ Listens(h) : cli'[t] = cli[t]
  BY DEF Answered
<1>3. s \in Listens(h) =>
        cli'[s] = [at |-> IF u = None THEN "waiting" ELSE "saving", call |-> None,
                   end |-> cli[s].end, token |-> u, rest |-> cli[s].rest]
  <2>1. PICK place \in {"waiting", "saving"} : place = IF u = None THEN "waiting" ELSE "saving"
    OBVIOUS
  <2>2. s \in Listens(h) =>
          cli'[s] = [cli[s] EXCEPT !.at = place, !.call = None, !.token = u]
    BY <2>1 DEF Answered
  <2>3. s \in Listens(h) =>
          cli'[s] = [at |-> place, call |-> None, end |-> cli[s].end, token |-> u,
                     rest |-> cli[s].rest]
    <3>1. ASSUME NEW r \in CliRec, NEW new, new = [r EXCEPT !.at = place, !.call = None, !.token = u]
          PROVE  new = [at |-> place, call |-> None, end |-> r.end, token |-> u, rest |-> r.rest]
      BY <3>1 DEF CliRec
    <3>2. cli[s] \in CliRec
      BY LoginFacts
    <3>. QED  BY <2>2, <3>1, <3>2
  <2>. QED  BY <2>1, <2>3
<1>4. s \in Listens(h) =>
        /\ cli'[s] \in CliRec
        /\ cli'[s].at = IF u = None THEN "waiting" ELSE "saving"
        /\ cli'[s].token = u /\ cli'[s].end = cli[s].end
        /\ cli'[s].at # "asking"
  BY <1>3, LoginFacts DEF CliRec
<1>5. cli' \in [Logins -> CliRec]
  <2>1. cli' = [t \in Logins |-> cli'[t]]
    BY DEF Answered
  <2>2. \A t \in Logins : cli'[t] \in CliRec
    BY <1>1, <1>2, <1>4, LoginFacts
  <2>. QED  BY <2>1, <2>2
<1>6. \A t \in Logins : cli'[t].at = "asking" =>
                cli[t].at = "asking" /\ cli'[t].call = cli[t].call /\ cli[t].call # h
  BY <1>1, <1>2, <1>4 DEF Listens
<1>. QED  BY <1>1, <1>2, <1>4, <1>5, <1>6

\* The polls that are left after an answer.
LEMMA PollDone ==
    ASSUME LoginInv, NEW h \in Polls, poll' = [poll EXCEPT ![h] = NoPoll]
    PROVE  /\ poll' \in [Polls -> [session : Logins \cup {None}, user : Users \cup {None}]]
           /\ poll'[h].session = None
           /\ \A g \in Polls \ {h} : poll'[g] = poll[g]
           /\ \A g \in Polls : poll'[g].session # None =>
                g # h /\ poll'[g] = poll[g] /\ poll[g].session \in Logins
BY DEF LoginInv, LoginTypeOK, NoPoll

LEMMA FewerPollsKeep ==
    ASSUME LoginInv, NEW h \in Polls, poll' = [poll EXCEPT ![h] = NoPoll],
           UNCHANGED <<row, visit, minted, crossed, overlap>>
    PROVE  SecondOverlaps' /\ WrittenOnce'
<1>1. \A g \in Polls : poll'[g].session # None =>
                g # h /\ poll'[g] = poll[g] /\ poll[g].session \in Logins
  BY PollDone
<1>2. SecondOverlaps'
  <2>1. \A f, g \in Polls : poll'[f].session # None /\ poll'[f].session = poll'[g].session =>
          f = g \/ poll'[f].session \in overlap
    BY <1>1 DEF LoginInv, SecondOverlaps
  <2>2. \A g \in Polls : poll'[g].session # None /\ minted[poll'[g].session] # << >> =>
          poll'[g].session \in overlap
    BY <1>1 DEF LoginInv, SecondOverlaps
  <2>. QED  BY <2>1, <2>2 DEF LoginInv, SecondOverlaps
<1>3. WrittenOnce'
  <2>1. \A s \in Logins : s # None
    BY LoginAssumption DEF Logins
  <2>2. \A s \in Logins : row[s].user = None =>
         minted[s] = << >> /\ \A g \in Polls : poll'[g].session # s
    BY <1>1, <2>1 DEF LoginInv, WrittenOnce
  <2>3. \A g \in Polls : poll'[g].session # None /\ poll'[g].session \notin crossed =>
         poll'[g].user = row[poll'[g].session].user
    BY <1>1 DEF LoginInv, WrittenOnce
  <2>. QED  BY <2>2, <2>3 DEF LoginInv, WrittenOnce
<1>. QED  BY <1>2, <1>3

LEMMA PollFailsKeeps ==
    ASSUME LoginInv, NEW h \in Polls, PollFails(h)
    PROVE  LoginInv'
<1>1. /\ poll[h] # NoPoll /\ Answered(h, None) /\ poll' = [poll EXCEPT ![h] = NoPoll]
      /\ UNCHANGED <<web, row, visit, cliConfig, minted, crossed, overlap, dropped>>
      /\ slips' \in 0..MaxSlips
  BY LoginFacts DEF PollFails, Slip, histories
<1>2. PICK s \in Logins \cup {None} : s = poll[h].session
  BY DEF LoginInv, LoginTypeOK
<1>3. CASE s = None
  <2>1. Listens(h) = {}
    <3>1. \A t \in Logins : t # None
      BY LoginAssumption DEF Logins
    <3>2. \A t \in Logins : cli[t].at = "asking" => poll[cli[t].call].session = t
      BY DEF LoginInv, PollsKnown
    <3>. QED  BY <1>2, <1>3, <3>1, <3>2 DEF Listens
  <2>2. cli' = cli
    BY <1>1, <2>1, LoginFacts DEF Answered
  <2>3. LoginTypeOK'
    BY <1>1, <2>2, PollDone DEF LoginInv, LoginTypeOK
  <2>4. PollsKnown'
    <3>1. \A g \in Polls : poll'[g].session # None => poll'[g].user \in Users
      BY <1>1, PollDone DEF LoginInv, PollsKnown
    <3>2. \A t \in Logins : cli[t].at = "asking" =>
            cli[t].call \in Polls /\ poll'[cli[t].call].session = t
      BY <1>1, <2>1, PollDone DEF LoginInv, PollsKnown, Listens
    <3>. QED  BY <2>2, <3>1, <3>2, LoginFacts DEF PollsKnown
  <2>5. SecondOverlaps' /\ WrittenOnce'
    BY <1>1, FewerPollsKeep
  <2>6. LoginsAreTrue'
    BY <1>1, <2>2 DEF LoginInv, LoginsAreTrue, TokenIsTheUsers, ConsumedIsDropped
  <2>. QED  BY <2>3, <2>4, <2>5, <2>6 DEF LoginInv
<1>4. CASE s \in Logins
  <2>1. /\ cli' \in [Logins -> CliRec]
        /\ \A t \in Logins \ {s} : cli'[t] = cli[t]
        /\ \A t \in Logins : cli'[t].end = cli[t].end
        /\ \A t \in Logins \ Listens(h) : cli'[t] = cli[t]
        /\ s \in Listens(h) => cli'[s].at = "waiting" /\ cli'[s].token = None
        /\ \A t \in Logins : cli'[t].at = "asking" =>
                cli[t].at = "asking" /\ cli'[t].call = cli[t].call /\ cli[t].call # h
        /\ Listens(h) \subseteq {s}
    BY <1>1, <1>2, <1>4, AnswerTells
  <2>2. \A t \in Logins : cli'[t].token = cli[t].token
    BY <2>1, LoginFacts DEF Listens
  <2>3. LoginTypeOK'
    BY <1>1, <2>1, PollDone DEF LoginInv, LoginTypeOK, CliRec
  <2>4. PollsKnown'
    <3>1. \A g \in Polls : poll'[g].session # None => poll'[g].user \in Users
      BY <1>1, PollDone DEF LoginInv, PollsKnown
    <3>2. \A t \in Logins : cli'[t].at = "asking" =>
            cli'[t].call \in Polls /\ poll'[cli'[t].call].session = t
      BY <1>1, <2>1, PollDone DEF LoginInv, PollsKnown
    <3>3. \A t \in Logins : cli'[t].at \in {"idle", "waiting", "asking"} =>
            cli'[t].token = None
      BY <2>1, LoginFacts
    <3>. QED  BY <3>1, <3>2, <3>3 DEF PollsKnown
  <2>5. SecondOverlaps' /\ WrittenOnce'
    BY <1>1, FewerPollsKeep
  <2>6. TokenIsTheUsers'
    <3>1. minted' = minted /\ row' = row /\ crossed' = crossed /\ overlap' = overlap
      BY <1>1
    <3>2. ASSUME NEW t \in Logins
          PROVE  /\ cli'[t].token # None =>
                        cli'[t].token \in {minted[t][n] : n \in DOMAIN minted[t]}
                 /\ t \notin crossed =>
                        {minted[t][n] : n \in DOMAIN minted[t]} \subseteq {row[t].user}
                 /\ Len(minted[t]) > 1 => t \in overlap
      <4>1. cli'[t].token = cli[t].token
        BY <2>2
      <4>. QED  BY <4>1 DEF LoginInv, LoginsAreTrue, TokenIsTheUsers
    <3>. QED  BY <3>1, <3>2, Zenon DEF TokenIsTheUsers
  <2>7. ConsumedIsDropped'
    BY <1>1, <2>1, <2>2 DEF LoginInv, LoginsAreTrue, ConsumedIsDropped
  <2>. QED  BY <2>3, <2>4, <2>5, <2>6, <2>7 DEF LoginInv, LoginsAreTrue
<1>. QED  BY <1>3, <1>4

LEMMA MintKeeps ==
    ASSUME LoginInv, NEW h \in Polls, Mint(h)
    PROVE  LoginInv'
<1>1. PICK s \in Logins, u \in Users : s = poll[h].session /\ u = poll[h].user
  BY DEF Mint, LoginInv, LoginTypeOK, PollsKnown
<1>2. /\ minted' = [minted EXCEPT ![s] = Append(@, u)]
      /\ row' = [row EXCEPT ![s].consumed = TRUE]
      /\ Answered(h, u)
      /\ dropped' = IF Listens(h) = {} THEN dropped \cup {s} ELSE dropped
      /\ poll' = [poll EXCEPT ![h] = NoPoll]
      /\ UNCHANGED <<web, visit, cliConfig, crossed, overlap, slips>>
  BY <1>1 DEF Mint
<1>3. u # None /\ \A t \in Logins : t # None
  BY LoginAssumption DEF Logins
<1>4. /\ cli' \in [Logins -> CliRec]
      /\ \A t \in Logins \ {s} : cli'[t] = cli[t]
      /\ \A t \in Logins : cli'[t].end = cli[t].end
      /\ \A t \in Logins \ Listens(h) : cli'[t] = cli[t]
      /\ s \in Listens(h) => cli'[s].at = "saving" /\ cli'[s].token = u
      /\ \A t \in Logins : cli'[t].at = "asking" =>
              cli[t].at = "asking" /\ cli'[t].call = cli[t].call /\ cli[t].call # h
      /\ Listens(h) \subseteq {s}
  BY <1>1, <1>2, <1>3, AnswerTells
<1>5. minted \in [Logins -> Seq(Users)] /\ dropped \subseteq Logins
  BY DEF LoginInv, LoginTypeOK
<1>6. /\ minted' \in [Logins -> Seq(Users)] /\ minted'[s] = Append(minted[s], u)
      /\ \A t \in Logins \ {s} : minted'[t] = minted[t]
      /\ minted'[s] # << >>
  BY <1>2, <1>5
<1>7. /\ row' \in [Logins -> RowRec] /\ row'[s].consumed /\ row'[s].user = row[s].user
      /\ \A t \in Logins \ {s} : row'[t] = row[t]
  BY <1>2, LoginFacts DEF RowRec
<1>8. \A g \in Polls : poll'[g].session # None =>
                g # h /\ poll'[g] = poll[g] /\ poll[g].session \in Logins
  BY <1>2, PollDone
<1>9. dropped \subseteq dropped' /\ dropped' \subseteq Logins
  BY <1>2, <1>5
<1>10. LoginTypeOK'
  <2>1. UNCHANGED <<web, visit, cliConfig, crossed, overlap, slips>>
    BY <1>2
  <2>2. poll' \in [Polls -> [session : Logins \cup {None}, user : Users \cup {None}]]
    BY <1>2, PollDone
  <2>. QED  BY <1>4, <1>6, <1>7, <1>9, <2>1, <2>2 DEF LoginInv, LoginTypeOK, CliRec, RowRec
<1>11. PollsKnown'
  <2>1. \A g \in Polls : poll'[g].session # None => poll'[g].user \in Users
    BY <1>8 DEF LoginInv, PollsKnown
  <2>2. \A t \in Logins : cli'[t].at = "asking" =>
          cli'[t].call \in Polls /\ poll'[cli'[t].call].session = t
    BY <1>2, <1>4, PollDone DEF LoginInv, PollsKnown
  <2>3. \A t \in Logins : cli'[t].at \in {"idle", "waiting", "asking"} =>
          cli'[t].token = None
    BY <1>4, LoginFacts
  <2>. QED  BY <2>1, <2>2, <2>3 DEF PollsKnown
<1>12. SecondOverlaps'
  <2>1. \A f, g \in Polls : poll'[f].session # None /\ poll'[f].session = poll'[g].session =>
          f = g \/ poll'[f].session \in overlap
    BY <1>8 DEF LoginInv, SecondOverlaps
  <2>2. \A t \in Logins : minted'[t] # << >> => row'[t].consumed
    BY <1>6, <1>7 DEF LoginInv, SecondOverlaps
  <2>3. \A g \in Polls : poll'[g].session # None /\ minted'[poll'[g].session] # << >> =>
          poll'[g].session \in overlap
    <3>. SUFFICES ASSUME NEW g \in Polls, poll'[g].session # None,
                         minted'[poll'[g].session] # << >>
         PROVE  poll'[g].session \in overlap
      OBVIOUS
    <3>1. CASE poll'[g].session = s
      BY <1>1, <1>3, <1>8, <3>1 DEF LoginInv, SecondOverlaps
    <3>2. CASE poll'[g].session # s
      BY <1>6, <1>8, <3>2 DEF LoginInv, SecondOverlaps
    <3>. QED  BY <3>1, <3>2
  <2>. QED  BY <1>2, <2>1, <2>2, <2>3 DEF SecondOverlaps
<1>13. row[s].user # None
  BY <1>1 DEF LoginInv, WrittenOnce
<1>14. WrittenOnce'
  <2>1. \A v \in Users : visit[v] # None => visit[v] \in Logins
    BY DEF LoginInv, LoginTypeOK
  <2>2. \A t \in Logins : row'[t].user = row[t].user
    BY <1>7
  <2>3. \A v \in Users : visit[v] # None /\ visit[v] \notin crossed =>
         /\ row'[visit[v]].user = None
         /\ \A w \in Users : visit[w] = visit[v] => w = v
    BY <2>1, <2>2 DEF LoginInv, WrittenOnce
  <2>4. \A t \in Logins : row'[t].user = None =>
         minted'[t] = << >> /\ \A g \in Polls : poll'[g].session # t
    <3>. SUFFICES ASSUME NEW t \in Logins, row'[t].user = None
         PROVE  minted'[t] = << >> /\ \A g \in Polls : poll'[g].session # t
      OBVIOUS
    <3>1. t # s /\ t # None /\ row[t].user = None
      BY <2>2, <1>3, <1>13
    <3>2. minted[t] = << >> /\ \A g \in Polls : poll[g].session # t
      BY <3>1 DEF LoginInv, WrittenOnce
    <3>3. minted'[t] = minted[t]
      BY <1>6, <3>1
    <3>. QED  BY <1>8, <3>1, <3>2, <3>3
  <2>5. \A g \in Polls : poll'[g].session # None /\ poll'[g].session \notin crossed =>
         poll'[g].user = row'[poll'[g].session].user
    BY <1>8, <2>2 DEF LoginInv, WrittenOnce
  <2>. QED  BY <1>2, <2>3, <2>4, <2>5 DEF WrittenOnce
<1>15. TokenIsTheUsers'
  <2>. SUFFICES ASSUME NEW t \in Logins
       PROVE  LET Minted == {minted'[t][n] : n \in DOMAIN minted'[t]} IN
              /\ cli'[t].token # None => cli'[t].token \in Minted
              /\ t \notin crossed => Minted \subseteq {row'[t].user}
              /\ Len(minted'[t]) > 1 => t \in overlap
    BY <1>2 DEF TokenIsTheUsers
  <2>1. CASE t # s
    <3>1. minted'[t] = minted[t] /\ cli'[t] = cli[t] /\ row'[t] = row[t]
      BY <2>1, <1>4, <1>6, <1>7
    <3>. QED  BY <3>1 DEF LoginInv, LoginsAreTrue, TokenIsTheUsers
  <2>2. CASE t = s
    <3>. DEFINE Before == {minted[s][n] : n \in DOMAIN minted[s]}
                Later == {minted'[s][n] : n \in DOMAIN minted'[s]}
    <3>1. Later = Before \cup {u}
      <4>1. /\ minted[s] \in Seq(Users) /\ Len(minted[s]) \in Nat
            /\ DOMAIN minted[s] = 1..Len(minted[s])
            /\ DOMAIN minted'[s] = 1..Len(minted[s]) + 1
            /\ minted'[s][Len(minted[s]) + 1] = u
            /\ \A n \in 1..Len(minted[s]) : minted'[s][n] = minted[s][n]
        BY <1>5, <1>6
      <4>. QED  BY <4>1
    <3>2. cli'[s].token # None => cli'[s].token \in Later
      <4>1. CASE s \in Listens(h)
        BY <3>1, <4>1, <1>4
      <4>2. CASE s \notin Listens(h)
        BY <3>1, <4>2, <1>4 DEF LoginInv, LoginsAreTrue, TokenIsTheUsers
      <4>. QED  BY <4>1, <4>2
    <3>3. s \notin crossed => Later \subseteq {row'[s].user}
      <4>1. s \notin crossed => u = row[s].user
        BY <1>1, <1>3 DEF LoginInv, WrittenOnce
      <4>. QED  BY <3>1, <4>1, <1>7 DEF LoginInv, LoginsAreTrue, TokenIsTheUsers
    <3>4. Len(minted'[s]) > 1 => s \in overlap
      <4>1. Len(minted'[s]) > 1 => minted[s] # << >>
        BY <1>5, <1>6
      <4>. QED  BY <4>1, <1>1, <1>3 DEF LoginInv, SecondOverlaps
    <3>. QED  BY <2>2, <3>2, <3>3, <3>4
  <2>. QED  BY <2>1, <2>2
<1>16. ConsumedIsDropped'
  <2>1. \A t \in Logins : cli'[t].end = "consumed" => t \in dropped'
    BY <1>4, <1>9 DEF LoginInv, LoginsAreTrue, ConsumedIsDropped
  <2>2. \A t \in Logins : row'[t].consumed => t \in dropped' \/ cli'[t].token # None
    BY <1>2, <1>3, <1>4, <1>7, <1>9 DEF LoginInv, LoginsAreTrue, ConsumedIsDropped
  <2>. QED  BY <2>1, <2>2 DEF ConsumedIsDropped
<1>. QED  BY <1>10, <1>11, <1>12, <1>14, <1>15, <1>16 DEF LoginInv, LoginsAreTrue

LEMMA LoginInvNext == LoginInv /\ [LoginNext]_loginVars => LoginInv'
<1>. SUFFICES ASSUME LoginInv, [LoginNext]_loginVars PROVE LoginInv'
  OBVIOUS
<1>1. CASE \E u \in Users :
             \/ SignIn(u) \/ MailLink(u) \/ SignUp(u) \/ Callback(u)
             \/ ResetPassword(u) \/ UpdatePassword(u) \/ Logout(u)
             \/ PageAuthorizes(u)
             \/ \E s \in Logins : PageReads(u, s)
  BY <1>1, WebKeeps, PageAuthorizesKeeps, PageReadsKeeps
<1>2. CASE \E s \in Logins :
             \/ Start(s) \/ StartFails(s) \/ Polling(s) \/ SaveAuth(s)
             \/ Expire(s) \/ ConnectionBreaks(s) \/ InterruptLogin(s)
  BY <1>2, StartKeeps, PollRefusedKeeps, PollReadsKeeps, SaveAuthKeeps, ExpireKeeps, BrokenKeeps
     DEF Polling
<1>3. CASE \E h \in Polls : Mint(h) \/ PollFails(h)
  BY <1>3, MintKeeps, PollFailsKeeps
<1>4. CASE EditCliConfig \/ ForgetAuth \/ PasteToken
  BY <1>4, ConfigKeeps
<1>5. CASE UNCHANGED loginVars
  BY <1>5, AsideKeeps DEF loginVars, LoginInv, LoginTypeOK, histories
<1>. QED  BY <1>1, <1>2, <1>3, <1>4, <1>5 DEF LoginNext

LEMMA LoginInvHolds == LoginSpec => []LoginInv
BY LoginInvInit, LoginInvNext, PTL DEF LoginSpec

\* Sessions, polls and the command line keep their types.
THEOREM LoginsTyped == LoginSpec => []LoginTypeOK
<1>1. LoginInv => LoginTypeOK
  BY DEF LoginInv
<1>. QED  BY LoginInvHolds, <1>1, PTL

\* A token that is saved or minted is of the user the row names, and a session is
\* told "consumed" only after an answer was lost, whichever pages and polls overlap.
THEOREM TokensAreTrue == LoginSpec => []LoginsAreTrue
<1>1. LoginInv => LoginsAreTrue
  BY DEF LoginInv
<1>. QED  BY LoginInvHolds, <1>1, PTL

\* Edits of the config get lost only to a login that had read the file before them.
THEOREM LoginKeepsEdits == LoginSpec => EditsSurvive
<1>1. LoginInv /\ [LoginNext]_loginVars =>
        [cliConfig'.rest < cliConfig.rest =>
           \E s \in Logins : cli[s].at = "saving" /\ cli[s].rest # cliConfig.rest]_loginVars
  <2>. SUFFICES ASSUME LoginInv, [LoginNext]_loginVars, cliConfig'.rest < cliConfig.rest
       PROVE  \E s \in Logins : cli[s].at = "saving" /\ cli[s].rest # cliConfig.rest
    OBVIOUS
  <2>1. /\ cliConfig \in [user : Users \cup {None}, rest : 0..MaxEdits]
        /\ cliConfig' \in [user : Users \cup {None}, rest : 0..MaxEdits]
    BY LoginInvNext DEF LoginInv, LoginTypeOK
  <2>2. cliConfig' # cliConfig
    BY <2>1, LoginAssumption
  <2>3. CASE \E s \in Logins : SaveAuth(s)
    BY <2>1, <2>3, LoginAssumption DEF SaveAuth
  <2>4. CASE EditCliConfig \/ ForgetAuth \/ PasteToken
    BY <2>1, <2>4, LoginAssumption DEF EditCliConfig, ForgetAuth, PasteToken
  <2>. QED
    BY <2>2, <2>3, <2>4
       DEF LoginNext, loginVars, SignIn, MailLink, SignUp, Callback, ResetPassword,
           UpdatePassword, Logout, Browses, PageAuthorizes, PageReads, Start, StartFails,
           Polling, PollRefused, PollReads, Expire, ConnectionBreaks, InterruptLogin, Mint,
           PollFails
<1>. QED  BY <1>1, LoginInvHolds, PTL DEF LoginSpec, EditsSurvive

-----------------------------------------------------------------------------
(* The chat page: while no connection breaks, each message holds the       *)
(* beginning of its own answer.                                            *)
(*                                                                         *)
(* As long as none has broken, one request or stream is under way at a     *)
(* time, that of the last message, with the composer locked, and the       *)
(* message has what the stream has delivered (OneAtATime).                 *)

Message == [content : Seq(Sends \X (1..Tokens)), state : {"pending", "done", "failed"}]
PageJob == [post : {"none", "out", "over"}, rows : 0..Tokens, final : Finals \cup {"none"},
            stream : {"none", "open", "broken", "closed"}, pos : 0..Tokens,
            status : {"none", "out"}]

\* The first tokens of an answer, one by one.
OwnTokens(content, i) ==
    Len(content) <= Tokens /\ \A n \in 1..Len(content) : content[n] = <<i, n>>

\* While no connection breaks one request or stream is under way at a time, that of
\* the last message, and the composer is locked; the message has what the stream
\* has delivered.
OneAtATime ==
    /\ \A j \in Sends :
         /\ job[j].status = "none" /\ job[j].stream # "broken"
         /\ job[j].stream = "open" => j = Last /\ streaming /\ esRef = j
         /\ job[j].post = "out" => j = Last /\ streaming /\ job[j].stream = "none"
         /\ j > Last => job[j].stream = "none" /\ job[j].post = "none"
         /\ job[j].stream = "none" => job[j].pos = 0
    /\ esRef <= Last
    /\ \A i \in DOMAIN messages : OwnTokens(messages[i].content, i)
    /\ streaming => Len(messages[Last].content) = job[Last].pos

PageInv ==
    /\ PageTypeOK
    /\ Last <= MaxSends
    /\ shown <= Last + 1
    /\ streaming => shown <= Last
    /\ breaks = 0 => OneAtATime

LEMMA PageInvInit == PageInit => PageInv
<1>. SUFFICES ASSUME PageInit PROVE PageInv
  OBVIOUS
<1>1. PICK new \in PageJob : /\ job = [j \in Sends |-> new]
                             /\ new.post = "none" /\ new.stream = "none" /\ new.pos = 0
                             /\ new.status = "none"
  <2>1. 0 \in 0..Tokens
    BY PageAssumption
  <2>2. PICK new : new = [post |-> "none", rows |-> 0, final |-> "none", stream |-> "none",
                          pos |-> 0, status |-> "none"]
    OBVIOUS
  <2>3. /\ new \in PageJob /\ new.post = "none" /\ new.stream = "none" /\ new.pos = 0
        /\ new.status = "none"
    BY <2>1, <2>2 DEF PageJob
  <2>. QED  BY <2>2, <2>3 DEF PageInit
<1>2. messages = << >> /\ streaming = FALSE /\ esRef = 0 /\ shown = 1 /\ breaks = 0
  BY DEF PageInit
<1>3. PageTypeOK
  <2>1. messages \in Seq(Message) /\ 1 \in 1..(MaxSends + 1) /\ 0 \in 0..MaxSends
        /\ 0 \in 0..MaxBreaks
    BY <1>2, PageAssumption
  <2>2. job \in [Sends -> PageJob]
    BY <1>1
  <2>. QED  BY <1>2, <2>1, <2>2 DEF PageTypeOK, PageJob, Message
<1>4. OneAtATime
  BY <1>1, <1>2 DEF OneAtATime, Last
<1>. QED  BY <1>2, <1>3, <1>4, PageAssumption DEF PageInv, Last

LEMMA PageFacts ==
    ASSUME PageInv
    PROVE  /\ messages \in Seq(Message) /\ Last \in Nat /\ DOMAIN messages = 1..Last
           /\ \A i \in 1..Last : messages[i] \in Message
           /\ Last <= MaxSends /\ shown <= Last + 1
           /\ shown \in 1..(MaxSends + 1) /\ streaming \in BOOLEAN /\ esRef \in 0..MaxSends
           /\ job \in [Sends -> PageJob] /\ \A j \in Sends : job[j] \in PageJob
           /\ breaks \in 0..MaxBreaks
           /\ MaxSends \in Nat /\ Tokens \in Nat /\ MaxBreaks \in Nat
           /\ Sends = 1..MaxSends
<1>1. messages \in Seq(Message) /\ job \in [Sends -> PageJob]
  BY DEF PageInv, PageTypeOK, Message, PageJob
<1>2. /\ Last <= MaxSends /\ shown <= Last + 1
      /\ shown \in 1..(MaxSends + 1) /\ streaming \in BOOLEAN /\ esRef \in 0..MaxSends
      /\ breaks \in 0..MaxBreaks
  BY DEF PageInv, PageTypeOK
<1>3. Last \in Nat /\ DOMAIN messages = 1..Last /\ \A i \in 1..Last : messages[i] \in Message
  BY <1>1 DEF Last
<1>. QED  BY <1>1, <1>2, <1>3, PageAssumption DEF Sends

\* What a step leaves.
LEMMA PageCombines ==
    ASSUME messages' \in Seq(Message), Len(messages') <= MaxSends,
           shown' \in 1..(MaxSends + 1), streaming' \in BOOLEAN, esRef' \in 0..MaxSends,
           job' \in [Sends -> PageJob], breaks' \in 0..MaxBreaks,
           shown' <= Len(messages') + 1, streaming' => shown' <= Len(messages'),
           breaks' = 0 => OneAtATime'
    PROVE  PageInv'
BY DEF PageInv, PageTypeOK, Message, PageJob, Last

LEMMA ClosedFacts ==
    ASSUME NEW jobs \in [Sends -> PageJob], NEW e \in 0..MaxSends
    PROVE  /\ Closed(jobs, e) \in [Sends -> PageJob]
           /\ \A k \in Sends :
                /\ Closed(jobs, e)[k].post = jobs[k].post
                /\ Closed(jobs, e)[k].pos = jobs[k].pos
                /\ Closed(jobs, e)[k].status = jobs[k].status
                /\ Closed(jobs, e)[k].stream = IF k = e THEN "closed" ELSE jobs[k].stream
<1>1. CASE e = 0
  BY <1>1, PageAssumption DEF Closed, Sends
<1>2. CASE e \in Sends
  <2>1. PICK old \in PageJob : old = jobs[e]
    BY <1>2
  <2>2. PICK new : new = [old EXCEPT !.stream = "closed"]
    OBVIOUS
  <2>3. /\ new \in PageJob /\ new.post = old.post /\ new.pos = old.pos
        /\ new.status = old.status /\ new.stream = "closed"
    BY <2>2 DEF PageJob
  <2>4. e # 0
    BY <1>2, PageAssumption DEF Sends
  <2>5. Closed(jobs, e) = [jobs EXCEPT ![e] = new]
    BY <2>1, <2>2, <2>4 DEF Closed
  <2>. QED  BY <1>2, <2>1, <2>3, <2>5
<1>. QED  BY <1>1, <1>2, PageAssumption DEF Sends

LEMMA UpdateFacts ==
    ASSUME PageInv, NEW m, UpdateLast(m), shown <= Last => m \in Message
    PROVE  /\ messages' \in Seq(Message) /\ Len(messages') = Last
           /\ DOMAIN messages' = 1..Last
           /\ \A i \in 1..Last : i # Last => messages'[i] = messages[i]
           /\ shown <= Last => messages'[Last] = m
           /\ Last < shown => messages' = messages
<1>1. CASE Last < shown
  <2>1. messages' = messages
    BY <1>1 DEF UpdateLast
  <2>. QED  BY <1>1, <2>1, PageFacts DEF Last
<1>2. CASE shown <= Last
  <2>1. Last \in 1..Last
    BY <1>2, PageFacts
  <2>2. messages' = [messages EXCEPT ![Last] = m]
    BY <1>2, PageFacts DEF UpdateLast
  <2>3. DOMAIN messages = 1..Last /\ messages \in Seq(Message) /\ m \in Message
    BY <1>2, PageFacts
  <2>4. messages' \in Seq(Message) /\ DOMAIN messages' = 1..Last
    BY <2>1, <2>2, <2>3
  <2>5. Len(messages') = Last
    BY <2>4, PageFacts
  <2>6. /\ \A i \in 1..Last : i # Last => messages'[i] = messages[i]
        /\ messages'[Last] = m
    BY <2>1, <2>2, <2>3
  <2>7. ~(Last < shown)
    BY <1>2, PageFacts
  <2>. QED  BY <2>4, <2>5, <2>6, <2>7
<1>. QED  BY <1>1, <1>2, PageFacts

\* A message of which only the state changes.
LEMMA StateOnly ==
    ASSUME NEW old \in Message, NEW s \in {"pending", "done", "failed"}, NEW m,
           m = [old EXCEPT !.state = s]
    PROVE  m \in Message /\ m.content = old.content
BY DEF Message

-----------------------------------------------------------------------------
(* The steps of the page. *)

LEMMA OwnRests ==
    ASSUME PageInv, breaks = 0, NEW i \in 1..Last
    PROVE  OwnTokens(messages[i].content, i)
BY PageFacts DEF PageInv, OneAtATime

LEMMA SendKeeps == ASSUME PageInv, SendMessage PROVE PageInv'
<1>1. /\ streaming = FALSE /\ Last < MaxSends /\ streaming' = TRUE
      /\ UNCHANGED <<shown, esRef, breaks>>
      /\ messages' = Append(messages, [content |-> << >>, state |-> "pending"])
      /\ job' = [job EXCEPT ![Last + 1].post = "out"]
  BY PageFacts DEF SendMessage
<1>2. PICK m \in Message : m = [content |-> << >>, state |-> "pending"]
  <2>1. PICK m : m = [content |-> << >>, state |-> "pending"]
    OBVIOUS
  <2>2. << >> \in Seq(Sends \X (1..Tokens))
    OBVIOUS
  <2>3. m \in Message
    BY <2>1, <2>2 DEF Message
  <2>. QED  BY <2>1, <2>3
<1>3. /\ messages' \in Seq(Message) /\ Len(messages') = Last + 1 /\ Last' = Last + 1
      /\ DOMAIN messages' = 1..(Last + 1)
      /\ messages'[Last + 1] = m /\ \A i \in 1..Last : messages'[i] = messages[i]
  BY <1>1, <1>2, PageFacts DEF Last
<1>4. PICK n \in Sends : n = Last + 1
  BY <1>1, PageFacts
<1>5. PICK old \in PageJob, new \in PageJob :
         /\ old = job[n] /\ job' = [job EXCEPT ![n] = new]
         /\ new.post = "out" /\ new.stream = old.stream /\ new.pos = old.pos
         /\ new.status = old.status
  <2>1. PICK old \in PageJob : old = job[n]
    BY PageFacts
  <2>2. PICK new : new = [old EXCEPT !.post = "out"]
    OBVIOUS
  <2>3. /\ new \in PageJob /\ new.post = "out" /\ new.stream = old.stream
        /\ new.pos = old.pos /\ new.status = old.status
    BY <2>2 DEF PageJob
  <2>4. job' = [job EXCEPT ![n] = new]
    BY <1>1, <1>4, <2>1, <2>2
  <2>. QED  BY <2>1, <2>3, <2>4
<1>6. job' \in [Sends -> PageJob] /\ job'[n] = new /\ \A k \in Sends \ {n} : job'[k] = job[k]
  BY <1>5, PageFacts
<1>7. ASSUME breaks = 0 PROVE OneAtATime'
  <2>1. OneAtATime
    BY <1>7 DEF PageInv
  <2>2. /\ new.stream = "none" /\ new.pos = 0 /\ new.status = "none"
        /\ \A k \in Sends : job[k].stream # "open" /\ job[k].post # "out"
    BY <1>1, <1>4, <1>5, <2>1, PageFacts DEF OneAtATime
  <2>3. ASSUME NEW j \in Sends
        PROVE  /\ job'[j].status = "none" /\ job'[j].stream # "broken"
               /\ job'[j].stream = "open" => j = Last' /\ streaming' /\ esRef' = j
               /\ job'[j].post = "out" => j = Last' /\ streaming' /\ job'[j].stream = "none"
               /\ j > Last' => job'[j].stream = "none" /\ job'[j].post = "none"
               /\ job'[j].stream = "none" => job'[j].pos = 0
    <3>1. CASE j = n
      <4>1. job'[j] = new /\ j = Last' /\ ~(j > Last') /\ streaming'
        BY <1>1, <1>3, <1>4, <1>6, <3>1, PageFacts
      <4>. QED  BY <1>5, <2>2, <4>1
    <3>2. CASE j # n
      <4>1. job'[j] = job[j] /\ (j > Last' => j > Last)
        BY <1>3, <1>6, <3>2, PageFacts
      <4>. QED  BY <2>1, <2>2, <4>1 DEF OneAtATime
    <3>. QED  BY <3>1, <3>2
  <2>4. \A i \in DOMAIN messages' : OwnTokens(messages'[i].content, i)
    <3>1. m.content = << >>
      BY <1>2
    <3>2. OwnTokens(m.content, Last + 1)
      BY <3>1, PageFacts DEF OwnTokens
    <3>3. \A i \in 1..Last : OwnTokens(messages'[i].content, i)
      BY <1>3, <1>7, OwnRests
    <3>4. \A i \in DOMAIN messages' : i \in 1..Last \/ i = Last + 1
      BY <1>3, PageFacts
    <3>. QED  BY <1>3, <3>2, <3>3, <3>4
  <2>5. Len(messages'[Last'].content) = job'[Last'].pos
    BY <1>2, <1>3, <1>4, <1>6, <2>2
  <2>6. esRef' <= Last'
    BY <1>1, <1>3, <2>1, PageFacts DEF OneAtATime
  <2>. QED  BY <2>3, <2>4, <2>5, <2>6 DEF OneAtATime
<1>8. shown' <= Len(messages') + 1 /\ shown' <= Len(messages') /\ Len(messages') <= MaxSends
  BY <1>1, <1>3, PageFacts
<1>. QED  BY <1>1, <1>3, <1>6, <1>7, <1>8, PageFacts, PageCombines

\* failPending, whoever calls it: the stream that is current is closed.
LEMMA FailKeeps ==
    ASSUME PageInv, NEW jobs \in [Sends -> PageJob], FailPending(jobs), UNCHANGED <<shown, breaks>>,
           breaks = 0 => \A k \in Sends :
             /\ jobs[k].status = "none" /\ jobs[k].post # "out"
             /\ jobs[k].stream = job[k].stream /\ jobs[k].pos = job[k].pos
             /\ jobs[k].post = "none" \/ job[k].post # "none"
    PROVE  PageInv'
<1>1. streaming' = FALSE /\ esRef' = 0 /\ job' = Closed(jobs, esRef)
  BY DEF FailPending
<1>2. /\ job' \in [Sends -> PageJob]
      /\ \A k \in Sends :
           /\ job'[k].post = jobs[k].post /\ job'[k].pos = jobs[k].pos
           /\ job'[k].status = jobs[k].status
           /\ job'[k].stream = IF k = esRef THEN "closed" ELSE jobs[k].stream
  BY <1>1, ClosedFacts, PageFacts
<1>3. PICK m : m = [messages[Last] EXCEPT !.state = "failed"]
  OBVIOUS
<1>4. shown <= Last => m \in Message /\ m.content = messages[Last].content
  BY <1>3, StateOnly, PageFacts
<1>5. /\ messages' \in Seq(Message) /\ Last' = Last /\ DOMAIN messages' = 1..Last
      /\ \A i \in 1..Last : messages'[i].content = messages[i].content
  <2>1. UpdateLast(IF messages = << >> THEN << >> ELSE m)
    BY <1>3 DEF FailPending
  <2>2. CASE shown <= Last
    <3>1. messages # << >>
      BY <2>2, PageFacts DEF Last
    <3>2. UpdateLast(m)
      BY <2>1, <3>1
    <3>. QED  BY <1>4, <2>2, <3>2, UpdateFacts DEF Last
  <2>3. CASE Last < shown
    <3>1. messages' = messages
      BY <2>1, <2>3 DEF UpdateLast
    <3>. QED  BY <3>1, PageFacts DEF Last
  <2>. QED  BY <2>2, <2>3, PageFacts
<1>6. ASSUME breaks = 0 PROVE OneAtATime'
  <2>1. OneAtATime
    BY <1>6 DEF PageInv
  <2>2. ASSUME NEW j \in Sends
        PROVE  /\ job'[j].status = "none" /\ job'[j].stream # "broken"
               /\ job'[j].stream # "open" /\ job'[j].post # "out"
               /\ j > Last => job'[j].stream = "none" /\ job'[j].post = "none"
               /\ job'[j].stream = "none" => job'[j].pos = 0
    <3>1. /\ job'[j].status = "none" /\ job'[j].post # "out"
          /\ job'[j].post = "none" \/ job[j].post # "none"
          /\ job'[j].pos = job[j].pos
          /\ job'[j].stream = IF j = esRef THEN "closed" ELSE job[j].stream
      BY <1>2, <1>6
    <3>2. job'[j].stream # "broken" /\ job'[j].stream # "open"
      BY <2>1, <3>1 DEF OneAtATime
    <3>3. j > Last => j # esRef /\ job[j].stream = "none" /\ job[j].post = "none"
      <4>1. esRef <= Last
        BY <2>1 DEF OneAtATime
      <4>. QED  BY <2>1, <4>1, PageFacts DEF OneAtATime
    <3>4. job'[j].stream = "none" => job'[j].pos = 0
      BY <2>1, <3>1 DEF OneAtATime
    <3>. QED  BY <3>1, <3>2, <3>3, <3>4
  <2>3. \A i \in DOMAIN messages' : OwnTokens(messages'[i].content, i)
    BY <1>5, <1>6, OwnRests
  <2>4. esRef' <= Last'
    BY <1>1, <1>5, PageFacts
  <2>. QED  BY <1>1, <1>5, <2>2, <2>3, <2>4 DEF OneAtATime
<1>7. Len(messages') = Last
  BY <1>5 DEF Last
<1>8. /\ shown' = shown /\ breaks' = breaks /\ streaming' = FALSE /\ esRef' \in 0..MaxSends
      /\ shown' <= Len(messages') + 1 /\ Len(messages') <= MaxSends
  BY <1>1, <1>7, PageFacts
<1>. QED  BY <1>2, <1>5, <1>6, <1>8, PageFacts, PageCombines

\* A job of which one step changes a few fields.
LEMMA OneJobOf ==
    ASSUME PageInv, NEW j \in Sends, NEW new \in PageJob
    PROVE  /\ [job EXCEPT ![j] = new] \in [Sends -> PageJob]
           /\ [job EXCEPT ![j] = new][j] = new
           /\ \A k \in Sends \ {j} : [job EXCEPT ![j] = new][k] = job[k]
BY PageFacts

LEMMA PostFailsKeeps == ASSUME PageInv, NEW j \in Sends, PostFails(j) PROVE PageInv'
<1>1. /\ job[j].post = "out" /\ FailPending([job EXCEPT ![j].post = "over"])
      /\ UNCHANGED <<shown, breaks>>
  BY DEF PostFails
<1>2. PICK old \in PageJob : old = job[j]
  BY PageFacts
<1>3. PICK new : new = [old EXCEPT !.post = "over"]
  OBVIOUS
<1>4. /\ new \in PageJob /\ new.post = "over" /\ new.stream = old.stream /\ new.pos = old.pos
      /\ new.status = old.status
  BY <1>3 DEF PageJob
<1>5. PICK jobs \in [Sends -> PageJob] :
         /\ jobs = [job EXCEPT ![j].post = "over"] /\ jobs[j] = new
         /\ \A k \in Sends \ {j} : jobs[k] = job[k]
  <2>1. [job EXCEPT ![j].post = "over"] = [job EXCEPT ![j] = new]
    BY <1>2, <1>3, PageFacts
  <2>. QED  BY <1>4, <2>1, OneJobOf
<1>6. ASSUME breaks = 0, NEW k \in Sends
      PROVE  /\ jobs[k].status = "none" /\ jobs[k].post # "out"
             /\ jobs[k].stream = job[k].stream /\ jobs[k].pos = job[k].pos
             /\ jobs[k].post = "none" \/ job[k].post # "none"
  <2>1. OneAtATime
    BY <1>6 DEF PageInv
  <2>2. CASE k = j
    BY <1>1, <1>2, <1>4, <1>5, <2>1, <2>2 DEF OneAtATime
  <2>3. CASE k # j
    <3>1. j = Last /\ (job[k].post = "out" => k = Last)
      BY <1>1, <2>1 DEF OneAtATime
    <3>. QED  BY <1>5, <2>1, <2>3, <3>1 DEF OneAtATime
  <2>. QED  BY <2>2, <2>3
<1>. QED  BY <1>1, <1>5, <1>6, FailKeeps

LEMMA ErrorKeeps == ASSUME PageInv, NEW j \in Sends, ErrorListener(j) PROVE PageInv'
<1>1. job[j].stream = "open" /\ FailPending(job) /\ UNCHANGED <<shown, breaks>>
  BY DEF ErrorListener, AtFinal
<1>2. ASSUME breaks = 0, NEW k \in Sends
      PROVE  job[k].status = "none" /\ job[k].post # "out"
  <2>1. OneAtATime
    BY <1>2 DEF PageInv
  <2>. QED  BY <1>1, <2>1 DEF OneAtATime
<1>. QED  BY <1>1, <1>2, FailKeeps, PageFacts

LEMMA StatusKeeps == ASSUME PageInv, NEW j \in Sends, StatusAnswered(j) PROVE PageInv'
<1>1. /\ job[j].status = "out" /\ FailPending([job EXCEPT ![j].status = "none"])
      /\ UNCHANGED <<shown, breaks>>
  BY DEF StatusAnswered
<1>2. breaks # 0
  BY <1>1 DEF PageInv, OneAtATime
<1>3. [job EXCEPT ![j].status = "none"] \in [Sends -> PageJob]
  <2>1. PICK old \in PageJob : old = job[j]
    BY PageFacts
  <2>2. PICK new : new = [old EXCEPT !.status = "none"]
    OBVIOUS
  <2>3. new \in PageJob
    BY <2>2 DEF PageJob
  <2>4. [job EXCEPT ![j].status = "none"] = [job EXCEPT ![j] = new]
    BY <2>1, <2>2, PageFacts
  <2>. QED  BY <2>3, <2>4, OneJobOf
<1>. QED  BY <1>1, <1>2, <1>3, FailKeeps

\* A step that leaves the messages as they are.
LEMMA JobOnly ==
    ASSUME PageInv, UNCHANGED <<messages, shown, streaming>>, job' \in [Sends -> PageJob],
           esRef' \in 0..MaxSends, breaks' \in 0..MaxBreaks, breaks' = 0 => OneAtATime'
    PROVE  PageInv'
<1>1. messages' = messages /\ shown' = shown /\ streaming' = streaming
  OBVIOUS
<1>2. /\ messages' \in Seq(Message) /\ Len(messages') <= MaxSends
      /\ shown' \in 1..(MaxSends + 1) /\ streaming' \in BOOLEAN
      /\ shown' <= Len(messages') + 1
      /\ streaming' => shown' <= Len(messages')
  BY <1>1 DEF PageInv, PageTypeOK, Message, Last
<1>3. /\ job' \in [Sends -> PageJob] /\ esRef' \in 0..MaxSends /\ breaks' \in 0..MaxBreaks
      /\ breaks' = 0 => OneAtATime'
  OBVIOUS
<1>. QED  BY <1>2, <1>3, PageCombines

LEMMA AnsweredKeeps == ASSUME PageInv, NEW j \in Sends, PostAnswered(j) PROVE PageInv'
<1>1. /\ job[j].post = "out" /\ esRef' = j /\ UNCHANGED <<messages, shown, streaming, breaks>>
      /\ job' = [job EXCEPT ![j].post = "over", ![j].stream = "open"]
  BY DEF PostAnswered
<1>2. PICK old \in PageJob : old = job[j]
  BY PageFacts
<1>3. PICK new : new = [old EXCEPT !.post = "over", !.stream = "open"]
  OBVIOUS
<1>4. /\ new \in PageJob /\ new.post = "over" /\ new.stream = "open" /\ new.pos = old.pos
      /\ new.status = old.status
  BY <1>3 DEF PageJob
<1>5. job' = [job EXCEPT ![j] = new]
  BY <1>1, <1>2, <1>3, PageFacts
<1>6. job' \in [Sends -> PageJob] /\ job'[j] = new /\ \A k \in Sends \ {j} : job'[k] = job[k]
  BY <1>4, <1>5, OneJobOf
<1>7. ASSUME breaks = 0 PROVE OneAtATime'
  <2>1. OneAtATime
    BY <1>7 DEF PageInv
  <2>2. j = Last /\ streaming /\ old.stream = "none" /\ old.pos = 0 /\ old.status = "none"
    BY <1>1, <1>2, <2>1 DEF OneAtATime
  <2>3. Last' = Last /\ streaming' = streaming /\ messages' = messages
    BY <1>1 DEF Last
  <2>4. ASSUME NEW k \in Sends
        PROVE  /\ job'[k].status = "none" /\ job'[k].stream # "broken"
               /\ job'[k].stream = "open" => k = Last' /\ streaming' /\ esRef' = k
               /\ job'[k].post = "out" => k = Last' /\ streaming' /\ job'[k].stream = "none"
               /\ k > Last' => job'[k].stream = "none" /\ job'[k].post = "none"
               /\ job'[k].stream = "none" => job'[k].pos = 0
    <3>1. CASE k = j
      <4>1. job'[k] = new /\ k = Last' /\ ~(k > Last') /\ streaming' /\ esRef' = k
        BY <1>1, <1>6, <2>2, <2>3, <3>1, PageFacts
      <4>. QED  BY <1>4, <2>2, <4>1
    <3>2. CASE k # j
      <4>1. job'[k] = job[k] /\ k # Last
        BY <1>6, <2>2, <3>2
      <4>. QED  BY <2>1, <2>3, <4>1 DEF OneAtATime
    <3>. QED  BY <3>1, <3>2
  <2>5. Len(messages'[Last'].content) = job'[Last'].pos
    BY <1>2, <1>4, <1>6, <2>1, <2>2, <2>3 DEF OneAtATime
  <2>6. \A i \in DOMAIN messages' : OwnTokens(messages'[i].content, i)
    BY <2>1, <2>3 DEF OneAtATime
  <2>7. esRef' <= Last'
    BY <1>1, <2>2, <2>3, PageFacts
  <2>. QED  BY <2>4, <2>5, <2>6, <2>7 DEF OneAtATime
<1>. QED  BY <1>1, <1>6, <1>7, PageFacts, JobOnly

LEMMA TokenKeeps == ASSUME PageInv, NEW j \in Sends, TokenListener(j) PROVE PageInv'
<1>1. /\ job[j].stream = "open" /\ job[j].pos < job[j].rows
      /\ job' = [job EXCEPT ![j].pos = @ + 1]
      /\ UpdateLast([messages[Last] EXCEPT !.content = Append(@, <<j, job[j].pos + 1>>)])
      /\ UNCHANGED <<shown, streaming, esRef, breaks>>
  BY DEF TokenListener
<1>2. PICK old \in PageJob : old = job[j]
  BY PageFacts
<1>3. old.pos \in 0..Tokens /\ old.pos + 1 \in 1..Tokens
  BY <1>1, <1>2, PageFacts DEF PageJob
<1>4. PICK new : new = [old EXCEPT !.pos = old.pos + 1]
  OBVIOUS
<1>5. /\ new \in PageJob /\ new.post = old.post /\ new.stream = old.stream
      /\ new.pos = old.pos + 1 /\ new.status = old.status
  BY <1>3, <1>4 DEF PageJob
<1>6. job' = [job EXCEPT ![j] = new]
  BY <1>1, <1>2, <1>4, PageFacts
<1>7. job' \in [Sends -> PageJob] /\ job'[j] = new /\ \A k \in Sends \ {j} : job'[k] = job[k]
  BY <1>5, <1>6, OneJobOf
<1>8. PICK token \in Sends \X (1..Tokens) : token = <<j, old.pos + 1>>
  BY <1>3
<1>9. PICK m : /\ m = [messages[Last] EXCEPT !.content = Append(@, token)]
               /\ UpdateLast(m)
  BY <1>1, <1>2, <1>8
<1>10. ASSUME shown <= Last
       PROVE  m \in Message /\ m.content = Append(messages[Last].content, token)
  <2>1. PICK was \in Message : was = messages[Last]
    BY <1>10, PageFacts
  <2>2. was.content \in Seq(Sends \X (1..Tokens))
    BY DEF Message
  <2>3. Append(was.content, token) \in Seq(Sends \X (1..Tokens))
    BY <2>2
  <2>4. m = [was EXCEPT !.content = Append(was.content, token)]
    BY <1>9, <2>1
  <2>. QED  BY <2>1, <2>3, <2>4 DEF Message
<1>11. /\ messages' \in Seq(Message) /\ Len(messages') = Last /\ Last' = Last
       /\ DOMAIN messages' = 1..Last
       /\ \A i \in 1..Last : i # Last => messages'[i] = messages[i]
       /\ shown <= Last => messages'[Last] = m
  BY <1>9, <1>10, UpdateFacts DEF Last
<1>12. ASSUME breaks = 0 PROVE OneAtATime'
  <2>1. OneAtATime
    BY <1>12 DEF PageInv
  <2>2. j = Last /\ streaming /\ esRef = j
    BY <1>1, <2>1 DEF OneAtATime
  <2>3. shown <= Last /\ streaming' = streaming /\ esRef' = esRef
    BY <1>1, <2>2 DEF PageInv
  <2>4. Last \in 1..Last
    BY <2>3, PageFacts
  <2>5. PICK c \in Seq(Sends \X (1..Tokens)) :
           /\ c = messages[Last].content /\ Len(c) = old.pos /\ OwnTokens(c, Last)
    <3>1. messages[Last].content \in Seq(Sends \X (1..Tokens))
      BY <2>4, PageFacts DEF Message
    <3>. QED  BY <1>2, <1>12, <2>1, <2>2, <2>4, <3>1, OwnRests DEF OneAtATime
  <2>6. messages'[Last].content = Append(c, token)
    BY <1>10, <1>11, <2>3, <2>5
  <2>7. Len(messages'[Last].content) = old.pos + 1 /\ OwnTokens(messages'[Last].content, Last)
    <3>1. Len(Append(c, token)) = old.pos + 1 /\ Append(c, token)[old.pos + 1] = token
      BY <2>5
    <3>2. \A n \in 1..old.pos : Append(c, token)[n] = c[n]
      BY <2>5
    <3>3. \A n \in 1..(old.pos + 1) : n \in 1..old.pos \/ n = old.pos + 1
      BY <1>3
    <3>4. \A n \in 1..(old.pos + 1) : Append(c, token)[n] = <<Last, n>>
      BY <1>8, <2>2, <2>5, <3>1, <3>2, <3>3 DEF OwnTokens
    <3>5. old.pos + 1 <= Tokens
      BY <1>3, PageFacts
    <3>6. OwnTokens(Append(c, token), Last)
      BY <3>1, <3>4, <3>5 DEF OwnTokens
    <3>. QED  BY <2>6, <3>1, <3>6
  <2>8. \A i \in DOMAIN messages' : OwnTokens(messages'[i].content, i)
    BY <1>11, <1>12, <2>7, OwnRests
  <2>9. ASSUME NEW k \in Sends
        PROVE  /\ job'[k].status = "none" /\ job'[k].stream # "broken"
               /\ job'[k].stream = "open" => k = Last' /\ streaming' /\ esRef' = k
               /\ job'[k].post = "out" => k = Last' /\ streaming' /\ job'[k].stream = "none"
               /\ k > Last' => job'[k].stream = "none" /\ job'[k].post = "none"
               /\ job'[k].stream = "none" => job'[k].pos = 0
    <3>1. CASE k = j
      <4>1. /\ job'[k] = new /\ k = Last' /\ ~(k > Last') /\ streaming' /\ esRef' = k
            /\ new.stream = "open" /\ new.status = "none" /\ new.post # "out"
        BY <1>1, <1>2, <1>5, <1>7, <1>11, <2>1, <2>2, <2>3, <3>1, PageFacts DEF OneAtATime
      <4>. QED  BY <4>1
    <3>2. CASE k # j
      <4>1. job'[k] = job[k]
        BY <1>7, <3>2
      <4>. QED  BY <1>11, <2>1, <2>3, <4>1 DEF OneAtATime
    <3>. QED  BY <3>1, <3>2
  <2>10. Len(messages'[Last'].content) = job'[Last'].pos
    BY <1>5, <1>7, <1>11, <2>2, <2>7
  <2>11. esRef' <= Last'
    BY <1>11, <2>1, <2>3 DEF OneAtATime
  <2>. QED  BY <2>8, <2>9, <2>10, <2>11 DEF OneAtATime
<1>13. /\ shown' = shown /\ breaks' = breaks /\ streaming' = streaming /\ esRef' = esRef
       /\ Len(messages') <= MaxSends /\ shown' <= Len(messages') + 1
       /\ streaming' => shown' <= Len(messages')
  BY <1>1, <1>11, PageFacts DEF PageInv
<1>. QED  BY <1>7, <1>11, <1>12, <1>13, PageFacts, PageCombines

LEMMA DoneKeeps == ASSUME PageInv, NEW j \in Sends, DoneListener(j) PROVE PageInv'
<1>1. /\ job[j].stream = "open" /\ job' = Closed(job, j)
      /\ esRef' = 0 /\ streaming' = FALSE /\ UNCHANGED <<shown, breaks>>
      /\ UpdateLast([messages[Last] EXCEPT !.state = "done"])
  BY DEF DoneListener, AtFinal
<1>2. /\ job' \in [Sends -> PageJob]
      /\ \A k \in Sends :
           /\ job'[k].post = job[k].post /\ job'[k].pos = job[k].pos
           /\ job'[k].status = job[k].status
           /\ job'[k].stream = IF k = j THEN "closed" ELSE job[k].stream
  <2>1. j \in 0..MaxSends
    BY PageFacts
  <2>2. job \in [Sends -> PageJob]
    BY PageFacts
  <2>. QED  BY <1>1, <2>1, <2>2, ClosedFacts
<1>3. PICK m : m = [messages[Last] EXCEPT !.state = "done"] /\ UpdateLast(m)
  BY <1>1
<1>4. shown <= Last => m \in Message /\ m.content = messages[Last].content
  BY <1>3, StateOnly, PageFacts
<1>5. /\ messages' \in Seq(Message) /\ Last' = Last /\ DOMAIN messages' = 1..Last
      /\ \A i \in 1..Last : messages'[i].content = messages[i].content
      /\ Len(messages') = Last
  <2>1. CASE shown <= Last
    BY <1>3, <1>4, <2>1, UpdateFacts DEF Last
  <2>2. CASE Last < shown
    <3>1. messages' = messages
      BY <1>3, <2>2 DEF UpdateLast
    <3>. QED  BY <3>1, PageFacts DEF Last
  <2>. QED  BY <2>1, <2>2, PageFacts
<1>6. ASSUME breaks = 0 PROVE OneAtATime'
  <2>1. OneAtATime
    BY <1>6 DEF PageInv
  <2>2. j = Last
    BY <1>1, <2>1 DEF OneAtATime
  <2>3. ASSUME NEW k \in Sends
        PROVE  /\ job'[k].status = "none" /\ job'[k].stream # "broken"
               /\ job'[k].stream # "open" /\ job'[k].post # "out"
               /\ k > Last => job'[k].stream = "none" /\ job'[k].post = "none"
               /\ job'[k].stream = "none" => job'[k].pos = 0
    <3>1. /\ job'[k].post = job[k].post /\ job'[k].pos = job[k].pos
          /\ job'[k].status = job[k].status
          /\ job'[k].stream = IF k = j THEN "closed" ELSE job[k].stream
      BY <1>2
    <3>2. k > Last => k # j
      BY <2>2, PageFacts
    <3>. QED  BY <1>1, <2>1, <2>2, <3>1, <3>2 DEF OneAtATime
  <2>4. \A i \in DOMAIN messages' : OwnTokens(messages'[i].content, i)
    BY <1>5, <1>6, OwnRests
  <2>5. esRef' <= Last'
    BY <1>1, <1>5, PageFacts
  <2>. QED  BY <1>1, <1>5, <2>3, <2>4, <2>5 DEF OneAtATime
<1>7. /\ shown' = shown /\ breaks' = breaks /\ streaming' = FALSE /\ esRef' \in 0..MaxSends
      /\ shown' <= Len(messages') + 1 /\ Len(messages') <= MaxSends
  BY <1>1, <1>5, PageFacts
<1>. QED  BY <1>2, <1>5, <1>6, <1>7, PageFacts, PageCombines

LEMMA BreakKeeps == ASSUME PageInv, NEW j \in Sends, StreamBreaks(j) PROVE PageInv'
<1>1. /\ breaks' = breaks + 1 /\ breaks < MaxBreaks
      /\ UNCHANGED <<messages, shown, streaming, esRef>>
      /\ job' = [job EXCEPT ![j].stream = "broken", ![j].status = "out"]
  BY DEF StreamBreaks
<1>2. PICK old \in PageJob : old = job[j]
  BY PageFacts
<1>3. PICK new : new = [old EXCEPT !.stream = "broken", !.status = "out"]
  OBVIOUS
<1>4. new \in PageJob
  BY <1>3 DEF PageJob
<1>5. job' = [job EXCEPT ![j] = new]
  BY <1>1, <1>2, <1>3, PageFacts
<1>6. job' \in [Sends -> PageJob]
  BY <1>4, <1>5, OneJobOf
<1>7. breaks' \in 0..MaxBreaks /\ breaks' # 0 /\ esRef' \in 0..MaxSends
  BY <1>1, PageFacts
<1>. QED  BY <1>1, <1>6, <1>7, JobOnly

LEMMA ReconnectKeeps == ASSUME PageInv, NEW j \in Sends, Reconnect(j) PROVE PageInv'
<1>1. /\ job[j].stream = "broken" /\ UNCHANGED <<messages, shown, streaming, esRef, breaks>>
      /\ job' = [job EXCEPT ![j].stream = "open", ![j].pos = 0]
  BY DEF Reconnect
<1>2. PICK old \in PageJob : old = job[j]
  BY PageFacts
<1>3. PICK new : new = [old EXCEPT !.stream = "open", !.pos = 0]
  OBVIOUS
<1>4. new \in PageJob
  <2>1. 0 \in 0..Tokens
    BY PageAssumption
  <2>. QED  BY <1>3, <2>1 DEF PageJob
<1>5. job' = [job EXCEPT ![j] = new]
  BY <1>1, <1>2, <1>3, PageFacts
<1>6. job' \in [Sends -> PageJob]
  BY <1>4, <1>5, OneJobOf
<1>7. breaks # 0
  BY <1>1 DEF PageInv, OneAtATime
<1>. QED  BY <1>1, <1>6, <1>7, JobOnly, PageFacts

\* What the page does not see leaves it as it is.
LEMMA UnseenKeeps ==
    ASSUME PageInv, NEW j \in Sends, NEW new \in PageJob,
           new.post = job[j].post /\ new.stream = job[j].stream,
           new.pos = job[j].pos /\ new.status = job[j].status,
           job' = [job EXCEPT ![j] = new], UNCHANGED <<messages, shown, streaming, esRef, breaks>>
    PROVE  PageInv'
<1>1. job' \in [Sends -> PageJob] /\ job'[j] = new /\ \A k \in Sends \ {j} : job'[k] = job[k]
  BY OneJobOf
<1>2. \A k \in Sends : /\ job'[k].post = job[k].post /\ job'[k].stream = job[k].stream
                       /\ job'[k].pos = job[k].pos /\ job'[k].status = job[k].status
  BY <1>1
<1>3. /\ messages' = messages /\ streaming' = streaming /\ esRef' = esRef /\ Last' = Last
      /\ breaks' = breaks
  BY DEF Last
<1>4. ASSUME breaks = 0 PROVE OneAtATime'
  <2>1. OneAtATime
    BY <1>4 DEF PageInv
  <2>2. ASSUME streaming PROVE Len(messages[Last].content) = job'[Last].pos
    <3>1. Last \in Sends
      BY <2>2, PageFacts DEF PageInv
    <3>. QED  BY <1>2, <2>1, <2>2, <3>1 DEF OneAtATime
  <2>. QED  BY <1>2, <1>3, <2>1, <2>2 DEF OneAtATime
<1>. QED  BY <1>1, <1>3, <1>4, JobOnly, PageFacts

LEMMA RowKeeps == ASSUME PageInv, NEW j \in Sends, RowWritten(j) PROVE PageInv'
<1>1. UNCHANGED <<messages, shown, streaming, esRef, breaks>>
  BY DEF RowWritten
<1>2. PICK old \in PageJob : old = job[j]
  BY PageFacts
<1>3. CASE job[j].rows < Tokens /\ job' = [job EXCEPT ![j].rows = @ + 1]
  <2>1. PICK new : new = [old EXCEPT !.rows = old.rows + 1]
    OBVIOUS
  <2>2. old.rows + 1 \in 0..Tokens
    BY <1>2, <1>3, PageFacts DEF PageJob
  <2>3. /\ new \in PageJob /\ new.post = old.post /\ new.stream = old.stream
        /\ new.pos = old.pos /\ new.status = old.status
    BY <2>1, <2>2 DEF PageJob
  <2>4. job' = [job EXCEPT ![j] = new]
    BY <1>2, <1>3, <2>1, PageFacts
  <2>. QED  BY <1>1, <1>2, <2>3, <2>4, UnseenKeeps
<1>4. ASSUME NEW f \in Finals, job' = [job EXCEPT ![j].final = f] PROVE PageInv'
  <2>1. PICK new : new = [old EXCEPT !.final = f]
    OBVIOUS
  <2>2. /\ new \in PageJob /\ new.post = old.post /\ new.stream = old.stream
        /\ new.pos = old.pos /\ new.status = old.status
    BY <1>4, <2>1 DEF PageJob
  <2>3. job' = [job EXCEPT ![j] = new]
    BY <1>2, <1>4, <2>1, PageFacts
  <2>. QED  BY <1>1, <1>2, <2>2, <2>3, UnseenKeeps
<1>. QED  BY <1>3, <1>4 DEF RowWritten

LEMMA ClearKeeps == ASSUME PageInv, ClearConversation PROVE PageInv'
<1>1. /\ streaming = FALSE /\ shown' = Last + 1
      /\ UNCHANGED <<messages, streaming, esRef, job, breaks>>
  BY PageFacts DEF ClearConversation
<1>2. /\ messages' = messages /\ streaming' = FALSE /\ esRef' = esRef /\ job' = job
      /\ breaks' = breaks /\ Len(messages') = Last
  BY <1>1 DEF Last
<1>3. breaks = 0 => OneAtATime'
  BY <1>1, <1>2 DEF PageInv, OneAtATime, Last
<1>4. shown' \in 1..(MaxSends + 1) /\ shown' <= Len(messages') + 1 /\ Len(messages') <= MaxSends
  BY <1>1, <1>2, PageFacts
<1>. QED  BY <1>2, <1>3, <1>4, PageFacts, PageCombines

LEMMA PageInvNext == ASSUME PageInv, PageNext PROVE PageInv'
<1>1. CASE SendMessage \/ ClearConversation
  BY <1>1, SendKeeps, ClearKeeps
<1>2. ASSUME NEW j \in Sends, Answers(j) \/ PageListens(j) PROVE PageInv'
  BY <1>2, PostFailsKeeps, AnsweredKeeps, TokenKeeps, DoneKeeps, ErrorKeeps
     DEF Answers, PageListens
<1>3. ASSUME NEW j \in Sends,
             StatusAnswered(j) \/ StreamBreaks(j) \/ Reconnect(j) \/ RowWritten(j)
      PROVE  PageInv'
  BY <1>3, StatusKeeps, BreakKeeps, ReconnectKeeps, RowKeeps
<1>. QED  BY <1>1, <1>2, <1>3 DEF PageNext

LEMMA PageInvStutters == ASSUME PageInv, UNCHANGED pageVars PROVE PageInv'
<1>1. /\ messages' = messages /\ shown' = shown /\ streaming' = streaming
      /\ esRef' = esRef /\ job' = job /\ breaks' = breaks
  BY DEF pageVars
<1>. QED  BY <1>1 DEF PageInv, PageTypeOK, OneAtATime, Last

LEMMA PageInvHolds == PageSpec => []PageInv
<1>1. PageInv /\ [PageNext]_pageVars => PageInv'
  BY PageInvNext, PageInvStutters
<1>. QED  BY <1>1, PageInvInit, PTL DEF PageSpec

LEMMA OwnTokensBegin ==
    ASSUME NEW s \in Seq(Sends \X (1..Tokens)), NEW i, OwnTokens(s, i)
    PROVE  PrefixOf(s, Whole(i))
<1>1. PICK whole : whole = Whole(i)
  OBVIOUS
<1>2. /\ whole \in Seq({i} \X (1..Tokens)) /\ Len(whole) = Tokens
      /\ \A n \in 1..Tokens : whole[n] = <<i, n>>
  BY <1>1, PageAssumption DEF Whole
<1>3. Len(s) \in Nat /\ Len(s) <= Tokens /\ \A n \in 1..Len(s) : s[n] = <<i, n>>
  BY DEF OwnTokens
<1>4. PICK part : part = SubSeq(whole, 1, Len(s))
  OBVIOUS
<1>5. /\ part = [n \in 1..Len(s) |-> whole[n]]
  BY <1>2, <1>3, <1>4
<1>6. s = [n \in 1..Len(s) |-> s[n]]
  OBVIOUS
<1>7. \A n \in 1..Len(s) : whole[n] = s[n]
  <2>1. \A n \in 1..Len(s) : n \in 1..Tokens
    BY <1>3, PageAssumption
  <2>. QED  BY <1>2, <1>3, <2>1
<1>8. s = part
  BY <1>5, <1>6, <1>7
<1>. QED  BY <1>1, <1>2, <1>3, <1>4, <1>8 DEF PrefixOf

\* Messages, jobs and what the page remembers of them keep their types.
THEOREM PageTyped == PageSpec => []PageTypeOK
<1>1. PageInv => PageTypeOK
  BY DEF PageInv
<1>. QED  BY <1>1, PageInvHolds, PTL

\* For any number of messages and tokens: until a connection breaks, the listeners,
\* which all write to the last message, give each the beginning of its own answer.
THEOREM OwnAnswersHold == PageSpec => []OwnAnswer
<1>1. ASSUME PageInv PROVE OwnAnswer
  <2>1. ASSUME breaks = 0, NEW i \in DOMAIN messages
        PROVE  PrefixOf(messages[i].content, Whole(i))
    <3>1. i \in 1..Last /\ messages[i] \in Message
      BY <1>1, <2>1, PageFacts
    <3>2. messages[i].content \in Seq(Sends \X (1..Tokens))
      BY <3>1 DEF Message
    <3>3. OwnTokens(messages[i].content, i)
      BY <1>1, <2>1, <3>1, OwnRests
    <3>. QED  BY <3>2, <3>3, OwnTokensBegin
  <2>. QED  BY <2>1 DEF OwnAnswer
<1>. QED  BY <1>1, PageInvHolds, PTL

-----------------------------------------------------------------------------
(* Routing: a daemon that is down has nothing, and a chat is worked on by  *)
(* no machine but the one it was given to.                                 *)

Chat == [at : {"quiet", "picking", "assigned", "elsewhere"}, model : ChatModels \cup {Nothing},
         read : SUBSET Nodes, node : Nodes \cup {Nothing}]

\* A daemon that is down works on nothing and remembers no specs.
DownIsEmpty == \A n \in Nodes : n \notin awake => busy[n] = {} /\ specsCache[n] = Nothing

\* A chat that a machine works on is assigned to that machine.
WorkedWhereAssigned ==
    \A n \in Nodes : \A c \in busy[n] : chat[c].at = "assigned" /\ chat[c].node = n

RoutingInv == RoutingTypeOK /\ DownIsEmpty /\ WorkedWhereAssigned

LEMMA ChatTyped ==
    ASSUME RoutingTypeOK
    PROVE  chat \in [Clients -> Chat] /\ ad \in [Nodes -> Ad \cup {Nothing}]
BY DEF RoutingTypeOK, Chat

LEMMA RoutingInvInit == RoutingInit => RoutingInv
<1>. SUFFICES ASSUME RoutingInit PROVE RoutingInv
  OBVIOUS
<1>1. PICK q \in Chat : q = Quiet
  BY DEF Quiet, Chat
<1>2. chat \in [Clients -> Chat]
  BY <1>1 DEF RoutingInit
<1>3. /\ onDisk \in [Nodes -> SUBSET ChatModels] /\ awake \subseteq Nodes
      /\ specsCache \in [Nodes -> (SUBSET ChatModels) \cup {Nothing}]
      /\ busy \in [Nodes -> SUBSET Clients] /\ ad \in [Nodes -> Ad \cup {Nothing}]
  BY DEF RoutingInit
<1>4. RoutingTypeOK
  BY <1>2, <1>3 DEF RoutingTypeOK, Chat
<1>. QED  BY <1>4 DEF RoutingInit, RoutingInv, DownIsEmpty, WorkedWhereAssigned

LEMMA RegisterRoutes == ASSUME RoutingInv, NEW n \in Nodes, RegisterAd(n) PROVE RoutingInv'
<1>1. PICK new : /\ new = [status |-> "available", age |-> "now", served |-> {},
                           load |-> 0, known |-> FALSE]
                 /\ ad' = [ad EXCEPT ![n] = new]
  BY DEF RegisterAd
<1>2. Cardinality(Clients) \in Nat
  BY RoutingAssumption, FS_CardinalityType
<1>3. new \in Ad
  <2>1. 0 \in 0..Cardinality(Clients)
    BY <1>2
  <2>. QED  BY <1>1, <2>1 DEF Ad, Ages
<1>4. UNCHANGED <<machineVars, chat>>
  BY DEF RegisterAd
<1>5. ad' \in [Nodes -> Ad \cup {Nothing}]
  BY <1>1, <1>3, ChatTyped DEF RoutingInv
<1>. QED  BY <1>4, <1>5 DEF RoutingInv, RoutingTypeOK, DownIsEmpty, WorkedWhereAssigned, machineVars

LEMMA StartRoutes == ASSUME RoutingInv, NEW n \in Nodes, StartDaemon(n) PROVE RoutingInv'
<1>1. awake' = awake \cup {n} /\ UNCHANGED <<onDisk, specsCache, busy, ad, chat>>
  BY DEF StartDaemon
<1>. QED  BY <1>1 DEF RoutingInv, RoutingTypeOK, DownIsEmpty, WorkedWhereAssigned

\* What a daemon counts is at most what there is.
LEMMA LoadIsBounded ==
    ASSUME RoutingInv, NEW n \in Nodes PROVE LiveLoad(n) \in 0..Cardinality(Clients)
<1>1. busy[n] \subseteq Clients
  BY DEF RoutingInv, RoutingTypeOK
<1>2. IsFiniteSet(Clients)
  BY RoutingAssumption
<1>3. /\ Cardinality(busy[n]) \in Nat /\ Cardinality(Clients) \in Nat
      /\ Cardinality(busy[n]) <= Cardinality(Clients)
  BY <1>1, <1>2, FS_Subset, FS_CardinalityType
<1>. QED  BY <1>3 DEF LiveLoad

LEMMA BeatRoutes ==
    ASSUME RoutingInv, NEW n \in Nodes, NEW s \in SUBSET ChatModels, HeartbeatWith(n, s)
    PROVE  RoutingInv'
<1>1. /\ n \in awake /\ specsCache' = [specsCache EXCEPT ![n] = s]
      /\ UNCHANGED <<onDisk, awake, busy, chat>>
  BY DEF HeartbeatWith
<1>2. ad' \in [Nodes -> Ad \cup {Nothing}]
  <2>1. CASE ad[n] = Nothing
    BY <2>1, ChatTyped DEF HeartbeatWith, RoutingInv
  <2>2. CASE ad[n] # Nothing
    <3>1. PICK old \in Ad : old = ad[n]
      BY <2>2, ChatTyped DEF RoutingInv
    <3>2. PICK new : new = [old EXCEPT !.status = "available", !.age = "now",
                            !.served = s, !.load = LiveLoad(n), !.known = TRUE]
      OBVIOUS
    <3>3. new \in Ad
      BY <3>2, LoadIsBounded DEF Ad, Ages
    <3>4. ad' = [ad EXCEPT ![n] = new]
      BY <2>2, <3>1, <3>2, ChatTyped DEF HeartbeatWith, RoutingInv
    <3>. QED  BY <3>3, <3>4, ChatTyped DEF RoutingInv
  <2>. QED  BY <2>1, <2>2
<1>3. specsCache' \in [Nodes -> (SUBSET ChatModels) \cup {Nothing}]
  BY <1>1 DEF RoutingInv, RoutingTypeOK
<1>4. DownIsEmpty'
  BY <1>1 DEF RoutingInv, RoutingTypeOK, DownIsEmpty
<1>. QED  BY <1>1, <1>2, <1>3, <1>4 DEF RoutingInv, RoutingTypeOK, WorkedWhereAssigned

LEMMA StopRoutes == ASSUME RoutingInv, NEW n \in Nodes, StopDaemon(n) PROVE RoutingInv'
<1>1. /\ awake' = awake \ {n} /\ specsCache' = [specsCache EXCEPT ![n] = Nothing]
      /\ busy' = [busy EXCEPT ![n] = {}] /\ onDisk' = onDisk
      /\ chat' = [c \in Clients |-> IF c \in busy[n] THEN Quiet ELSE chat[c]]
  BY DEF StopDaemon
<1>2. ad' \in [Nodes -> Ad \cup {Nothing}]
  <2>1. CASE UNCHANGED ad
    BY <2>1, ChatTyped DEF RoutingInv
  <2>2. CASE ad[n] # Nothing /\ ad' = [ad EXCEPT ![n].status = "offline", ![n].age = "now"]
    <3>1. PICK old \in Ad : old = ad[n]
      BY <2>2, ChatTyped DEF RoutingInv
    <3>2. PICK new : new = [old EXCEPT !.status = "offline", !.age = "now"]
      OBVIOUS
    <3>3. new \in Ad
      BY <3>2 DEF Ad, Ages
    <3>4. ad' = [ad EXCEPT ![n] = new]
      BY <2>2, <3>1, <3>2, ChatTyped DEF RoutingInv
    <3>. QED  BY <3>3, <3>4, ChatTyped DEF RoutingInv
  <2>. QED  BY <2>1, <2>2 DEF StopDaemon
<1>3. chat' \in [Clients -> Chat]
  <2>1. PICK q \in Chat : q = Quiet
    BY DEF Quiet, Chat
  <2>. QED  BY <1>1, <2>1, ChatTyped DEF RoutingInv
<1>4. /\ awake' \subseteq Nodes /\ specsCache' \in [Nodes -> (SUBSET ChatModels) \cup {Nothing}]
      /\ busy' \in [Nodes -> SUBSET Clients] /\ onDisk' \in [Nodes -> SUBSET ChatModels]
  <2>1. /\ awake \subseteq Nodes /\ specsCache \in [Nodes -> (SUBSET ChatModels) \cup {Nothing}]
        /\ busy \in [Nodes -> SUBSET Clients] /\ onDisk \in [Nodes -> SUBSET ChatModels]
    BY DEF RoutingInv, RoutingTypeOK
  <2>2. specsCache' \in [Nodes -> (SUBSET ChatModels) \cup {Nothing}]
    BY <1>1, <2>1
  <2>3. busy' \in [Nodes -> SUBSET Clients]
    BY <1>1, <2>1
  <2>. QED  BY <1>1, <2>1, <2>2, <2>3
<1>5. RoutingTypeOK'
  BY <1>2, <1>3, <1>4 DEF RoutingTypeOK, Chat
<1>6. DownIsEmpty'
  BY <1>1 DEF RoutingInv, RoutingTypeOK, DownIsEmpty
<1>7. ASSUME NEW k \in Nodes, NEW c \in busy'[k]
      PROVE  chat'[c].at = "assigned" /\ chat'[c].node = k
  <2>1. k # n /\ c \in busy[k]
    BY <1>1, <1>7 DEF RoutingInv, RoutingTypeOK
  <2>2. chat[c].at = "assigned" /\ chat[c].node = k /\ c \in Clients
    BY <2>1 DEF RoutingInv, RoutingTypeOK, WorkedWhereAssigned
  <2>3. c \notin busy[n]
    BY <2>1, <2>2 DEF RoutingInv, WorkedWhereAssigned
  <2>. QED  BY <1>1, <2>2, <2>3
<1>. QED  BY <1>5, <1>6, <1>7 DEF RoutingInv, WorkedWhereAssigned

LEMMA DiskRoutes ==
    ASSUME RoutingInv, NEW n \in Nodes, NEW m \in ChatModels, Pull(n, m) \/ Remove(n, m)
    PROVE  RoutingInv'
<1>1. UNCHANGED <<awake, specsCache, busy, ad, chat>>
  BY DEF Pull, Remove
<1>2. onDisk' \in [Nodes -> SUBSET ChatModels]
  BY DEF Pull, Remove, RoutingInv, RoutingTypeOK
<1>. QED  BY <1>1, <1>2 DEF RoutingInv, RoutingTypeOK, DownIsEmpty, WorkedWhereAssigned

LEMMA SilenceRoutes == ASSUME RoutingInv, NEW n \in Nodes, Silence(n) PROVE RoutingInv'
<1>1. UNCHANGED <<machineVars, chat>>
  BY DEF Silence
<1>2. PICK old \in Ad : old = ad[n]
  BY ChatTyped DEF Silence, RoutingInv
<1>3. PICK new : new = [old EXCEPT !.age = Older(old.age)]
  OBVIOUS
<1>4. new \in Ad
  <2>1. Older(old.age) \in Ages
    BY DEF Older, Ages
  <2>. QED  BY <1>3, <2>1 DEF Ad
<1>5. ad' = [ad EXCEPT ![n] = new]
  BY <1>2, <1>3, ChatTyped DEF Silence, RoutingInv
<1>6. ad' \in [Nodes -> Ad \cup {Nothing}]
  BY <1>4, <1>5, ChatTyped DEF RoutingInv
<1>. QED  BY <1>1, <1>6 DEF RoutingInv, RoutingTypeOK, DownIsEmpty, WorkedWhereAssigned, machineVars

\* A step that changes one chat on which no machine works.
LEMMA ChatRoutes ==
    ASSUME RoutingInv, NEW c \in Clients, NEW new \in Chat, chat[c].at # "assigned",
           chat' = [chat EXCEPT ![c] = new], UNCHANGED <<machineVars, ad>>
    PROVE  RoutingInv'
<1>1. chat' \in [Clients -> Chat] /\ \A k \in Clients \ {c} : chat'[k] = chat[k]
  BY ChatTyped DEF RoutingInv
<1>2. \A n \in Nodes : c \notin busy[n] /\ busy[n] \subseteq Clients
  BY DEF RoutingInv, RoutingTypeOK, WorkedWhereAssigned
<1>3. UNCHANGED <<onDisk, awake, specsCache, busy, ad>>
  BY DEF machineVars
<1>4. RoutingTypeOK'
  BY <1>1, <1>3 DEF RoutingInv, RoutingTypeOK, Chat
<1>5. WorkedWhereAssigned'
  BY <1>1, <1>2, <1>3 DEF RoutingInv, WorkedWhereAssigned
<1>6. DownIsEmpty'
  BY <1>3 DEF RoutingInv, DownIsEmpty
<1>. QED  BY <1>4, <1>5, <1>6 DEF RoutingInv

\* Only models that exist are listed.
LEMMA ListedModels == ASSUME RoutingInv PROVE ListChatModels \subseteq ChatModels
<1>1. \A n \in Rows({"now", "minutes"}) : ad[n].served \subseteq ChatModels
  BY ChatTyped DEF Rows, Ad, RoutingInv
<1>2. Advertised \subseteq ChatModels
  BY <1>1 DEF Advertised
<1>. QED  BY <1>2 DEF ListChatModels

LEMMA AskRoutes == ASSUME RoutingInv, NEW c \in Clients, Ask(c) PROVE RoutingInv'
<1>1. PICK m \in ChatModels \cup {Nothing} :
         chat' = [chat EXCEPT ![c] = [at |-> "picking", model |-> m,
                                      read |-> Drawn(Candidates(m)), node |-> Nothing]]
  BY ListedModels DEF Ask
<1>2. Drawn(Candidates(m)) \subseteq Nodes
  BY DEF Drawn, Candidates, Rows
<1>3. PICK new : new = [at |-> "picking", model |-> m, read |-> Drawn(Candidates(m)),
                        node |-> Nothing]
  OBVIOUS
<1>4. new \in Chat
  BY <1>2, <1>3 DEF Chat
<1>5. chat[c].at # "assigned" /\ UNCHANGED <<machineVars, ad>>
  BY DEF Ask
<1>. QED  BY <1>1, <1>3, <1>4, <1>5, ChatRoutes

LEMMA AssignRoutes ==
    ASSUME RoutingInv, NEW c \in Clients, NEW n \in Nodes, Assign(c, n) PROVE RoutingInv'
<1>1. PICK old \in Chat : old = chat[c]
  BY ChatTyped DEF RoutingInv
<1>2. PICK new : new = [old EXCEPT !.at = "assigned", !.read = {}, !.node = n]
  OBVIOUS
<1>3. new \in Chat
  BY <1>2 DEF Chat
<1>4. chat[c].at # "assigned" /\ UNCHANGED <<machineVars, ad>>
  BY DEF Assign
<1>5. chat' = [chat EXCEPT ![c] = new]
  BY <1>1, <1>2, ChatTyped DEF Assign, RoutingInv
<1>. QED  BY <1>3, <1>4, <1>5, ChatRoutes

LEMMA NobodyRoutes == ASSUME RoutingInv, NEW c \in Clients, NoCandidate(c) PROVE RoutingInv'
<1>1. PICK old \in Chat : old = chat[c]
  BY ChatTyped DEF RoutingInv
<1>2. PICK new : new = [old EXCEPT !.at = "elsewhere"]
  OBVIOUS
<1>3. new \in Chat
  BY <1>2 DEF Chat
<1>4. chat[c].at # "assigned" /\ UNCHANGED <<machineVars, ad>>
  BY DEF NoCandidate
<1>5. chat' = [chat EXCEPT ![c] = new]
  BY <1>1, <1>2, ChatTyped DEF NoCandidate, RoutingInv
<1>. QED  BY <1>3, <1>4, <1>5, ChatRoutes

LEMMA PollRoutes ==
    ASSUME RoutingInv, NEW n \in Nodes, NEW c \in Clients, PollChat(n, c) PROVE RoutingInv'
<1>1. /\ n \in awake /\ chat[c].at = "assigned" /\ chat[c].node = n
      /\ busy' = [busy EXCEPT ![n] = busy[n] \cup {c}]
      /\ UNCHANGED <<onDisk, awake, specsCache, ad, chat>>
  BY DEF PollChat
<1>2. busy' \in [Nodes -> SUBSET Clients]
  BY <1>1 DEF RoutingInv, RoutingTypeOK
<1>3. DownIsEmpty'
  BY <1>1 DEF RoutingInv, RoutingTypeOK, DownIsEmpty
<1>4. WorkedWhereAssigned'
  <2>1. ASSUME NEW k \in Nodes, NEW d \in busy'[k]
        PROVE  chat[d].at = "assigned" /\ chat[d].node = k
    <3>1. d \in busy[k] \/ (k = n /\ d = c)
      BY <1>1, <2>1 DEF RoutingInv, RoutingTypeOK
    <3>. QED  BY <1>1, <3>1 DEF RoutingInv, WorkedWhereAssigned
  <2>. QED  BY <1>1, <2>1 DEF WorkedWhereAssigned
<1>. QED  BY <1>1, <1>2, <1>3, <1>4 DEF RoutingInv, RoutingTypeOK

LEMMA OverRoutes == ASSUME RoutingInv, NEW c \in Clients, ChatOver(c) PROVE RoutingInv'
<1>1. /\ chat' = [chat EXCEPT ![c] = Quiet] /\ busy' = [n \in Nodes |-> busy[n] \ {c}]
      /\ UNCHANGED <<onDisk, awake, specsCache, ad>>
  BY DEF ChatOver
<1>2. PICK q \in Chat : q = Quiet
  BY DEF Quiet, Chat
<1>3. chat' \in [Clients -> Chat] /\ \A k \in Clients \ {c} : chat'[k] = chat[k]
  BY <1>1, <1>2, ChatTyped DEF RoutingInv
<1>4. busy' \in [Nodes -> SUBSET Clients]
  BY <1>1 DEF RoutingInv, RoutingTypeOK
<1>5. RoutingTypeOK'
  BY <1>1, <1>3, <1>4 DEF RoutingInv, RoutingTypeOK, Chat
<1>6. DownIsEmpty'
  BY <1>1 DEF RoutingInv, DownIsEmpty
<1>7. WorkedWhereAssigned'
  <2>1. ASSUME NEW k \in Nodes, NEW d \in busy'[k]
        PROVE  chat'[d].at = "assigned" /\ chat'[d].node = k
    <3>1. d \in busy[k] /\ d # c /\ d \in Clients
      BY <1>1, <2>1 DEF RoutingInv, RoutingTypeOK
    <3>. QED  BY <1>3, <3>1 DEF RoutingInv, WorkedWhereAssigned
  <2>. QED  BY <2>1 DEF WorkedWhereAssigned
<1>. QED  BY <1>5, <1>6, <1>7 DEF RoutingInv

LEMMA RoutingInvNext == ASSUME RoutingInv, RoutingNext PROVE RoutingInv'
<1>1. ASSUME NEW n \in Nodes,
             RegisterAd(n) \/ StartDaemon(n) \/ BeatCached(n) \/ StopDaemon(n) \/ Silence(n)
      PROVE  RoutingInv'
  BY <1>1, RegisterRoutes, StartRoutes, BeatRoutes, StopRoutes, SilenceRoutes DEF BeatCached
<1>2. ASSUME NEW n \in Nodes, NEW m \in ChatModels, Pull(n, m) \/ Remove(n, m) PROVE RoutingInv'
  BY <1>2, DiskRoutes
<1>3. ASSUME NEW c \in Clients, Ask(c) \/ NoCandidate(c) \/ ChatOver(c) PROVE RoutingInv'
  BY <1>3, AskRoutes, NobodyRoutes, OverRoutes
<1>4. ASSUME NEW c \in Clients, NEW n \in Nodes, Assign(c, n) \/ PollChat(n, c) PROVE RoutingInv'
  BY <1>4, AssignRoutes, PollRoutes
<1>. QED  BY <1>1, <1>2, <1>3, <1>4 DEF RoutingNext

LEMMA RoutingInvStutters == ASSUME RoutingInv, UNCHANGED routingVars PROVE RoutingInv'
BY DEF RoutingInv, RoutingTypeOK, DownIsEmpty, WorkedWhereAssigned, routingVars, machineVars

LEMMA RoutingInvHolds == RoutingSpec => []RoutingInv
<1>1. RoutingInv /\ [RoutingNext]_routingVars => RoutingInv'
  BY RoutingInvNext, RoutingInvStutters
<1>. QED  BY <1>1, RoutingInvInit, PTL DEF RoutingSpec

\* Machines, rows and chats keep their types.
THEOREM RoutingTyped == RoutingSpec => []RoutingTypeOK
<1>1. RoutingInv => RoutingTypeOK
  BY DEF RoutingInv
<1>. QED  BY <1>1, RoutingInvHolds, PTL

\* However chats, restarts and polls are interleaved, a machine works on no chat but
\* those that are assigned to it, and on none while its daemon is down.
THEOREM ChatsAreAtTheirNode == RoutingSpec => [](DownIsEmpty /\ WorkedWhereAssigned)
<1>1. RoutingInv => DownIsEmpty /\ WorkedWhereAssigned
  BY DEF RoutingInv
<1>. QED  BY <1>1, RoutingInvHolds, PTL

-----------------------------------------------------------------------------
(* The journeys: one is chosen, and the state of its component keeps that  *)
(* component's invariant.                                                  *)

PayPart == journey = "pay" => PayInv
LoginPart == journey = "login" => LoginInv
PagePart == journey = "page" => PageInv
RoutingPart == journey = "routing" => RoutingInv
SetupPart == journey = "setup" => OnboardInv

JourneysInv == PayPart /\ LoginPart /\ PagePart /\ RoutingPart /\ SetupPart

LEMMA JourneysInvInit == JourneysInit => JourneysInv
<1>. SUFFICES ASSUME JourneysInit PROVE JourneysInv
  OBVIOUS
<1>1. PayInit /\ LoginInit /\ PageInit /\ RoutingInit /\ OnboardInit
  BY DEF JourneysInit
<1>. QED  BY <1>1, PayInvInit, LoginInvInit, PageInvInit, RoutingInvInit, OnboardInvInit
     DEF JourneysInv, PayPart, LoginPart, PagePart, RoutingPart, SetupPart

LEMMA JourneysInvStep == JourneysInv /\ [JourneysNext]_journeyVars => JourneysInv'
<1>. SUFFICES ASSUME JourneysInv, [JourneysNext]_journeyVars PROVE JourneysInv'
  OBVIOUS
<1>0. PayPart /\ LoginPart /\ PagePart /\ RoutingPart /\ SetupPart
  BY DEF JourneysInv
<1>1. journey' = journey
  BY DEF JourneysNext, journeyVars
<1>2. PayPart'
  <2>1. journey = "pay" => [PayNext]_payVars
    BY DEF JourneysNext, journeyVars
  <2>. QED  BY <1>0, <1>1, <2>1, PayInvStep DEF PayPart
<1>3. LoginPart'
  <2>1. journey = "login" => [LoginNext]_loginVars
    BY DEF JourneysNext, journeyVars
  <2>. QED  BY <1>0, <1>1, <2>1, LoginInvNext DEF LoginPart
<1>4. PagePart'
  <2>1. journey = "page" => [PageNext]_pageVars
    BY DEF JourneysNext, journeyVars
  <2>. QED  BY <1>0, <1>1, <2>1, PageInvNext, PageInvStutters DEF PagePart
<1>5. RoutingPart'
  <2>1. journey = "routing" => [RoutingNext]_routingVars
    BY DEF JourneysNext, journeyVars
  <2>. QED  BY <1>0, <1>1, <2>1, RoutingInvNext, RoutingInvStutters DEF RoutingPart
<1>6. SetupPart'
  <2>1. journey = "setup" => [OnboardNext]_onboardVars
    BY DEF JourneysNext, journeyVars
  <2>. QED  BY <1>0, <1>1, <2>1, OnboardStep DEF SetupPart
<1>. QED  BY <1>2, <1>3, <1>4, <1>5, <1>6 DEF JourneysInv

\* Whichever of the journeys is made, the state of its component keeps its types.
THEOREM JourneysTyped == JourneysSpec => []JourneysTypeOK
<1>1. JourneysInv => JourneysTypeOK
  BY DEF JourneysInv, PayPart, LoginPart, PagePart, RoutingPart, SetupPart, JourneysTypeOK,
         PayInv, LoginInv, PageInv, RoutingInv, OnboardInv
<1>. QED  BY <1>1, JourneysInvInit, JourneysInvStep, PTL DEF JourneysSpec

\* A journey is a behaviour of its component, and of the others, which stay where they are.
LEMMA JourneysPay == JourneysSpec => PaySpec
<1>1. JourneysInit => PayInit
  BY DEF JourneysInit
<1>2. [JourneysNext]_journeyVars => [PayNext]_payVars
  BY DEF JourneysNext, journeyVars
<1>. QED  BY <1>1, <1>2, PTL DEF JourneysSpec, PaySpec

LEMMA JourneysLogin == JourneysSpec => LoginSpec
<1>1. JourneysInit => LoginInit
  BY DEF JourneysInit
<1>2. [JourneysNext]_journeyVars => [LoginNext]_loginVars
  BY DEF JourneysNext, journeyVars
<1>. QED  BY <1>1, <1>2, PTL DEF JourneysSpec, LoginSpec

LEMMA JourneysPage == JourneysSpec => PageSpec
<1>1. JourneysInit => PageInit
  BY DEF JourneysInit
<1>2. [JourneysNext]_journeyVars => [PageNext]_pageVars
  BY DEF JourneysNext, journeyVars
<1>. QED  BY <1>1, <1>2, PTL DEF JourneysSpec, PageSpec

LEMMA JourneysRouting == JourneysSpec => RoutingSpec
<1>1. JourneysInit => RoutingInit
  BY DEF JourneysInit
<1>2. [JourneysNext]_journeyVars => [RoutingNext]_routingVars
  BY DEF JourneysNext, journeyVars
<1>. QED  BY <1>1, <1>2, PTL DEF JourneysSpec, RoutingSpec

LEMMA JourneysSetup == JourneysSpec => OnboardSpec
<1>1. JourneysInit => OnboardInit
  BY DEF JourneysInit
<1>2. [JourneysNext]_journeyVars => [OnboardNext]_onboardVars
  BY DEF JourneysNext, journeyVars
<1>. QED  BY <1>1, <1>2, PTL DEF JourneysSpec, OnboardSpec

\* Whichever of the journeys is made, it keeps what was proved of its component: a
\* confirmed job was paid, a saved token is of the user who authorized it and loses no
\* edit of the config, messages hold their own answers, a chat is worked on by its
\* node, and a command overwrites no setting but what it had not read.
THEOREM JourneysHold ==
    JourneysSpec =>
        /\ [](ConfirmedWasPaid /\ LoginsAreTrue /\ OwnAnswer /\ DownIsEmpty /\ WorkedWhereAssigned)
        /\ KeepsPaymentContract /\ EditsSurvive /\ SettingsSurvive
BY JourneysPay, JourneysLogin, JourneysPage, JourneysRouting, JourneysSetup,
   ConfirmedJobsWerePaid, PaymentsImplementContract, TokensAreTrue, LoginKeepsEdits,
   OwnAnswersHold, ChatsAreAtTheirNode, SettingsHold, PTL
=============================================================================
