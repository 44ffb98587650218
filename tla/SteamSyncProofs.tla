--------------------------- MODULE SteamSyncProofs ---------------------------
(***************************************************************************)
(* Synchronisation, for any number of accounts, games and administrators:  *)
(* one row per game, whole answers in libraries, and bans as the only      *)
(* reason to disable an account.                                           *)
(***************************************************************************)
EXTENDS SteamSync, TLAPS

Statuses == {"Absent", "Available", "Busy", "Disabled"}

\* The tables and what is known of the workers.
SyncTypes ==
  /\ status \in [Accounts -> Statuses]
  /\ games \in [Apps -> Nat]
  /\ library \in [Accounts -> SUBSET Apps] /\ owned \in [Accounts -> SUBSET Apps]
  /\ reported \in [Accounts -> SUBSET (SUBSET Apps)]
  /\ DOMAIN call = Workers
  /\ queue \subseteq Accounts
  /\ \A w \in Workers : call[w].at # "Idle" => call[w].acct \in Accounts

\* A worker that disables an account has seen a ban.
BanSeen == \A w \in Workers : call[w].at = "Disable" => call[w].acct \in banned

InTx(w) == call[w].at \in {"Write", "Insert"}

\* What is being written is an answer of Steam.
Answers == \A w \in Workers : InTx(w) => call[w].all \in reported[call[w].acct]

\* An uncommitted row of a game is the only one.
Uncommitted ==
  \A w \in Workers, g \in Apps : InTx(w) /\ g \in call[w].new =>
    games[g] = 0 /\ \A v \in Workers : InTx(v) /\ g \in call[v].new => v = w

SyncInv ==
  /\ SyncTypes /\ BanSeen /\ Answers /\ Uncommitted
  /\ OneRowPerGame /\ LibraryIsWhole

LEMMA SyncInit == Init => SyncInv
<1> SUFFICES ASSUME Init PROVE SyncInv
  OBVIOUS
<1>1. \A w \in Workers : call[w].at = "Idle"
  BY DEF Init, Idle
<1>2. SyncTypes
  BY <1>1 DEF Init, SyncTypes, Statuses
<1>3. BanSeen /\ Answers /\ Uncommitted
  BY <1>1 DEF BanSeen, Answers, Uncommitted, InTx
<1>4. OneRowPerGame /\ LibraryIsWhole
  BY DEF Init, OneRowPerGame, LibraryIsWhole
<1> QED BY <1>2, <1>3, <1>4 DEF SyncInv

-----------------------------------------------------------------------------
(* Steps of one worker that commit nothing to games and libraries *)

LEMMA WorkerStep ==
  ASSUME SyncInv, NEW w \in Workers, NEW k, call' = [call EXCEPT ![w] = k],
         status' \in [Accounts -> Statuses], queue' \subseteq Accounts,
         games' = games, library' = library, banned' = banned, owned' = owned,
         reported' \in [Accounts -> SUBSET (SUBSET Apps)],
         \A a \in Accounts : reported[a] \subseteq reported'[a],
         k.at # "Idle" => k.acct \in Accounts,
         k.at = "Disable" => k.acct \in banned,
         k.at \in {"Write", "Insert"} =>
           /\ k.all \in reported'[k.acct]
           /\ \A g \in Apps : g \in k.new =>
                games[g] = 0 /\ \A v \in Workers : v # w => ~(InTx(v) /\ g \in call[v].new)
  PROVE  SyncInv'
<1> USE DEF SyncInv
<1>1. call'[w] = k /\ (\A v \in Workers : v # w => call'[v] = call[v]) /\ DOMAIN call' = Workers
  BY DEF SyncTypes
<1>2. SyncTypes'
  BY <1>1 DEF SyncTypes
<1>3. BanSeen'
  BY <1>1 DEF BanSeen
<1>4. Answers'
  BY <1>1 DEF Answers, InTx, SyncTypes
<1>5. Uncommitted'
  BY <1>1 DEF Uncommitted, InTx
<1>6. OneRowPerGame' /\ LibraryIsWhole'
  BY DEF OneRowPerGame, LibraryIsWhole
<1> QED BY <1>2, <1>3, <1>4, <1>5, <1>6

\* A worker that asks Steam has no transaction.
LEMMA AskStep ==
  ASSUME SyncInv, NEW w \in Workers, NEW a \in Accounts, NEW what \in {"Bans", "Owned"}, NEW n,
         call' = [call EXCEPT ![w] = Asking(a, what, n)],
         status' \in [Accounts -> Statuses], queue' \subseteq Accounts,
         games' = games, library' = library, banned' = banned, owned' = owned, reported' = reported
  PROVE  SyncInv'
<1> DEFINE k == Asking(a, what, n)
<1>1. k.at \in {"Bans", "Owned"} /\ k.acct = a
  BY DEF Asking
<1> HIDE DEF k
<1>2. call' = [call EXCEPT ![w] = k]
  BY DEF k
<1>3. reported' \in [Accounts -> SUBSET (SUBSET Apps)]
  BY DEF SyncInv, SyncTypes
<1> QED BY <1>1, <1>2, <1>3, WorkerStep

LEMMA AskingSteps ==
  ASSUME SyncInv, NEW w \in Workers,
         \/ \E a \in Accounts : CreateAccount(w, a) \/ AdminSync(w, a)
         \/ w = Job /\ \E a \in Accounts : TakeNext(a)
         \/ Retry(w) \/ BansAnswer(w) \/ Fail(w) \/ Disable(w)
  PROVE  SyncInv'
<1>1. Idle.at = "Idle"
  BY DEF Idle
<1>2. call[w].at # "Idle" => call[w].acct \in Accounts
  BY DEF SyncInv, SyncTypes
<1>3. ASSUME NEW a \in Accounts, CreateAccount(w, a) PROVE SyncInv'
  <2>1. status' \in [Accounts -> Statuses]
    BY <1>3 DEF CreateAccount, SyncInv, SyncTypes, Statuses
  <2>2. /\ call' = [call EXCEPT ![w] = Asking(a, "Bans", 1)]
        /\ games' = games /\ library' = library /\ banned' = banned /\ owned' = owned /\ reported' = reported
        /\ queue' = queue /\ queue \subseteq Accounts
    BY <1>3 DEF CreateAccount, Go, steamVars, SyncInv, SyncTypes
  <2> QED BY <2>1, <2>2, AskStep
<1>4. ASSUME NEW a \in Accounts, AdminSync(w, a) \/ (w = Job /\ TakeNext(a)) PROVE SyncInv'
  <2>1. /\ call' = [call EXCEPT ![w] = Asking(a, "Bans", 1)]
        /\ games' = games /\ library' = library /\ banned' = banned /\ owned' = owned /\ reported' = reported
        /\ queue' \subseteq Accounts /\ status' \in [Accounts -> Statuses]
    BY <1>4 DEF AdminSync, TakeNext, Go, steamVars, dbVars, SyncInv, SyncTypes
  <2> QED BY <2>1, AskStep
<1>5. CASE Retry(w)
  <2>1. call[w].acct \in Accounts
    BY <1>2, <1>5 DEF Retry
  <2>2. CASE call[w].attempt < MaxRetries
    <3>1. /\ call' = [call EXCEPT ![w] = Asking(call[w].acct, call[w].at, call[w].attempt + 1)]
          /\ call[w].at \in {"Bans", "Owned"}
          /\ games' = games /\ library' = library /\ banned' = banned /\ owned' = owned /\ reported' = reported
          /\ queue' \subseteq Accounts /\ status' \in [Accounts -> Statuses]
      BY <1>5, <2>2 DEF Retry, Go, steamVars, dbVars, SyncInv, SyncTypes
    <3> QED BY <2>1, <3>1, AskStep
  <2>3. CASE ~(call[w].attempt < MaxRetries)
    BY <1>1, <1>5, <2>3, WorkerStep DEF Retry, Go, steamVars, dbVars, SyncInv, SyncTypes
  <2> QED BY <2>2, <2>3
<1>6. CASE BansAnswer(w)
  <2>1. call[w].acct \in Accounts
    BY <1>2, <1>6 DEF BansAnswer
  <2>2. CASE call[w].acct \in banned
    <3> DEFINE k == [at |-> "Disable", acct |-> call[w].acct]
    <3>1. k.at = "Disable" /\ k.acct = call[w].acct
      OBVIOUS
    <3>2. call' = [call EXCEPT ![w] = k]
      BY <1>6, <2>2 DEF BansAnswer, Go
    <3> HIDE DEF k
    <3> QED BY <1>6, <2>1, <2>2, <3>1, <3>2, WorkerStep
         DEF BansAnswer, steamVars, dbVars, SyncInv, SyncTypes
  <2>3. CASE call[w].acct \notin banned
    <3>1. /\ call' = [call EXCEPT ![w] = Asking(call[w].acct, "Owned", 1)]
          /\ games' = games /\ library' = library /\ banned' = banned /\ owned' = owned /\ reported' = reported
          /\ queue' \subseteq Accounts /\ status' \in [Accounts -> Statuses]
      BY <1>6, <2>3 DEF BansAnswer, Go, steamVars, dbVars, SyncInv, SyncTypes
    <3> QED BY <2>1, <3>1, AskStep
  <2> QED BY <2>2, <2>3
<1>7. CASE Fail(w)
  BY <1>1, <1>7, WorkerStep DEF Fail, Go, steamVars, dbVars, SyncInv, SyncTypes
<1>8. CASE Disable(w)
  <2>1. status' \in [Accounts -> Statuses]
    BY <1>8 DEF Disable, SyncInv, SyncTypes, Statuses
  <2> QED BY <1>1, <1>8, <2>1, WorkerStep DEF Disable, Go, steamVars, SyncInv, SyncTypes
<1> QED BY <1>3, <1>4, <1>5, <1>6, <1>7, <1>8

\* The answer becomes the work of a transaction.
LEMMA OwnedAnswers ==
  ASSUME SyncInv, NEW w \in Workers, OwnedAnswer(w)
  PROVE  SyncInv'
<1> DEFINE a == call[w].acct
           k == Writing(a, owned[a])
<1>1. a \in Accounts
  BY DEF OwnedAnswer, SyncInv, SyncTypes
<1>2. k.at = "Write" /\ k.acct = a /\ k.all = owned[a] /\ k.new = {}
  BY DEF Writing
<1>3. call' = [call EXCEPT ![w] = k] /\ reported' = [reported EXCEPT ![a] = @ \cup {owned[a]}]
  BY DEF OwnedAnswer, Go
<1> HIDE DEF k, a
<1>4. /\ reported' \in [Accounts -> SUBSET (SUBSET Apps)]
      /\ \A b \in Accounts : reported[b] \subseteq reported'[b]
      /\ owned[a] \in reported'[a]
  BY <1>1, <1>3 DEF SyncInv, SyncTypes
<1>5. /\ status' \in [Accounts -> Statuses] /\ queue' \subseteq Accounts
      /\ games' = games /\ library' = library /\ banned' = banned /\ owned' = owned
  BY DEF OwnedAnswer, dbVars, SyncInv, SyncTypes
<1> QED BY <1>1, <1>2, <1>3, <1>4, <1>5, WorkerStep

LEMMA GamesFound ==
  ASSUME SyncInv, NEW w \in Workers, NEW g \in Apps, FindGame(w, g)
  PROVE  SyncInv'
<1> DEFINE found == [at |-> "Write", acct |-> call[w].acct, all |-> call[w].all,
                     left |-> call[w].left \ {g}, new |-> call[w].new]
           missing == [at |-> "Insert", acct |-> call[w].acct, all |-> call[w].all,
                       left |-> call[w].left, new |-> call[w].new, game |-> g]
<1>1. PICK k : /\ call' = [call EXCEPT ![w] = k]
               /\ k.at \in {"Write", "Insert"}
               /\ k.acct = call[w].acct /\ k.all = call[w].all /\ k.new = call[w].new
  <2>1. CASE Visible(w, g)
    <3>1. call' = [call EXCEPT ![w] = found]
      BY <2>1 DEF FindGame, Go
    <3>2. /\ found.at = "Write" /\ found.acct = call[w].acct
          /\ found.all = call[w].all /\ found.new = call[w].new
      OBVIOUS
    <3> HIDE DEF found
    <3> QED BY <3>1, <3>2
  <2>2. CASE ~Visible(w, g)
    <3>1. call' = [call EXCEPT ![w] = missing]
      BY <2>2 DEF FindGame, Go
    <3>2. /\ missing.at = "Insert" /\ missing.acct = call[w].acct
          /\ missing.all = call[w].all /\ missing.new = call[w].new
      OBVIOUS
    <3> HIDE DEF missing
    <3> QED BY <3>1, <3>2
  <2> QED BY <2>1, <2>2
<1>2. InTx(w) /\ call[w].acct \in Accounts /\ call[w].all \in reported[call[w].acct]
  BY DEF FindGame, InTx, SyncInv, SyncTypes, Answers
<1>3. \A h \in Apps : h \in call[w].new =>
        games[h] = 0 /\ \A v \in Workers : v # w => ~(InTx(v) /\ h \in call[v].new)
  BY <1>2 DEF SyncInv, Uncommitted
<1> QED BY <1>1, <1>2, <1>3, WorkerStep DEF FindGame, steamVars, dbVars, SyncInv, SyncTypes

LEMMA GamesInserted ==
  ASSUME SyncInv, NEW w \in Workers, InsertGame(w)
  PROVE  SyncInv'
<1> DEFINE k == [at |-> "Write", acct |-> call[w].acct, all |-> call[w].all,
                 left |-> call[w].left, new |-> call[w].new \cup {call[w].game}]
<1>1. /\ k.at = "Write" /\ k.acct = call[w].acct /\ k.all = call[w].all
      /\ k.new = call[w].new \cup {call[w].game}
  OBVIOUS
<1>2. call' = [call EXCEPT ![w] = k]
  BY DEF InsertGame, Go
<1>3. InTx(w) /\ call[w].acct \in Accounts /\ call[w].all \in reported[call[w].acct]
  BY DEF InsertGame, InTx, SyncInv, SyncTypes, Answers
<1>4. \A h \in Apps : h \in call[w].new =>
        games[h] = 0 /\ \A v \in Workers : v # w => ~(InTx(v) /\ h \in call[v].new)
  BY <1>3 DEF SyncInv, Uncommitted
<1>5. games[call[w].game] = 0 /\ \A v \in Workers : ~(InTx(v) /\ call[w].game \in call[v].new)
  BY DEF InsertGame, Inserting, InTx
<1> HIDE DEF k
<1>6. \A h \in Apps : h \in k.new =>
        games[h] = 0 /\ \A v \in Workers : v # w => ~(InTx(v) /\ h \in call[v].new)
  BY <1>1, <1>4, <1>5
<1>7. /\ status' \in [Accounts -> Statuses] /\ queue' \subseteq Accounts
      /\ games' = games /\ library' = library /\ banned' = banned /\ owned' = owned /\ reported' = reported
      /\ reported' \in [Accounts -> SUBSET (SUBSET Apps)]
  BY DEF InsertGame, steamVars, dbVars, SyncInv, SyncTypes
<1> QED BY <1>1, <1>2, <1>3, <1>6, <1>7, WorkerStep

-----------------------------------------------------------------------------
(* Steps that change tables or Steam *)

LEMMA GamesCommitted ==
  ASSUME SyncInv, NEW w \in Workers, CommitGames(w)
  PROVE  SyncInv'
<1> USE DEF SyncInv
<1> DEFINE a == call[w].acct
<1>1. a \in Accounts /\ InTx(w) /\ call[w].all \in reported[a]
  BY DEF CommitGames, SyncTypes, InTx, Answers
<1>2. /\ call' = [call EXCEPT ![w] = Idle] /\ call'[w].at = "Idle"
      /\ (\A v \in Workers : v # w => call'[v] = call[v]) /\ DOMAIN call' = Workers
  BY DEF CommitGames, Go, SyncTypes, Idle
<1>3. /\ \A g \in Apps : games'[g] = games[g] + IF g \in call[w].new THEN 1 ELSE 0
      /\ library' = [library EXCEPT ![a] = @ \cup call[w].all]
      /\ status' = status /\ banned' = banned /\ owned' = owned /\ reported' = reported /\ queue' = queue
  BY DEF CommitGames, AllWritten, steamVars
<1>4. call[w].all \subseteq Apps
  BY <1>1 DEF SyncTypes
<1> HIDE DEF a
<1>5. games' \in [Apps -> Nat]
  <2>1. games' = [g \in Apps |-> games[g] + IF g \in call[w].new THEN 1 ELSE 0]
    BY DEF CommitGames
  <2> QED BY <2>1 DEF SyncTypes
<1>6. SyncTypes'
  BY <1>1, <1>2, <1>3, <1>4, <1>5 DEF SyncTypes
<1>7. BanSeen' /\ Answers'
  BY <1>2, <1>3 DEF BanSeen, Answers, InTx
<1>8. LibraryIsWhole'
  <2> SUFFICES ASSUME NEW b \in Accounts, NEW g \in library'[b]
               PROVE  \E answer \in reported[b] : g \in answer /\ answer \subseteq library'[b]
    BY <1>3 DEF LibraryIsWhole
  <2>1. library[b] \subseteq library'[b] /\ (b = a => library'[b] = library[b] \cup call[w].all)
    BY <1>1, <1>3 DEF SyncTypes
  <2>2. CASE g \in library[b]
    BY <2>1, <2>2 DEF LibraryIsWhole
  <2>3. CASE g \notin library[b]
    <3>1. b = a /\ g \in call[w].all
      BY <1>3, <2>1, <2>3 DEF SyncTypes
    <3> QED BY <1>1, <2>1, <3>1
  <2> QED BY <2>2, <2>3
<1>9. Uncommitted'
  <2> SUFFICES ASSUME NEW v \in Workers, NEW g \in Apps, InTx(v)', g \in call'[v].new
               PROVE  games'[g] = 0 /\ \A x \in Workers : InTx(x)' /\ g \in call'[x].new => x = v
    BY DEF Uncommitted
  <2>1. v # w /\ InTx(v) /\ g \in call[v].new
    BY <1>2 DEF InTx
  <2>2. games[g] = 0 /\ g \notin call[w].new
    BY <1>1, <2>1 DEF Uncommitted
  <2>3. games'[g] = 0
    BY <1>3, <2>2
  <2>4. \A x \in Workers : InTx(x)' /\ g \in call'[x].new => InTx(x) /\ g \in call[x].new
    BY <1>2 DEF InTx
  <2> QED BY <2>1, <2>3, <2>4 DEF Uncommitted
<1>10. OneRowPerGame'
  <2> SUFFICES ASSUME NEW g \in Apps PROVE games'[g] <= 1
    BY DEF OneRowPerGame
  <2>1. games[g] \in Nat /\ games[g] <= 1
    BY DEF SyncTypes, OneRowPerGame
  <2>2. g \in call[w].new => games[g] = 0
    BY <1>1 DEF Uncommitted
  <2> QED BY <1>3, <2>1, <2>2
<1> QED BY <1>6, <1>7, <1>8, <1>9, <1>10

\* Customers and the job's list touch none of it.
LEMMA RentalsAndPasses ==
  ASSUME SyncInv, StartPass \/ \E a \in Accounts : Rent(a) \/ GiveBack(a)
  PROVE  SyncInv'
<1> USE DEF SyncInv
<1>1. /\ games' = games /\ library' = library /\ banned' = banned /\ owned' = owned
      /\ reported' = reported /\ call' = call
  BY DEF StartPass, Rent, GiveBack, steamVars, dbVars
<1>2. status' \in [Accounts -> Statuses] /\ queue' \subseteq Accounts
  BY DEF StartPass, Rent, GiveBack, steamVars, dbVars, SyncTypes, Statuses
<1>3. SyncTypes'
  BY <1>1, <1>2 DEF SyncTypes
<1>4. BanSeen' /\ Answers' /\ Uncommitted' /\ OneRowPerGame' /\ LibraryIsWhole'
  BY <1>1 DEF BanSeen, Answers, Uncommitted, InTx, OneRowPerGame, LibraryIsWhole
<1> QED BY <1>3, <1>4

\* A ban is not taken back.
LEMMA Bans ==
  ASSUME SyncInv, NEW a \in Accounts, Ban(a)
  PROVE  SyncInv'
<1> USE DEF SyncInv, Ban, dbVars
<1>1. SyncTypes'
  BY DEF SyncTypes
<1>2. BanSeen'
  BY DEF BanSeen
<1>3. Answers' /\ Uncommitted' /\ OneRowPerGame' /\ LibraryIsWhole'
  BY DEF Answers, Uncommitted, InTx, OneRowPerGame, LibraryIsWhole
<1> QED BY <1>1, <1>2, <1>3

\* What Steam would report now is not what it has reported.
LEMMA Holdings ==
  ASSUME SyncInv, NEW a \in Accounts, NEW g \in Apps, Purchase(a, g) \/ LoseGame(a, g)
  PROVE  SyncInv'
<1> USE DEF SyncInv, Purchase, LoseGame, dbVars
<1>1. SyncTypes'
  BY DEF SyncTypes
<1>2. BanSeen' /\ Answers' /\ Uncommitted' /\ OneRowPerGame' /\ LibraryIsWhole'
  BY DEF BanSeen, Answers, Uncommitted, InTx, OneRowPerGame, LibraryIsWhole
<1> QED BY <1>1, <1>2

-----------------------------------------------------------------------------
(* The invariant *)

LEMMA SyncNext == SyncInv /\ [Next]_vars => SyncInv'
<1> SUFFICES ASSUME SyncInv, [Next]_vars PROVE SyncInv'
  OBVIOUS
<1>1. ASSUME NEW w \in Workers, NEW a \in Accounts, CreateAccount(w, a) \/ AdminSync(w, a)
      PROVE  SyncInv'
  BY <1>1, AskingSteps
<1>2. ASSUME NEW a \in Accounts, TakeNext(a) PROVE SyncInv'
  <2>1. Job \in Workers
    BY DEF Workers
  <2> QED BY <1>2, <2>1, AskingSteps
<1>3. ASSUME NEW w \in Workers, Step(w) PROVE SyncInv'
  BY <1>3, AskingSteps, OwnedAnswers, GamesFound, GamesInserted, GamesCommitted DEF Step
<1>4. ASSUME NEW a \in Accounts, Rent(a) \/ GiveBack(a) PROVE SyncInv'
  BY <1>4, RentalsAndPasses
<1>5. CASE StartPass
  BY <1>5, RentalsAndPasses
<1>6. ASSUME NEW a \in Accounts, Ban(a) PROVE SyncInv'
  BY <1>6, Bans
<1>7. ASSUME NEW a \in Accounts, NEW g \in Apps, Purchase(a, g) \/ LoseGame(a, g) PROVE SyncInv'
  BY <1>7, Holdings
<1>8. CASE UNCHANGED vars
  BY <1>8 DEF vars, SyncInv, SyncTypes, BanSeen, Answers, Uncommitted, InTx, OneRowPerGame, LibraryIsWhole
<1> QED BY <1>1, <1>2, <1>3, <1>4, <1>5, <1>6, <1>7, <1>8 DEF Next

LEMMA SyncCorrect == Spec => []SyncInv
BY SyncInit, SyncNext, PTL DEF Spec

\* However many synchronisations insert the same game at once, it has one row.
THEOREM GamesAreUnique == Spec => []OneRowPerGame
<1>1. SyncInv => OneRowPerGame
  BY DEF SyncInv
<1> QED BY <1>1, SyncCorrect, PTL

\* Whatever Steam adds and drops and whichever answers are late or fail, every game of
\* a library came in an answer that is in the library as a whole.
THEOREM LibrariesAreWhole == Spec => []LibraryIsWhole
<1>1. SyncInv => LibraryIsWhole
  BY DEF SyncInv
<1> QED BY <1>1, SyncCorrect, PTL

\* The body of DisabledForBan.
DisablesForBan ==
  \A a \in Accounts :
    status[a] # "Disabled" /\ status'[a] = "Disabled" => a \in banned /\ status[a] = "Available"

\* Nothing but a ban disables an account, and never under a customer.
THEOREM OnlyBansDisable == Spec => DisabledForBan
<1>1. SyncInv /\ [Next]_vars => [DisablesForBan]_vars
  <2> SUFFICES ASSUME SyncInv, Next PROVE DisablesForBan
    OBVIOUS
  <2> USE DEF SyncInv, SyncTypes, DisablesForBan
  <2>1. ASSUME status' = status PROVE DisablesForBan
    BY <2>1
  <2>2. ASSUME NEW w \in Workers, NEW a \in Accounts, CreateAccount(w, a) PROVE DisablesForBan
    BY <2>2 DEF CreateAccount
  <2>3. ASSUME NEW a \in Accounts, Rent(a) \/ GiveBack(a) PROVE DisablesForBan
    BY <2>3 DEF Rent, GiveBack
  <2>4. ASSUME NEW w \in Workers, Disable(w) PROVE DisablesForBan
    <3>1. call[w].acct \in banned /\ call[w].acct \in Accounts
      BY <2>4 DEF Disable, BanSeen
    <3> QED BY <2>4, <3>1 DEF Disable
  <2>5. ASSUME NEW w \in Workers, Step(w) PROVE DisablesForBan
    BY <2>1, <2>4, <2>5 DEF Step, Retry, BansAnswer, OwnedAnswer, InsertGame, CommitGames, Fail,
                            FindGame, dbVars
  <2> QED BY <2>1, <2>2, <2>3, <2>5 DEF Next, AdminSync, StartPass, TakeNext, Ban, Purchase, LoseGame, dbVars
<1> QED BY <1>1, SyncCorrect, PTL DEF Spec, DisabledForBan, DisablesForBan
==============================================================================
