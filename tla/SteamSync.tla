------------------------------ MODULE SteamSync ------------------------------
(***************************************************************************)
(* Synchronisation of game accounts with Steam: the scheduler's job goes   *)
(* over all accounts again and again, and administrators start the same    *)
(* sequence for one account, after creating it or on demand.  A sequence   *)
(* asks Steam whether the account is banned, then either disables it or    *)
(* asks for its games and writes them in one transaction.  No transaction  *)
(* is open while Steam is asked, so every answer may be old when it is     *)
(* used, and two sequences may write the same games at the same time.      *)
(***************************************************************************)
EXTENDS Naturals, FiniteSets

CONSTANTS
  Accounts,     \* game accounts
  Apps,         \* Steam applications
  Admins,       \* administrators
  Job,          \* the steam_sync job
  MaxRetries    \* requests that executeWithRetry makes before it gives up

ASSUME WorkersAssumption == Job \notin Admins /\ MaxRetries \in Nat \ {0}

VARIABLES
  status,    \* accounts.status; Busy stands for Reserved and Rented
  banned,    \* accounts that Steam reports as VAC banned
  owned,     \* the games that Steam reports for each account
  reported,  \* history: the answers GetOwnedGames has got for each account
  games,     \* games: how many rows a steam_app_id has
  library,   \* account_games
  synced,    \* accounts with library_synced_at
  queue,     \* accounts that the job's pass has not looked at
  call       \* what the job and each administrator are doing

vars == <<status, banned, owned, reported, games, library, synced, queue, call>>
steamVars == <<banned, owned, reported>>
dbVars == <<status, games, library, synced>>

Workers == Admins \cup {Job}
Idle == [at |-> "Idle"]

\* The steps before the write transaction, and the transaction with the games still
\* to write, the game to insert and the rows it has inserted but not committed.
Asking(a, what, attempt) == [at |-> what, acct |-> a, attempt |-> attempt]
Writing(a, all) == [at |-> "Write", acct |-> a, all |-> all, left |-> all, new |-> {}]

Init ==
  /\ status = [a \in Accounts |-> "Absent"]
  /\ banned = {}
  /\ owned = [a \in Accounts |-> {}]
  /\ reported = [a \in Accounts |-> {}]
  /\ games = [g \in Apps |-> 0]
  /\ library = [a \in Accounts |-> {}]
  /\ synced = {}
  /\ queue = {}
  /\ call = [w \in Workers |-> Idle]

Exists(a) == status[a] # "Absent"
Go(w, c) == call' = [call EXCEPT ![w] = c]

-----------------------------------------------------------------------------
(* Who asks *)

\* AdminCreateAccount: the account is available at once, its library comes later.
CreateAccount(w, a) ==
  /\ w # Job /\ call[w] = Idle /\ ~Exists(a)
  /\ status' = [status EXCEPT ![a] = "Available"]
  /\ Go(w, Asking(a, "Bans", 1))
  /\ UNCHANGED <<games, library, synced, steamVars, queue>>

\* AdminSyncAccount.
AdminSync(w, a) ==
  /\ w # Job /\ call[w] = Idle /\ Exists(a)
  /\ Go(w, Asking(a, "Bans", 1))
  /\ UNCHANGED <<dbVars, steamVars, queue>>

\* GetAccountsForSync: disabled accounts are on the list, too.
StartPass ==
  /\ call[Job] = Idle /\ queue = {}
  /\ queue' = {a \in Accounts : Exists(a)}
  /\ UNCHANGED <<dbVars, steamVars, call>>

TakeNext(a) ==
  /\ call[Job] = Idle /\ a \in queue
  /\ queue' = queue \ {a}
  /\ Go(Job, Asking(a, "Bans", 1))
  /\ UNCHANGED <<dbVars, steamVars>>

-----------------------------------------------------------------------------
(* Asking Steam *)

\* executeWithRetry: a network error, a 429 or a 5xx answer is tried again.
Retry(w) ==
  /\ call[w].at \in {"Bans", "Owned"}
  /\ Go(w, IF call[w].attempt < MaxRetries THEN Asking(call[w].acct, call[w].at, call[w].attempt + 1) ELSE Idle)
  /\ UNCHANGED <<dbVars, steamVars, queue>>

\* CheckVACBans answers.
BansAnswer(w) ==
  /\ call[w].at = "Bans"
  /\ Go(w, IF call[w].acct \in banned
           THEN [at |-> "Disable", acct |-> call[w].acct]
           ELSE Asking(call[w].acct, "Owned", 1))
  /\ UNCHANGED <<dbVars, steamVars, queue>>

\* GetOwnedGames answers.
OwnedAnswer(w) ==
  /\ call[w].at = "Owned"
  /\ LET a == call[w].acct
     IN Go(w, Writing(a, owned[a])) /\ reported' = [reported EXCEPT ![a] = @ \cup {owned[a]}]
  /\ UNCHANGED <<dbVars, banned, owned, queue>>

-----------------------------------------------------------------------------
(* Writing the answers *)

\* Mutation: the status that allowed the ban check is trusted.
DisableListed(w) ==
  /\ call[w].at = "Disable"
  /\ status' = [status EXCEPT ![call[w].acct] = "Disabled"]
  /\ Go(w, Idle)
  /\ UNCHANGED <<games, library, synced, steamVars, queue>>

\* DisableAccountIfIdle and DisableAccountIfIdleAsCurrentAdmin, on the locked row.
Disable(w) ==
  /\ call[w].at = "Disable"
  /\ status[call[w].acct] = "Available"
  /\ status' = [status EXCEPT ![call[w].acct] = "Disabled"]
  /\ Go(w, Idle)
  /\ UNCHANGED <<games, library, synced, steamVars, queue>>

\* SELECT ... WHERE steam_app_id: own rows and committed ones are visible.
Visible(w, g) == games[g] > 0 \/ g \in call[w].new

\* The game is known: its account_games row is inserted or updated.
FindGame(w, g) ==
  /\ call[w].at = "Write" /\ g \in call[w].left
  /\ IF Visible(w, g)
     THEN Go(w, [at |-> "Write", acct |-> call[w].acct, all |-> call[w].all,
                 left |-> call[w].left \ {g}, new |-> call[w].new])
     ELSE Go(w, [at |-> "Insert", acct |-> call[w].acct, all |-> call[w].all,
                 left |-> call[w].left, new |-> call[w].new, game |-> g])
  /\ UNCHANGED <<dbVars, steamVars, queue>>

\* Workers whose uncommitted rows include game g: an insert of g waits for them.
Inserting(g) == {v \in Workers : call[v].at \in {"Write", "Insert"} /\ g \in call[v].new}

\* Mutation: nothing but the SELECT before it keeps a game from being inserted twice.
InsertAnyway(w) ==
  /\ call[w].at = "Insert"
  /\ Go(w, [at |-> "Write", acct |-> call[w].acct, all |-> call[w].all,
            left |-> call[w].left, new |-> call[w].new \cup {call[w].game}])
  /\ UNCHANGED <<dbVars, steamVars, queue>>

\* INSERT INTO games: UNIQUE(steam_app_id) makes it wait for a concurrent insert and
\* fail once that has been committed.
InsertGame(w) ==
  /\ call[w].at = "Insert"
  /\ games[call[w].game] = 0 /\ Inserting(call[w].game) = {}
  /\ Go(w, [at |-> "Write", acct |-> call[w].acct, all |-> call[w].all,
            left |-> call[w].left, new |-> call[w].new \cup {call[w].game}])
  /\ UNCHANGED <<dbVars, steamVars, queue>>

\* Mutation: what has been written so far is committed.
WholeOrPart(w) == TRUE

AllWritten(w) == call[w].left = {}

\* The end of SyncAccountGames; an empty library leaves library_synced_at alone.
\* Games that Steam does not report any more stay in account_games.
CommitGames(w) ==
  /\ call[w].at = "Write" /\ AllWritten(w)
  /\ LET a == call[w].acct
     IN /\ games' = [g \in Apps |-> games[g] + IF g \in call[w].new THEN 1 ELSE 0]
        /\ library' = [library EXCEPT ![a] = @ \cup (call[w].all \ call[w].left)]
        /\ synced' = IF call[w].all = {} THEN synced ELSE synced \cup {a}
  /\ Go(w, Idle)
  /\ UNCHANGED <<status, steamVars, queue>>

\* Mutation: a failed sequence ends the job's work for good.
StopOnError(w) ==
  /\ call[w].at # "Idle"
  /\ Go(w, IF w = Job THEN [call[w] EXCEPT !.at = "Stopped"] ELSE Idle)
  /\ UNCHANGED <<dbVars, steamVars, queue>>

\* Any step may fail: a 4xx answer, a rejected administrator, a lost connection, an
\* account that is not idle, a game that was inserted meanwhile, a deadlock of two
\* inserts.  The transaction is rolled back and the job goes on with its next account.
Fail(w) ==
  /\ call[w].at # "Idle"
  /\ Go(w, Idle)
  /\ UNCHANGED <<dbVars, steamVars, queue>>

-----------------------------------------------------------------------------
(* The surroundings *)

\* A customer rents an idle account, and gives it back (RentalLifecycle).
Rent(a) ==
  /\ status[a] = "Available"
  /\ status' = [status EXCEPT ![a] = "Busy"]
  /\ UNCHANGED <<games, library, synced, steamVars, queue, call>>

GiveBack(a) ==
  /\ status[a] = "Busy"
  /\ status' = [status EXCEPT ![a] = "Available"]
  /\ UNCHANGED <<games, library, synced, steamVars, queue, call>>

\* On Steam an account gets a ban, which is permanent, gets a game, or loses one when
\* it is refunded or its licence is revoked.
Ban(a) ==
  /\ a \notin banned
  /\ banned' = banned \cup {a}
  /\ UNCHANGED <<dbVars, owned, reported, queue, call>>

Purchase(a, g) ==
  /\ g \notin owned[a]
  /\ owned' = [owned EXCEPT ![a] = @ \cup {g}]
  /\ UNCHANGED <<dbVars, banned, reported, queue, call>>

LoseGame(a, g) ==
  /\ g \in owned[a]
  /\ owned' = [owned EXCEPT ![a] = @ \ {g}]
  /\ UNCHANGED <<dbVars, banned, reported, queue, call>>

-----------------------------------------------------------------------------
Step(w) ==
  \/ Retry(w) \/ BansAnswer(w) \/ OwnedAnswer(w)
  \/ Disable(w) \/ InsertGame(w) \/ CommitGames(w) \/ Fail(w)
  \/ \E g \in Apps : FindGame(w, g)

Next ==
  \/ \E w \in Workers, a \in Accounts : CreateAccount(w, a) \/ AdminSync(w, a)
  \/ StartPass
  \/ \E a \in Accounts : TakeNext(a) \/ Rent(a) \/ GiveBack(a) \/ Ban(a)
  \/ \E w \in Workers : Step(w)
  \/ \E a \in Accounts, g \in Apps : Purchase(a, g) \/ LoseGame(a, g)

On(a) == call[Job].at # "Idle" /\ call[Job].acct = a

\* The scheduler starts the job again and again and a pass looks at every account;
\* no call of Steam or of the database takes for ever, and one that can succeed
\* again and again does not always fail.  Administrators need not do anything.
Fairness ==
  /\ WF_vars(StartPass) /\ WF_vars(Step(Job))
  /\ \A a \in Accounts :
       /\ WF_vars(TakeNext(a))
       /\ SF_vars(On(a) /\ BansAnswer(Job)) /\ SF_vars(On(a) /\ Disable(Job))

Spec == Init /\ [][Next]_vars
FairSpec == Spec /\ Fairness

-----------------------------------------------------------------------------
(* Properties *)

\* A game has one row, although every synchronisation looks for it first and
\* inserts it later, and several may be doing so at once.
OneRowPerGame == \A g \in Apps : games[g] <= 1

\* Every game in an account's library came in an answer of Steam that is there as a
\* whole: a synchronisation that fails half-way leaves nothing behind, and no other
\* one, with an older answer or after games were lost, takes anything out of it.
\* (The library as such need not be one that Steam ever reported: lost games stay.)
LibraryIsWhole ==
  \A a \in Accounts : \A g \in library[a] :
    \E answer \in reported[a] : g \in answer /\ answer \subseteq library[a]

\* A synchronisation disables an account only for a ban and never under a customer,
\* who may have rented it after the ban was looked up.
DisabledForBan ==
  [][\A a \in Accounts :
       status[a] # "Disabled" /\ status'[a] = "Disabled" => a \in banned /\ status[a] = "Available"]_vars

\* A banned account that nobody rents is disabled in the end, although answers of
\* Steam fail and transactions are rolled back.
BannedAccountsLeave ==
  \A a \in Accounts : (a \in banned /\ status[a] = "Available") ~> (status[a] \in {"Disabled", "Busy"})
=============================================================================
