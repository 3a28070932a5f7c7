----------------------------- MODULE Dictionary -----------------------------
(***************************************************************************)
(* The dictionary server's database_manager: two SQLite databases, users   *)
(* with their history and the words, opened and initialised at every start *)
(* of the program (initTable) and used by the threads that serve clients.  *)
(*                                                                         *)
(* A statement of SQL is one step and is on disk when it has returned; the *)
(* program may crash between any two.  A method that is one statement      *)
(* under its mutex is one step; loginUser is two statements under          *)
(* usr_mutex.  A statement that fails changes nothing: where that leads    *)
(* nowhere else in the code it is no step here.                            *)
(*                                                                         *)
(* The callers are the threads of server.cpp, which has not got the bodies *)
(* of its handlers: a caller logs in once at a time, logs out the name it  *)
(* believes to be logged in as, and forgets it when its client disconnects *)
(* (handleClient returns without a call).                                  *)
(***************************************************************************)
EXTENDS Naturals, Sequences, SequencesExt, FiniteSets

CONSTANTS
    Names, Passwords,
    AsStored,       \* what a column of type int makes of each password: the
                    \* texts of one number are one value
    Words,
    File,           \* dict.txt, without its blank lines: <<word, meaning>>
    Callers,
    None,
    MaxCrashes,     \* bound: crashes of the program
    MaxHistory      \* bound: rows of the history

ASSUME DictionaryAssumption ==
    /\ Passwords \subseteq DOMAIN AsStored
    /\ File \in Seq(Words \X {File[i][2] : i \in DOMAIN File})
    /\ None \notin Names \cup Callers
    /\ None \notin [password : {AsStored[p] : p \in Passwords}, stage : {0, 1}]
    /\ MaxCrashes \in Nat /\ MaxHistory \in Nat

VARIABLES
    \* on disk
    user,           \* the row of each name: password and stage, or None
    history,
    dict,
    \* the program
    pc,             \* "down"; where initTable is; "serving"
    line,           \* line of File that dictInsert reads next
    usrMutex,       \* the caller inside loginUser, between its statements
    step,           \* the name it is about to turn online
    \* the callers
    holds,          \* the name each was told it is logged in as
    invited,        \* whether a row of that name and password was found
    \* history variables
    left,           \* names whose client disconnected without logging out
    breached,       \* names logged out by a caller that was not invited
    cut,            \* an import was cut short, or the words were not counted
    crashes

disk == <<user, history, dict>>
start == <<pc, line, cut>>
mutex == <<usrMutex, step>>
callers == <<holds, invited, left, breached>>
vars == <<disk, start, mutex, callers, crashes>>

NoName == [c \in Callers |-> None]

Init ==
    /\ user = [n \in Names |-> None]
    /\ history = <<>>
    /\ dict = <<>>
    /\ pc = "down"
    /\ line = 1
    /\ cut = FALSE
    /\ usrMutex = None
    /\ step = NoName
    /\ holds = NoName
    /\ invited = [c \in Callers |-> FALSE]
    /\ left = {} /\ breached = {}
    /\ crashes = 0

-----------------------------------------------------------------------------
(* A start: initUsrTable, then initDictTable. *)

Open ==
    /\ pc = "down"
    /\ pc' = "users"
    /\ UNCHANGED <<disk, line, cut, mutex, callers, crashes>>

\* Mutant: the tables are created, the users' stages are left as they were.
KeepStages ==
    /\ pc = "users"
    /\ pc' = "words"
    /\ UNCHANGED <<disk, line, cut, mutex, callers, crashes>>

\* The tables are created if they are not there, and everybody is offline.
ResetStages ==
    /\ pc = "users"
    /\ user' = [n \in Names |->
                  IF user[n] = None THEN None ELSE [user[n] EXCEPT !.stage = 0]]
    /\ pc' = "words"
    /\ UNCHANGED <<history, dict, line, cut, mutex, callers, crashes>>

\* Mutant: the words are imported at every start.
AlwaysImport == TRUE

NeedImport == dict = <<>>

CountWords ==
    /\ pc = "words"
    /\ pc' = IF NeedImport THEN "import" ELSE "serving"
    /\ line' = 1
    /\ UNCHANGED <<disk, cut, mutex, callers, crashes>>

\* A select that yields no row for a count is taken for `no import needed'.
CountFails ==
    /\ pc = "words"
    /\ pc' = "serving"
    /\ cut' = TRUE
    /\ UNCHANGED <<disk, line, mutex, callers, crashes>>

\* One line, one insert, in a transaction of its own.
Import ==
    /\ pc = "import"
    /\ line <= Len(File)
    /\ dict' = Append(dict, File[line])
    /\ line' = line + 1
    /\ UNCHANGED <<user, history, pc, cut, mutex, callers, crashes>>

\* getline finds no more of the file: the file has ended, or reading it has failed,
\* which looks the same.
ImportEnds ==
    /\ pc = "import"
    /\ pc' = "serving"
    /\ cut' = (cut \/ line <= Len(File))
    /\ UNCHANGED <<disk, line, mutex, callers, crashes>>

\* A statement of initTable fails, or dict.txt cannot be opened: the program
\* ends, and what it has inserted stays.
StartFails ==
    /\ pc \in {"users", "words", "import"}
    /\ pc' = "down"
    /\ cut' = (cut \/ (pc = "import" /\ dict # <<>>))
    /\ UNCHANGED <<disk, line, mutex, callers, crashes>>

\* The program ends, anywhere: its threads and their clients are gone.
Crash ==
    /\ pc # "down"
    /\ crashes < MaxCrashes
    /\ crashes' = crashes + 1
    /\ pc' = "down"
    /\ cut' = (cut \/ (pc = "import" /\ dict # <<>>))
    /\ usrMutex' = None
    /\ step' = NoName
    /\ holds' = NoName
    /\ invited' = [c \in Callers |-> FALSE]
    /\ left' = {} /\ breached' = {}
    /\ UNCHANGED <<disk, line>>

-----------------------------------------------------------------------------
(* The methods that the callers use. *)

\* Mutant: `insert or replace'.
RegisterReplaces(n, p) ==
    /\ pc = "serving" /\ usrMutex = None
    /\ user' = [user EXCEPT ![n] = [password |-> AsStored[p], stage |-> 0]]
    /\ UNCHANGED <<history, dict, start, mutex, callers, crashes>>

\* The name is the table's key: a second row for it is refused.
Register(n, p) ==
    /\ pc = "serving" /\ usrMutex = None
    /\ user[n] = None
    /\ user' = [user EXCEPT ![n] = [password |-> AsStored[p], stage |-> 0]]
    /\ UNCHANGED <<history, dict, start, mutex, callers, crashes>>

Row(n, p) == user[n] # None /\ user[n].password = AsStored[p]

\* Mutant: usr_mutex is held by each of loginUser's statements, not by both.
LoginSelectUnlocked(c, n, p) ==
    /\ pc = "serving" /\ usrMutex = None
    /\ holds[c] = None
    /\ Row(n, p)
    /\ user[n].stage = 0
    /\ step' = [step EXCEPT ![c] = n]
    /\ UNCHANGED <<disk, start, usrMutex, callers, crashes>>

\* The select finds the user offline, and loginUser goes on.  When it finds the
\* user online, loginUser answers false and nothing changes.
LoginSelect(c, n, p) ==
    /\ pc = "serving" /\ usrMutex = None
    /\ holds[c] = None
    /\ Row(n, p)
    /\ user[n].stage = 0
    /\ usrMutex' = c
    /\ step' = [step EXCEPT ![c] = n]
    /\ UNCHANGED <<disk, start, callers, crashes>>

\* The select finds no row: it is done, and loginUser answers what it answers
\* after an update that is done, true.
LoginNoRow(c, n, p) ==
    /\ pc = "serving" /\ usrMutex = None
    /\ holds[c] = None
    /\ ~ Row(n, p)
    /\ holds' = [holds EXCEPT ![c] = n]
    /\ invited' = [invited EXCEPT ![c] = FALSE]
    /\ UNCHANGED <<disk, start, mutex, left, breached, crashes>>

LoginUpdate(c) ==
    /\ step[c] # None
    /\ user' = [user EXCEPT ![step[c]].stage = 1]
    /\ holds' = [holds EXCEPT ![c] = step[c]]
    /\ invited' = [invited EXCEPT ![c] = TRUE]
    /\ usrMutex' = None
    /\ step' = [step EXCEPT ![c] = None]
    /\ UNCHANGED <<history, dict, start, left, breached, crashes>>

\* Mutant: a return that leaves the mutex locked.
LoginFailsLocked(c) ==
    /\ step[c] # None
    /\ step' = [step EXCEPT ![c] = None]
    /\ UNCHANGED <<disk, start, usrMutex, callers, crashes>>

\* The update cannot be prepared or is not done: loginUser answers false.
LoginFails(c) ==
    /\ step[c] # None
    /\ usrMutex' = None
    /\ step' = [step EXCEPT ![c] = None]
    /\ UNCHANGED <<disk, start, callers, crashes>>

\* The stage of a name that has a row becomes 0, whoever asks.
Logout(c) ==
    /\ pc = "serving" /\ usrMutex = None
    /\ holds[c] # None
    /\ user' = [n \in Names |->
                  IF n = holds[c] /\ user[n] # None
                  THEN [user[n] EXCEPT !.stage = 0] ELSE user[n]]
    /\ breached' = IF invited[c] THEN breached ELSE breached \cup {holds[c]}
    /\ holds' = [holds EXCEPT ![c] = None]
    /\ UNCHANGED <<history, dict, start, mutex, invited, left, crashes>>

\* handleClient returns at the end of the client's stream: nobody logs out.
Disconnect(c) ==
    /\ pc = "serving"
    /\ holds[c] # None
    /\ left' = left \cup {holds[c]}
    /\ holds' = [holds EXCEPT ![c] = None]
    /\ UNCHANGED <<disk, start, mutex, invited, breached, crashes>>

\* querryWord: the meaning in the first row of that word, if it has one.
Meaning(w) ==
    LET firsts == {i \in DOMAIN dict :
                      dict[i][1] = w /\ \A j \in 1..(i - 1) : dict[j][1] # w}
    IN  IF firsts = {} THEN {None} ELSE {dict[i][2] : i \in firsts}

\* recordHistory, of a word that the caller has just asked for: the dictionary
\* does not change while the program serves.
Record(c, w) ==
    /\ pc = "serving" /\ usrMutex = None
    /\ holds[c] # None
    /\ Len(history) < MaxHistory
    /\ \E m \in Meaning(w) : history' = Append(history, <<holds[c], w, m>>)
    /\ UNCHANGED <<user, dict, start, mutex, callers, crashes>>

-----------------------------------------------------------------------------
Start ==
    \/ Open \/ ResetStages \/ CountWords \/ CountFails
    \/ Import \/ ImportEnds \/ StartFails

Call(c) ==
    \/ \E n \in Names, p \in Passwords : LoginSelect(c, n, p) \/ LoginNoRow(c, n, p)
    \/ LoginUpdate(c) \/ LoginFails(c)
    \/ Logout(c) \/ Disconnect(c)
    \/ \E w \in Words : Record(c, w)

Next ==
    \/ Start
    \/ Crash
    \/ \E n \in Names, p \in Passwords : Register(n, p)
    \/ \E c \in Callers : Call(c)

Spec == Init /\ [][Next]_vars

-----------------------------------------------------------------------------
(* Properties. *)

Meanings == {File[i][2] : i \in DOMAIN File}

\* Every variable keeps its kind of value; usr_mutex is held by the caller that
\* is inside loginUser and by nobody else, on every return of it; and nobody is
\* logged in to a program that is not serving.
TypeOK ==
    /\ user \in [Names -> [password : {AsStored[p] : p \in Passwords},
                           stage : {0, 1}] \cup {None}]
    /\ history \in Seq(Names \X Words \X (Meanings \cup {None}))
    /\ dict \in Seq(Words \X Meanings)
    /\ pc \in {"down", "users", "words", "import", "serving"}
    /\ line \in 1..(Len(File) + 1)
    /\ cut \in BOOLEAN
    /\ usrMutex \in Callers \cup {None}
    /\ step \in [Callers -> Names \cup {None}]
    /\ holds \in [Callers -> Names \cup {None}]
    /\ invited \in [Callers -> BOOLEAN]
    /\ left \subseteq Names /\ breached \subseteq Names
    /\ crashes \in 0..MaxCrashes
    /\ \A c \in Callers :
          /\ step[c] # None <=> usrMutex = c
          /\ pc # "serving" => holds[c] = None /\ step[c] = None

Holders(n) == {c \in Callers : holds[c] = n /\ invited[c]}

\* Of the callers that gave a user's name and password, one at a time is logged in,
\* and the user is online: of two such logins with no logout between them one
\* fails, whatever the threads do and however the program has ended before
\* (loginUser's check and update).  It says nothing of who got in with no row
\* (line 202: see OneLogin), and nothing of a name logged out by such a caller.
OneHolder ==
    \A n \in Names \ breached :
        /\ \A c, d \in Holders(n) : c = d
        /\ Holders(n) # {} => user[n].stage = 1

\* Of all the callers one at a time is logged in as a user who is online, as only
\* who turns the user from offline to online has logged in (line 201).
OneLogin ==
    \A n \in Names \ breached : \A c, d \in Callers :
        (/\ user[n] # None /\ user[n].stage = 1
         /\ holds[c] = n /\ holds[d] = n) => c = d

\* A user is online because somebody is logged in as that user in this run of
\* the program, or was and has disconnected: a user who was online when the
\* program crashed is not locked out by it (line 57).
OnlineExplained ==
    pc \in {"words", "import", "serving"} =>
        \A n \in Names :
            (user[n] # None /\ user[n].stage = 1) => Holders(n) # {} \/ n \in left

\* The table of words is a beginning of the file: no line twice, none skipped,
\* none out of order, through any number of starts that fail or crash; and a
\* program that serves has all of the file, unless an import was cut short
\* (lines 83-90 and 100-128: no transaction around the import, and the end of the
\* file is not told from a read that fails).
DictOnce ==
    /\ IsPrefix(dict, File)
    /\ (pc = "serving" /\ ~ cut) => dict = File

\* What was stored stays, through crashes and restarts: an account is never
\* taken over by a second registration, and no row of the history or of the
\* dictionary is lost or changed.
Kept ==
    [][/\ \A n \in Names : user[n] # None =>
              user'[n] # None /\ user'[n].password = user[n].password
       /\ IsPrefix(history, history')
       /\ IsPrefix(dict, dict')]_vars

=============================================================================
