-------------------------- MODULE DictionaryProofs --------------------------
(***************************************************************************)
(* Proofs about Dictionary, for any names, passwords, words, files,        *)
(* callers and crashes.                                                    *)
(***************************************************************************)
EXTENDS Dictionary, SequenceTheorems, TLAPS

-----------------------------------------------------------------------------
(* Prefixes of sequences. *)

LEMMA PrefixByElements ==
    ASSUME NEW S, NEW s \in Seq(S), NEW t \in Seq(S)
    PROVE  IsPrefix(s, t) <=>
              Len(s) <= Len(t) /\ \A i \in 1..Len(s) : s[i] = t[i]
<1>1. CASE Len(s) <= Len(t)
  <2>1. /\ SubSeq(s, 1, Len(s)) = s
        /\ SubSeq(t, 1, Len(s)) \in Seq(S)
        /\ Len(SubSeq(t, 1, Len(s))) = Len(s)
        /\ \A i \in 1..Len(s) : SubSeq(t, 1, Len(s))[i] = t[i]
    BY <1>1
  <2> QED
    BY <1>1, <2>1 DEF IsPrefix
<1>2. CASE ~ (Len(s) <= Len(t))
  BY <1>2 DEF IsPrefix
<1> QED
  BY <1>1, <1>2

LEMMA PrefixOfItself ==
    ASSUME NEW S, NEW s \in Seq(S)
    PROVE  IsPrefix(s, s)
BY PrefixByElements

LEMMA PrefixOfAppend ==
    ASSUME NEW S, NEW s \in Seq(S), NEW e \in S
    PROVE  IsPrefix(s, Append(s, e))
<1> DEFINE u == Append(s, e)
<1>1. u \in Seq(S) /\ Len(u) = Len(s) + 1 /\ \A i \in 1..Len(s) : u[i] = s[i]
  OBVIOUS
<1> HIDE DEF u
<1>2. IsPrefix(s, u)
  BY <1>1, PrefixByElements
<1> QED
  BY <1>2 DEF u

LEMMA PrefixOfAll ==
    ASSUME NEW S, NEW t \in Seq(S)
    PROVE  IsPrefix(<<>>, t)
<1> DEFINE e == <<>>
<1>1. e \in Seq(S) /\ Len(e) = 0 /\ Len(t) \in Nat
  OBVIOUS
<1> HIDE DEF e
<1>2. Len(e) <= Len(t) /\ \A i \in 1..Len(e) : e[i] = t[i]
  BY <1>1
<1>3. IsPrefix(e, t)
  BY <1>1, <1>2, PrefixByElements
<1> QED
  BY <1>3 DEF e

LEMMA PrefixGrows ==
    ASSUME NEW S, NEW s \in Seq(S), NEW t \in Seq(S),
           IsPrefix(s, t), Len(s) < Len(t)
    PROVE  IsPrefix(Append(s, t[Len(s) + 1]), t)
<1> DEFINE u == Append(s, t[Len(s) + 1])
<1>1. u \in Seq(S) /\ Len(u) = Len(s) + 1
  OBVIOUS
<1>2. ASSUME NEW i \in 1..Len(u) PROVE u[i] = t[i]
  BY PrefixByElements
<1>3. Len(u) <= Len(t)
  OBVIOUS
<1> HIDE DEF u
<1>4. IsPrefix(u, t)
  BY <1>1, <1>2, <1>3, PrefixByElements
<1> QED
  BY <1>4 DEF u

LEMMA WholePrefix ==
    ASSUME NEW S, NEW s \in Seq(S), NEW t \in Seq(S),
           IsPrefix(s, t), Len(s) = Len(t)
    PROVE  s = t
BY PrefixByElements

-----------------------------------------------------------------------------
(* Types, and what a caller inside loginUser has seen. *)

\* A caller between the two statements of loginUser has a row to update, which
\* is offline: whoever would change it has to take usr_mutex.  A caller that was
\* let in because of a row still has that row.
StepInv ==
    \A c \in Callers :
        /\ step[c] # None => /\ user[step[c]] # None /\ user[step[c]].stage = 0
                            /\ holds[c] = None
        /\ holds[c] # None /\ invited[c] => user[holds[c]] # None

LoginInv == TypeOK /\ StepInv

LEMMA LoginInit == Init => LoginInv
<1> SUFFICES ASSUME Init PROVE LoginInv
  OBVIOUS
<1> USE DictionaryAssumption
<1>1. history \in Seq(Names \X Words \X (Meanings \cup {None}))
      /\ dict \in Seq(Words \X Meanings)
  BY DEF Init
<1>2. line \in 1..(Len(File) + 1) /\ crashes \in 0..MaxCrashes
  BY DEF Init
<1>3. TypeOK
  <2>1. \A c \in Callers : step[c] = None /\ holds[c] = None /\ usrMutex # c
    BY DEF Init, NoName
  <2>2. /\ step \in [Callers -> Names \cup {None}]
        /\ holds \in [Callers -> Names \cup {None}]
    BY DEF Init, NoName
  <2> QED
    BY <1>1, <1>2, <2>1, <2>2 DEF Init, TypeOK
<1>4. StepInv
  BY DEF Init, StepInv, NoName
<1> QED
  BY <1>3, <1>4 DEF LoginInv

\* The table of users, one of them offline: what logoutUser's update leaves.
Offline(n) ==
    [m \in Names |->
        IF m = n /\ user[m] # None THEN [user[m] EXCEPT !.stage = 0] ELSE user[m]]

LEMMA OfflineRows ==
    ASSUME NEW n, NEW T, None \notin [password : T, stage : {0, 1}],
           user \in [Names -> [password : T, stage : {0, 1}] \cup {None}]
    PROVE  /\ Offline(n) \in [Names -> [password : T, stage : {0, 1}] \cup {None}]
           /\ \A m \in Names : user[m] # None => Offline(n)[m] # None
<1>1. ASSUME NEW m \in Names
      PROVE  /\ Offline(n)[m] \in [password : T, stage : {0, 1}] \cup {None}
             /\ user[m] # None => Offline(n)[m] # None
  <2>1. CASE m = n /\ user[m] # None
    <3>1. user[m] \in [password : T, stage : {0, 1}]
      BY <2>1
    <3>2. [user[m] EXCEPT !.stage = 0] \in [password : T, stage : {0, 1}]
      BY <3>1
    <3> QED
      BY <2>1, <3>2 DEF Offline
  <2>2. CASE ~ (m = n /\ user[m] # None)
    BY <2>2 DEF Offline
  <2> QED
    BY <2>1, <2>2
<1> QED
  BY <1>1 DEF Offline

LEMMA LogoutOffline ==
    ASSUME TypeOK, NEW c \in Callers, Logout(c)
    PROVE  user' = Offline(holds[c]) /\ holds[c] \in Names
<1>1. user' = Offline(holds[c])
  BY DEF Logout, Offline
<1>2. holds \in [Callers -> Names \cup {None}]
  BY DEF TypeOK
<1>3. holds[c] # None
  BY DEF Logout
<1> QED
  BY <1>1, <1>2, <1>3

LEMMA LoginNext == LoginInv /\ [Next]_vars => LoginInv'
<1> SUFFICES ASSUME LoginInv, [Next]_vars PROVE LoginInv'
  OBVIOUS
<1> USE DictionaryAssumption
        DEF LoginInv, TypeOK, StepInv, vars, disk, start, mutex, callers
<1>0. Len(File) \in Nat
  OBVIOUS
<1>1. CASE Open
  BY <1>1 DEF Open
<1>2. CASE ResetStages
  BY <1>2 DEF ResetStages
<1>3. CASE CountWords
  BY <1>0, <1>3 DEF CountWords
<1>4. CASE CountFails
  BY <1>4 DEF CountFails
<1>5. CASE Import
  <2>1. line \in 1..Len(File) /\ File[line] \in Words \X Meanings
    BY <1>0, <1>5 DEF Import, Meanings
  <2>2. dict' \in Seq(Words \X Meanings)
    BY <1>5, <2>1 DEF Import
  <2>3. line' \in 1..(Len(File) + 1)
    BY <1>0, <1>5, <2>1 DEF Import
  <2> QED
    BY <1>5, <2>2, <2>3 DEF Import
<1>6. CASE ImportEnds
  BY <1>6 DEF ImportEnds
<1>7. CASE StartFails
  BY <1>7 DEF StartFails
<1>8. CASE Crash
  BY <1>8 DEF Crash, NoName
<1>9. ASSUME NEW n \in Names, NEW p \in Passwords, Register(n, p) PROVE LoginInv'
  BY <1>9 DEF Register
<1>10. ASSUME NEW c \in Callers, NEW n \in Names, NEW p \in Passwords,
              LoginSelect(c, n, p)
       PROVE  LoginInv'
  BY <1>10 DEF LoginSelect, Row
<1>11. ASSUME NEW c \in Callers, NEW n \in Names, NEW p \in Passwords,
              LoginNoRow(c, n, p)
       PROVE  LoginInv'
  BY <1>11 DEF LoginNoRow
<1>12. ASSUME NEW c \in Callers, LoginUpdate(c) PROVE LoginInv'
  BY <1>12 DEF LoginUpdate
<1>13. ASSUME NEW c \in Callers, LoginFails(c) PROVE LoginInv'
  BY <1>13 DEF LoginFails
<1>14. ASSUME NEW c \in Callers, Logout(c) PROVE LoginInv'
  <2>1. step = NoName /\ step' = step
    BY <1>14 DEF Logout, NoName
  <2>2. user' = Offline(holds[c]) /\ holds[c] \in Names
    BY <1>14, LogoutOffline
  <2>3. \A n \in Names : user[n] # None => user'[n] # None
    BY <2>2, OfflineRows
  <2>4. TypeOK'
    <3>1. user' \in [Names -> [password : {AsStored[p] : p \in Passwords},
                               stage : {0, 1}] \cup {None}]
      BY <2>2, OfflineRows
    <3>2. holds' \in [Callers -> Names \cup {None}] /\ breached' \subseteq Names
      BY <1>14, <2>2 DEF Logout
    <3>3. /\ UNCHANGED <<history, dict, pc, line, cut, usrMutex, step, invited, left,
                         crashes>>
          /\ pc = "serving"
      BY <1>14 DEF Logout
    <3> QED
      BY <3>1, <3>2, <3>3
  <2>5. StepInv'
    BY <1>14, <2>1, <2>3 DEF Logout, NoName
  <2> QED
    BY <2>4, <2>5
<1>15. ASSUME NEW c \in Callers, Disconnect(c) PROVE LoginInv'
  BY <1>15 DEF Disconnect
<1>16. ASSUME NEW c \in Callers, NEW w \in Words, Record(c, w) PROVE LoginInv'
  <2>1. PICK m \in Meaning(w) : history' = Append(history, <<holds[c], w, m>>)
    BY <1>16 DEF Record
  <2>2. m \in Meanings \cup {None}
    BY <2>1 DEF Meaning
  <2>3. history' \in Seq(Names \X Words \X (Meanings \cup {None}))
    BY <1>16, <2>1, <2>2 DEF Record
  <2> QED
    BY <1>16, <2>3 DEF Record
<1>17. CASE UNCHANGED vars
  BY <1>17
<1> QED
  BY <1>1, <1>2, <1>3, <1>4, <1>5, <1>6, <1>7, <1>8, <1>9, <1>10, <1>11, <1>12,
     <1>13, <1>14, <1>15, <1>16, <1>17
  DEF Next, Start, Call

\* The tables and the program's variables keep their types, and usr_mutex is
\* held by the caller inside loginUser and by nobody else, whatever fails.
THEOREM TypeCorrect == Spec => []TypeOK
<1>1. LoginInv => TypeOK
  BY DEF LoginInv
<1> QED
  BY <1>1, LoginInit, LoginNext, PTL DEF Spec

-----------------------------------------------------------------------------
(* Who is logged in. *)

Ready == pc \in {"words", "import", "serving"}

\* Steps that change neither the rows of the users nor what callers hold, nor
\* get past the reset of the stages.
LEMMA QuietSteps ==
    ASSUME \/ Open \/ CountWords \/ CountFails \/ Import \/ ImportEnds
           \/ StartFails
           \/ \E c \in Callers, n \in Names, p \in Passwords : LoginSelect(c, n, p)
           \/ \E c \in Callers : LoginFails(c)
           \/ \E c \in Callers, w \in Words : Record(c, w)
           \/ UNCHANGED vars
    PROVE  UNCHANGED <<user, holds, invited, left, breached>> /\ (Ready' => Ready)
BY DEF Ready, Open, CountWords, CountFails, Import, ImportEnds, StartFails, LoginSelect,
       LoginFails, Record, vars, disk, callers, start

LEMMA OneHolderNext == LoginInv /\ OneHolder /\ [Next]_vars => OneHolder'
<1> SUFFICES ASSUME LoginInv, OneHolder, [Next]_vars PROVE OneHolder'
  OBVIOUS
<1> USE DEF OneHolder
<1>1. CASE UNCHANGED <<user, holds, invited, left, breached>>
  BY <1>1 DEF Holders
<1>2. CASE ResetStages
  <2>1. \A n \in Names : Holders(n)' = {}
    BY <1>2, DictionaryAssumption DEF ResetStages, callers, Holders, LoginInv, TypeOK
  <2> QED
    BY <2>1
<1>3. CASE Crash
  <2>1. \A n \in Names : Holders(n)' = {}
    BY <1>3, DictionaryAssumption DEF Crash, NoName, Holders
  <2> QED
    BY <2>1
<1>4. ASSUME NEW n \in Names, NEW p \in Passwords, Register(n, p) PROVE OneHolder'
  <2>1. \A m \in Names : Holders(m)' = Holders(m)
    BY <1>4 DEF Register, callers, Holders
  <2>2. \A m \in Names : m # n => user'[m] = user[m]
    BY <1>4 DEF Register, LoginInv, TypeOK
  <2>3. Holders(n) = {}
    BY <1>4, DictionaryAssumption DEF Register, LoginInv, StepInv, Holders
  <2>4. breached' = breached
    BY <1>4 DEF Register, callers
  <2> QED
    BY <2>1, <2>2, <2>3, <2>4
<1>5. ASSUME NEW c \in Callers, NEW n \in Names, NEW p \in Passwords,
             LoginNoRow(c, n, p)
      PROVE  OneHolder'
  <2>1. \A m \in Names : Holders(m)' = Holders(m)
    BY <1>5, DictionaryAssumption DEF LoginNoRow, Holders, LoginInv, TypeOK
  <2> QED
    BY <1>5, <2>1 DEF LoginNoRow, disk
<1>6. ASSUME NEW c \in Callers, LoginUpdate(c) PROVE OneHolder'
  <2>0. PICK n \in Names : n = step[c]
    BY <1>6 DEF LoginUpdate, LoginInv, TypeOK
  <2>1. /\ user[n].stage = 0
        /\ user'[n].stage = 1
    BY <1>6, <2>0 DEF LoginUpdate, LoginInv, TypeOK, StepInv
  <2>2. n \notin breached => Holders(n) = {}
    BY <2>1
  <2>3. \A m \in Names : m # n => user'[m] = user[m]
    BY <1>6, <2>0 DEF LoginUpdate, LoginInv, TypeOK
  <2>4. /\ holds' = [holds EXCEPT ![c] = n]
        /\ invited' = [invited EXCEPT ![c] = TRUE]
        /\ breached' = breached
    BY <1>6, <2>0 DEF LoginUpdate
  <2>5. \A m \in Names : m # n => Holders(m)' \subseteq Holders(m)
    BY <2>4 DEF Holders, LoginInv, TypeOK
  <2>6. n \notin breached => Holders(n)' \subseteq {c}
    BY <2>2, <2>4 DEF Holders, LoginInv, TypeOK
  <2> QED
    BY <2>1, <2>3, <2>4, <2>5, <2>6
<1>7. ASSUME NEW c \in Callers, Logout(c) PROVE OneHolder'
  <2>0. PICK n \in Names : n = holds[c]
    BY <1>7 DEF Logout, LoginInv, TypeOK
  <2>1. breached \subseteq breached'
    BY <1>7, <2>0 DEF Logout, LoginInv, TypeOK
  <2>2. \A m \in Names : m # n => user'[m] = user[m]
    BY <1>7, <2>0 DEF Logout, LoginInv, TypeOK
  <2>3. \A m \in Names : Holders(m)' \subseteq Holders(m) \ {c}
    BY <1>7, <2>0, DictionaryAssumption DEF Logout, Holders, LoginInv, TypeOK
  <2>4. n \notin breached' => Holders(n) \subseteq {c}
    <3>1. SUFFICES ASSUME n \notin breached' PROVE Holders(n) \subseteq {c}
      OBVIOUS
    <3>2. invited[c]
      BY <1>7, <2>0, <3>1 DEF Logout
    <3>3. c \in Holders(n)
      BY <2>0, <3>2 DEF Holders
    <3> QED
      BY <2>1, <3>1, <3>3
  <2> QED
    BY <2>1, <2>2, <2>3, <2>4
<1>8. ASSUME NEW c \in Callers, Disconnect(c) PROVE OneHolder'
  <2>1. \A m \in Names : Holders(m)' \subseteq Holders(m)
    BY <1>8, DictionaryAssumption DEF Disconnect, Holders, LoginInv, TypeOK
  <2> QED
    BY <1>8, <2>1 DEF Disconnect, disk
<1> QED
  BY <1>1, <1>2, <1>3, <1>4, <1>5, <1>6, <1>7, <1>8, QuietSteps DEF Next, Start, Call

\* Of the callers that gave a user's name and password one at a time is logged in,
\* and the user is online: for any number of callers, failing statements and
\* crashes, but for names that somebody who got in with no row has logged out.
\* (With the callers that get in with no row it is not so: see OneLogin.)
THEOREM OneHolderOnly == Spec => []OneHolder
<1>1. Init => OneHolder
  BY DictionaryAssumption DEF Init, NoName, OneHolder, Holders
<1> QED
  BY <1>1, LoginInit, LoginNext, OneHolderNext, PTL DEF Spec

LEMMA OnlineNext == LoginInv /\ OnlineExplained /\ [Next]_vars => OnlineExplained'
<1> SUFFICES ASSUME LoginInv, OnlineExplained, [Next]_vars PROVE OnlineExplained'
  OBVIOUS
<1> USE DEF OnlineExplained
<1>1. CASE UNCHANGED <<user, holds, invited, left, breached>> /\ (Ready' => Ready)
  BY <1>1 DEF Ready, Holders
<1>2. CASE ResetStages
  <2>1. \A n \in Names : user'[n] = None \/ user'[n].stage = 0
    BY <1>2, DictionaryAssumption DEF LoginInv, TypeOK, StepInv, ResetStages
  <2> QED
    BY <2>1
<1>3. CASE Crash
  BY <1>3, DictionaryAssumption DEF LoginInv, TypeOK, StepInv, Crash
<1>4. ASSUME NEW n \in Names, NEW p \in Passwords, Register(n, p)
      PROVE  OnlineExplained'
  BY <1>4, DictionaryAssumption DEF LoginInv, TypeOK, StepInv, Register, callers, start, Holders
<1>5. ASSUME NEW c \in Callers, NEW n \in Names, NEW p \in Passwords,
             LoginNoRow(c, n, p)
      PROVE  OnlineExplained'
  BY <1>5, DictionaryAssumption DEF LoginInv, TypeOK, StepInv, LoginNoRow, disk, start, Holders
<1>6. ASSUME NEW c \in Callers, LoginUpdate(c) PROVE OnlineExplained'
  <2>0. PICK m \in Names : m = step[c]
    BY <1>6 DEF LoginUpdate, LoginInv, TypeOK
  <2>1. c \in Holders(m)'
    BY <1>6, <2>0, DictionaryAssumption DEF LoginInv, TypeOK, StepInv, LoginUpdate, Holders
  <2>2. ASSUME NEW n \in Names, n # m
        PROVE  user'[n] = user[n] /\ Holders(n) \subseteq Holders(n)'
    BY <1>6, <2>0, <2>2, DictionaryAssumption DEF LoginInv, TypeOK, StepInv, LoginUpdate, Holders
  <2>3. pc' = pc /\ left' = left
    BY <1>6, <2>0, DictionaryAssumption DEF LoginInv, TypeOK, StepInv, LoginUpdate, start
  <2> QED
    BY <2>1, <2>2, <2>3
<1>7. ASSUME NEW c \in Callers, Logout(c) PROVE OnlineExplained'
  <2>0. PICK m \in Names : m = holds[c]
    BY <1>7 DEF Logout, LoginInv, TypeOK
  <2>1. ASSUME NEW n \in Names, n # m
        PROVE  user'[n] = user[n] /\ Holders(n)' = Holders(n)
    BY <1>7, <2>0, <2>1, DictionaryAssumption DEF LoginInv, TypeOK, StepInv, Logout, Holders
  <2>2. user'[m] # None => user'[m].stage = 0
    BY <1>7, <2>0, DictionaryAssumption DEF LoginInv, TypeOK, StepInv, Logout
  <2>3. pc' = pc /\ left' = left
    BY <1>7, <2>0, DictionaryAssumption DEF LoginInv, TypeOK, StepInv, Logout, start
  <2> QED
    BY <2>1, <2>2, <2>3
<1>8. ASSUME NEW c \in Callers, Disconnect(c) PROVE OnlineExplained'
  <2>1. \A n \in Names : Holders(n) \subseteq Holders(n)' \cup {c}
    BY <1>8, DictionaryAssumption DEF LoginInv, TypeOK, StepInv, Disconnect, Holders
  <2>2. \A n \in Names : c \in Holders(n) => n \in left'
    BY <1>8, DictionaryAssumption DEF LoginInv, TypeOK, StepInv, Disconnect, Holders
  <2>3. pc' = pc /\ user' = user /\ left \subseteq left'
    BY <1>8, DictionaryAssumption DEF LoginInv, TypeOK, StepInv, Disconnect, disk, start
  <2> QED
    BY <2>1, <2>2, <2>3
<1> QED
  BY <1>1, <1>2, <1>3, <1>4, <1>5, <1>6, <1>7, <1>8, QuietSteps DEF Next, Start, Call

\* A user is online because of somebody in this run of the program: nobody is
\* locked out by a crash.
THEOREM NobodyLockedOut == Spec => []OnlineExplained
<1>1. Init => OnlineExplained
  BY DEF Init, OnlineExplained
<1> QED
  BY <1>1, LoginInit, LoginNext, OnlineNext, PTL DEF Spec

-----------------------------------------------------------------------------
(* The words. *)

\* The import has inserted the lines it has read; an import that was not cut
\* short has left all of the file or nothing.
ImportInv ==
    /\ pc = "import" => Len(dict) = line - 1
    /\ pc # "import" /\ ~ cut => dict = <<>> \/ dict = File

WordsInv == DictOnce /\ ImportInv

\* Steps that the words, the place in the file and `cut' do not notice.
LEMMA WordsUntouched ==
    ASSUME \/ ResetStages \/ Open
           \/ \E n \in Names, p \in Passwords : Register(n, p)
           \/ \E c \in Callers : Call(c)
           \/ UNCHANGED vars
    PROVE  /\ UNCHANGED <<dict, line, cut>>
           /\ pc' = pc \/ pc' \in {"users", "words"}
           /\ pc = "import" => pc' = pc
BY DEF Open, ResetStages, Register, Call, LoginSelect, LoginNoRow, LoginUpdate,
       LoginFails, Logout, Disconnect, Record, vars, disk, start

LEMMA WordsNext == TypeOK /\ WordsInv /\ [Next]_vars => WordsInv'
<1> SUFFICES ASSUME TypeOK, WordsInv, [Next]_vars PROVE WordsInv'
  OBVIOUS
<1> USE DEF WordsInv, DictOnce, ImportInv
<1>0. /\ File \in Seq(Words \X Meanings) /\ Len(File) \in Nat
      /\ dict \in Seq(Words \X Meanings) /\ Len(dict) \in Nat
      /\ line \in 1..(Len(File) + 1)
  BY DictionaryAssumption DEF TypeOK, Meanings
<1>1. CASE /\ UNCHANGED <<dict, line, cut>>
           /\ pc' = pc \/ pc' \in {"users", "words"}
           /\ pc = "import" => pc' = pc
  BY <1>1
<1>2. CASE CountWords
  BY <1>0, <1>2 DEF CountWords, NeedImport, disk
<1>3. CASE CountFails
  BY <1>3 DEF CountFails, disk
<1>4. CASE Import
  <2>1. Len(dict) = line - 1 /\ line <= Len(File)
    BY <1>4 DEF Import
  <2>2. dict' = Append(dict, File[Len(dict) + 1]) /\ File[line] \in Words \X Meanings
    BY <1>0, <1>4, <2>1 DEF Import
  <2>3. IsPrefix(dict', File)
    BY <1>0, <2>1, <2>2, PrefixGrows
  <2>4. Len(dict') = Len(dict) + 1
    BY <1>0, <2>2
  <2> QED
    BY <1>0, <1>4, <2>1, <2>3, <2>4 DEF Import
<1>5. CASE ImportEnds
  <2>1. /\ pc = "import" /\ pc' = "serving" /\ UNCHANGED dict
        /\ cut' = (cut \/ line <= Len(File))
    BY <1>5 DEF ImportEnds, disk
  <2>2. CASE line <= Len(File)
    BY <2>1, <2>2
  <2>3. CASE ~ (line <= Len(File))
    <3>1. Len(dict) = Len(File)
      BY <1>0, <2>1, <2>3
    <3>2. dict = File
      BY <1>0, <3>1, WholePrefix
    <3> QED
      BY <2>1, <3>2
  <2> QED
    BY <2>2, <2>3
<1>6. CASE StartFails
  BY <1>6 DEF StartFails, disk
<1>7. CASE Crash
  BY <1>7 DEF Crash, disk
<1> QED
  BY <1>1, <1>2, <1>3, <1>4, <1>5, <1>6, <1>7, WordsUntouched DEF Next, Start

\* The table of words is a beginning of the file through any number of failed
\* starts, failed reads and crashes, and all of it unless an import was cut short.
THEOREM WordsOnce == Spec => []DictOnce
<1>1. Init => WordsInv
  <2> DEFINE R == Words \X Meanings
  <2>1. <<>> \in Seq(R) /\ File \in Seq(R)
    BY DictionaryAssumption DEF Meanings
  <2> HIDE DEF R
  <2>2. IsPrefix(<<>>, File)
    BY <2>1, PrefixOfAll
  <2> QED
    BY <2>2 DEF Init, WordsInv, DictOnce, ImportInv
<1>2. LoginInv => TypeOK
  BY DEF LoginInv
<1>3. WordsInv => DictOnce
  BY DEF WordsInv
<1> QED
  BY <1>1, <1>2, <1>3, LoginInit, LoginNext, WordsNext, PTL DEF Spec

-----------------------------------------------------------------------------
(* What is stored. *)

LEMMA KeptNext ==
    ASSUME TypeOK, StepInv, [Next]_vars
    PROVE  /\ \A n \in Names : user[n] # None =>
                  user'[n] # None /\ user'[n].password = user[n].password
           /\ IsPrefix(history, history')
           /\ IsPrefix(dict, dict')
<1> DEFINE Rows == [password : {AsStored[p] : p \in Passwords}, stage : {0, 1}]
<1>1. ASSUME NEW n \in Names, user[n] # None
      PROVE  user'[n] # None /\ user'[n].password = user[n].password
  <2>1. user[n] \in Rows /\ None \notin Rows
    BY <1>1, DictionaryAssumption DEF TypeOK
  <2>2. CASE user'[n] = user[n]
    BY <1>1, <2>2
  <2>3. CASE ResetStages
    BY <1>1, <2>1, <2>3 DEF ResetStages
  <2>4. ASSUME NEW m \in Names, NEW p \in Passwords, Register(m, p)
        PROVE  user'[n] = user[n]
    BY <1>1, <2>4 DEF Register, TypeOK
  <2>5. ASSUME NEW c \in Callers, LoginUpdate(c)
        PROVE  user'[n] # None /\ user'[n].password = user[n].password
    BY <1>1, <2>1, <2>5 DEF LoginUpdate, TypeOK, StepInv
  <2>6. ASSUME NEW c \in Callers, Logout(c)
        PROVE  user'[n] # None /\ user'[n].password = user[n].password
    BY <1>1, <2>1, <2>6 DEF Logout
  <2> QED
    BY <2>2, <2>3, <2>4, <2>5, <2>6, QuietSteps
    DEF Next, Start, Call, Crash, LoginNoRow, Disconnect, disk
<1>2. history' = history \/ \E e \in Names \X Words \X (Meanings \cup {None}) :
                                history' = Append(history, e)
  <2>1. ASSUME NEW c \in Callers, NEW w \in Words, Record(c, w)
        PROVE  \E e \in Names \X Words \X (Meanings \cup {None}) :
                   history' = Append(history, e)
    <3>1. PICK m \in Meaning(w) : history' = Append(history, <<holds[c], w, m>>)
      BY <2>1 DEF Record
    <3>2. m \in Meanings \cup {None}
      BY <3>1, DictionaryAssumption DEF Meaning, TypeOK
    <3> QED
      BY <2>1, <3>1, <3>2 DEF Record, TypeOK
  <2> QED
    BY <2>1
    DEF Next, Start, Call, Open, ResetStages, CountWords, CountFails, Import,
        ImportEnds, StartFails, Crash, Register, LoginSelect, LoginNoRow,
        LoginUpdate, LoginFails, Logout, Disconnect, vars, disk
<1>3. dict' = dict \/ \E e \in Words \X Meanings : dict' = Append(dict, e)
  <2>1. ASSUME Import PROVE \E e \in Words \X Meanings : dict' = Append(dict, e)
    <3>1. File \in Seq(Words \X Meanings) /\ line \in 1..Len(File)
      BY <2>1, DictionaryAssumption DEF Import, TypeOK, Meanings
    <3> QED
      BY <2>1, <3>1 DEF Import
  <2> QED
    BY <2>1, WordsUntouched
    DEF Next, Start, CountWords, CountFails, ImportEnds, StartFails, Crash, disk
<1>4. IsPrefix(history, history')
  <2> DEFINE R == Names \X Words \X (Meanings \cup {None})
  <2>1. history \in Seq(R)
    BY DEF TypeOK
  <2> HIDE DEF R
  <2>2. CASE history' = history
    BY <2>1, <2>2, PrefixOfItself
  <2>3. ASSUME NEW e \in R, history' = Append(history, e)
        PROVE  IsPrefix(history, history')
    BY <2>1, <2>3, PrefixOfAppend
  <2> QED
    BY <1>2, <2>2, <2>3 DEF R
<1>5. IsPrefix(dict, dict')
  <2> DEFINE R == Words \X Meanings
  <2>1. dict \in Seq(R)
    BY DEF TypeOK
  <2> HIDE DEF R
  <2>2. CASE dict' = dict
    BY <2>1, <2>2, PrefixOfItself
  <2>3. ASSUME NEW e \in R, dict' = Append(dict, e)
        PROVE  IsPrefix(dict, dict')
    BY <2>1, <2>3, PrefixOfAppend
  <2> QED
    BY <1>3, <2>2, <2>3 DEF R
<1> QED
  BY <1>1, <1>4, <1>5

\* No account is taken over, and no row of the history or of the words is lost,
\* by any step of the program and by none of its crashes.
THEOREM StoredIsKept == Spec => Kept
<1>1. LoginInv /\ [Next]_vars =>
        [/\ \A n \in Names : user[n] # None =>
                user'[n] # None /\ user'[n].password = user[n].password
         /\ IsPrefix(history, history')
         /\ IsPrefix(dict, dict')]_vars
  BY KeptNext DEF LoginInv
<1> QED
  BY <1>1, LoginInit, LoginNext, PTL DEF Spec, Kept

=============================================================================
