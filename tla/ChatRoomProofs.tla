--------------------------- MODULE ChatRoomProofs ---------------------------
(***************************************************************************)
(* Proofs about ChatRoom, for any connections, workers, descriptors, sizes *)
(* of messages and kinds of them.                                          *)
(***************************************************************************)
EXTENDS ChatRoom, SequenceTheorems, TLAPS

-----------------------------------------------------------------------------
(* The inductive invariant, in four parts. *)

InHand(w) == hpc[w] \in {"login", "quit", "broadcast"}

\* A connection is accepted once, is behind one number at most, and becomes one
\* task, which waits in the queue or is run by one worker; and what is in a
\* worker's hands has been accepted.
Accepted(c) ==
    /\ c \in accepted <=> link[c] # "none"
    /\ c \in accepted <=> cfdOf[c] # None
    /\ c \notin accepted => sent[c] = <<>> /\ got[c] = 0
    /\ \A f \in Fds : table[f] = c => cfdOf[c] = f

WorkerOK(w) ==
    /\ hpc[w] = "idle" <=> hconn[w] = None
    /\ Busy(w) => hconn[w] \in accepted
    /\ hpc[w] = "wait" => hsock[w] \in accepted
    /\ InHand(w) => hmsg[w] # None

QueueOK ==
    /\ \A i \in 1..Len(queue) : queue[i] \in accepted
    /\ \A i, j \in 1..Len(queue) : queue[i] = queue[j] => i = j
    /\ \A w \in Workers : \A i \in 1..Len(queue) : hconn[w] # queue[i]
    /\ \A v, w \in Workers : Busy(v) /\ hconn[v] = hconn[w] => v = w

ChatTypes ==
    /\ TypeOK
    /\ \A c \in Conns : Accepted(c)
    /\ \A w \in Workers : WorkerOK(w)
    /\ QueueOK

\* A message that is in somebody's hands, or in somebody's inbox, has been sent
\* and its first word has been received, from where it is never read again; so
\* no two workers have one message, and nobody has what is in an inbox.
Begun(s, m) == m \in 1..Len(sent[s]) /\ MsgWords * (m - 1) < got[s]

Handled(w) ==
    InHand(w) =>
        /\ Begun(hmsg[w][1], hmsg[w][2])
        /\ \A v \in Workers : InHand(v) /\ hmsg[v] = hmsg[w] => v = w

Heard(c, s) ==
    /\ \A i \in 1..Len(inbox[c][s]) :
          /\ Begun(s, inbox[c][s][i])
          /\ \A w \in Workers : InHand(w) => hmsg[w] # <<s, inbox[c][s][i]>>
    /\ \A i, j \in 1..Len(inbox[c][s]) : inbox[c][s][i] = inbox[c][s][j] => i = j

MessageInv ==
    /\ \A w \in Workers : Handled(w)
    /\ \A c, s \in Conns : Heard(c, s)

\* A connection logs in with its first message and with no other.  Its number
\* is closed only when it is in the list, and so only after that message has
\* been read: until then nobody else can get the number, and the handler that
\* has read it, of whichever connection it was, appends a number that is open.
FirstIsLogin(c) ==
    \A i \in 1..Len(sent[c]) : sent[c][i] = "LOGIN" <=> i = 1

Numbered(c) == c \in accepted /\ got[c] = 0 => table[cfdOf[c]] = c

LogsIn(w) ==
    /\ hpc[w] = "wait" => Cfd(w) = cfdOf[hsock[w]]
    /\ hpc[w] = "login" =>
          /\ hmsg[w][2] = 1
          /\ table[Cfd(w)] = hmsg[w][1]
          /\ \A i \in Entries : clients[i] # Cfd(w)

ListInv ==
    /\ \A c \in Conns : FirstIsLogin(c) /\ Numbered(c)
    /\ \A w \in Workers : LogsIn(w)
    /\ \A i \in Entries : table[clients[i]] # None /\ got[table[clients[i]]] # 0
    /\ \A i, j \in Entries : clients[i] = clients[j] => i = j

\* As long as nobody quits, a number stays with its connection while there is a
\* task for it, so that one handler reads the messages of a connection, one
\* after another.
Own(w) ==
    /\ Busy(w) => Behind(w) = hconn[w] /\ hpc[w] # "quit"
    /\ hpc[w] = "wait" => hsock[w] = hconn[w]
    /\ InHand(w) => hmsg[w][1] = hconn[w]

InOrder(c, s) ==
    /\ \A i, j \in 1..Len(inbox[c][s]) : i < j => inbox[c][s][i] < inbox[c][s][j]
    /\ \A w \in Workers : InHand(w) /\ hmsg[w][1] = s =>
          \A i \in 1..Len(inbox[c][s]) : inbox[c][s][i] < hmsg[w][2]

OwnInv ==
    NobodyQuits =>
        /\ \A i \in 1..Len(queue) : table[cfdOf[queue[i]]] = queue[i]
        /\ \A w \in Workers : Own(w)
        /\ \A c, s \in Conns : InOrder(c, s)

-----------------------------------------------------------------------------
(* Words and messages, and the list without one of its entries. *)

LEMMA WordsOfMessages ==
    ASSUME NEW g \in Nat
    PROVE  /\ g \div MsgWords \in Nat
           /\ g % MsgWords = 0 => g = MsgWords * (g \div MsgWords)
<1>1. MsgWords \in Nat /\ MsgWords > 0
  BY ChatAssumption
<1>2. ASSUME NEW b \in Nat, b > 0 PROVE g \div b \in Nat
  BY <1>2
<1>3. ASSUME NEW b \in Nat, b > 0, g % b = 0 PROVE g = b * (g \div b)
  BY <1>3
<1> QED
  BY <1>1, <1>2, <1>3

LEMMA MoreMessages ==
    ASSUME NEW m \in Nat, NEW n \in Nat
    PROVE  /\ MsgWords * m \in Nat
           /\ m <= n => MsgWords * m <= MsgWords * n
           /\ MsgWords * m < MsgWords * n => m < n
<1>1. MsgWords \in Nat /\ MsgWords > 0
  BY ChatAssumption
<1>2. ASSUME NEW b \in Nat, b > 0, NEW k \in Nat, NEW l \in Nat, l <= k
      PROVE  b * l <= b * k
  <2>1. b * (k - l) \in Nat /\ b * (k - l) = b * k - b * l
    <3>1. k - l \in Nat
      BY <1>2
    <3>2. ASSUME NEW x \in Nat PROVE b * x \in Nat
      BY <3>2
    <3>3. b * (k - l) = b * k - b * l
      OBVIOUS
    <3> QED
      BY <3>1, <3>2, <3>3
  <2>2. b * k \in Nat /\ b * l \in Nat
    BY <1>2
  <2> QED
    BY <2>1, <2>2
<1>3. ASSUME NEW b \in Nat, b > 0, NEW k \in Nat, NEW l \in Nat, b * l < b * k
      PROVE  l < k
  <2>1. CASE k <= l
    BY <1>2, <1>3, <2>1
  <2> QED
    BY <2>1
<1>4. MsgWords * m \in Nat
  BY <1>1
<1> QED
  BY <1>1, <1>2, <1>3, <1>4

LEMMA Erased ==
    ASSUME NEW S, NEW s \in Seq(S), NEW k \in 1..Len(s)
    PROVE  LET t == SubSeq(s, 1, k - 1) \o SubSeq(s, k + 1, Len(s))
           IN  /\ t \in Seq(S) /\ Len(t) = Len(s) - 1
               /\ \A i \in 1..Len(t) : t[i] = IF i < k THEN s[i] ELSE s[i + 1]
<1> DEFINE a == SubSeq(s, 1, k - 1)
           b == SubSeq(s, k + 1, Len(s))
<1>1. /\ a \in Seq(S) /\ Len(a) = k - 1
      /\ \A i \in 1..Len(a) : a[i] = s[i]
  OBVIOUS
<1>2. /\ b \in Seq(S) /\ Len(b) = Len(s) - k
      /\ \A i \in 1..Len(b) : b[i] = s[k + i]
  OBVIOUS
<1> HIDE DEF a, b
<1>3. /\ a \o b \in Seq(S) /\ Len(a \o b) = Len(s) - 1
      /\ \A i \in 1..Len(a \o b) :
            (a \o b)[i] = IF i <= Len(a) THEN a[i] ELSE b[i - Len(a)]
  <2>1. /\ a \o b \in Seq(S) /\ Len(a \o b) = Len(a) + Len(b)
        /\ \A i \in 1..Len(a) + Len(b) :
              (a \o b)[i] = IF i <= Len(a) THEN a[i] ELSE b[i - Len(a)]
    BY <1>1, <1>2, ConcatProperties
  <2>2. Len(a) + Len(b) = Len(s) - 1
    BY <1>1, <1>2
  <2> QED
    BY <2>1, <2>2
<1>4. ASSUME NEW i \in 1..Len(a \o b)
      PROVE  (a \o b)[i] = IF i < k THEN s[i] ELSE s[i + 1]
  <2>1. CASE i < k
    BY <1>1, <1>3, <2>1
  <2>2. CASE ~ (i < k)
    <3>1. i - Len(a) \in 1..Len(b) /\ k + (i - Len(a)) = i + 1
      BY <1>1, <1>2, <1>3, <2>2
    <3> QED
      BY <1>1, <1>2, <1>3, <2>2, <3>1
  <2> QED
    BY <2>1, <2>2
<1> QED
  BY <1>3, <1>4 DEF a, b

\* What CloseAndErase does to a list that has no number twice.
LEMMA ClosedAndErased ==
    ASSUME clients \in Seq(Fds), NEW f \in Fds, CloseAndErase(f)
    PROVE  /\ clients' \in Seq(Fds)
           /\ \/ /\ \A i \in Entries : clients[i] # f
                 /\ UNCHANGED <<table, clients>>
              \/ /\ \E i \in Entries : clients[i] = f
                 /\ table' = [table EXCEPT ![f] = None]
           /\ (\A i, j \in Entries : clients[i] = clients[j] => i = j) =>
                 /\ \A i \in 1..Len(clients') :
                       clients'[i] # f /\ \E j \in Entries : clients'[i] = clients[j]
                 /\ \A i, j \in 1..Len(clients') : clients'[i] = clients'[j] => i = j
<1>1. CASE (\A i \in Entries : clients[i] # f) /\ UNCHANGED <<table, clients>>
  BY <1>1 DEF Entries
<1>2. ASSUME NEW k \in Entries, clients[k] = f,
             clients' = SubSeq(clients, 1, k - 1) \o SubSeq(clients, k + 1, Len(clients)),
             table' = [table EXCEPT ![f] = None]
      PROVE  /\ clients' \in Seq(Fds)
             /\ (\A i, j \in Entries : clients[i] = clients[j] => i = j) =>
                   /\ \A i \in 1..Len(clients') :
                         clients'[i] # f /\ \E j \in Entries : clients'[i] = clients[j]
                   /\ \A i, j \in 1..Len(clients') : clients'[i] = clients'[j] => i = j
  <2>1. /\ clients' \in Seq(Fds) /\ Len(clients') = Len(clients) - 1
        /\ \A i \in 1..Len(clients') :
              clients'[i] = IF i < k THEN clients[i] ELSE clients[i + 1]
    BY <1>2, Erased DEF Entries
  <2>2. Len(clients) \in Nat /\ k \in 1..Len(clients)
    BY <1>2 DEF Entries
  <2>3. ASSUME \A i, j \in Entries : clients[i] = clients[j] => i = j,
               NEW i \in 1..Len(clients')
        PROVE  clients'[i] # f /\ \E j \in Entries : clients'[i] = clients[j]
    <3>1. PICK j \in Entries : j # k /\ clients'[i] = clients[j]
      <4>1. CASE i < k
        BY <2>1, <2>2, <2>3, <4>1 DEF Entries
      <4>2. CASE ~ (i < k)
        <5>1. i + 1 \in Entries /\ i + 1 # k /\ clients'[i] = clients[i + 1]
          BY <2>1, <2>2, <2>3, <4>2 DEF Entries
        <5> QED
          BY <5>1
      <4> QED
        BY <4>1, <4>2
    <3> QED
      BY <1>2, <2>3, <3>1
  <2>4. ASSUME \A i, j \in Entries : clients[i] = clients[j] => i = j,
               NEW i \in 1..Len(clients'), NEW j \in 1..Len(clients'),
               clients'[i] = clients'[j]
        PROVE  i = j
    BY <2>1, <2>2, <2>4 DEF Entries
  <2> QED
    BY <2>1, <2>3, <2>4
<1> QED
  BY <1>1, <1>2 DEF CloseAndErase, Entries

-----------------------------------------------------------------------------
(* Types, and who has what. *)

LEMMA ChatTypesInit == Init => ChatTypes
<1> SUFFICES ASSUME Init PROVE ChatTypes
  OBVIOUS
<1>1. TypeOK
  <2>1. \A c \in Conns : got[c] = 0 /\ Len(sent[c]) = 0 /\ MsgWords * Len(sent[c]) \in Nat
    BY ChatAssumption DEF Init
  <2> QED
    BY <2>1 DEF Init, TypeOK, Place
<1>2. \A c \in Conns : Accepted(c)
  BY ChatAssumption DEF Init, Accepted
<1>3. \A w \in Workers : WorkerOK(w)
  BY DEF Init, WorkerOK, Busy, InHand
<1>4. QueueOK
  BY DEF Init, QueueOK, Busy
<1> QED
  BY <1>1, <1>2, <1>3, <1>4 DEF ChatTypes

LEMMA ClientsKeepTypes ==
    ASSUME ChatTypes, \E c \in Conns : ClientSend(c) \/ ClientLeaves(c)
    PROVE  ChatTypes'
<1>1. ASSUME NEW c \in Conns, ClientSend(c) PROVE ChatTypes'
  <2>1. PICK kind \in Kinds \cup {"LOGIN"} : sent' = [sent EXCEPT ![c] = Append(@, kind)]
    BY <1>1 DEF ClientSend
  <2>2. /\ link[c] = "open"
        /\ UNCHANGED <<link, inbox, up, got, accepted, table, cfdOf, queue, hconn,
                       hpc, hsock, hmsg, clients>>
    BY <1>1 DEF ClientSend, pool
  <2>3. sent[c] \in Seq(Kinds \cup {"LOGIN"}) /\ got[c] \in Nat
        /\ got[c] <= MsgWords * Len(sent[c]) /\ Len(sent[c]) \in Nat
    BY DEF ChatTypes, TypeOK
  <2>4. /\ sent' \in [Conns -> Seq(Kinds \cup {"LOGIN"})]
        /\ Len(sent'[c]) = Len(sent[c]) + 1
        /\ \A d \in Conns : d # c => sent'[d] = sent[d]
    <3>1. /\ Append(sent[c], kind) \in Seq(Kinds \cup {"LOGIN"})
          /\ Len(Append(sent[c], kind)) = Len(sent[c]) + 1
      BY <2>1, <2>3
    <3>2. sent \in [Conns -> Seq(Kinds \cup {"LOGIN"})]
      BY DEF ChatTypes, TypeOK
    <3> QED
      BY <2>1, <3>1, <3>2
  <2>5. got[c] <= MsgWords * Len(sent'[c])
    <3>1. /\ MsgWords * Len(sent[c]) <= MsgWords * (Len(sent[c]) + 1)
          /\ MsgWords * Len(sent[c]) \in Nat /\ MsgWords * (Len(sent[c]) + 1) \in Nat
      BY <2>3, MoreMessages
    <3> QED
      BY <2>3, <2>4, <3>1
  <2>6. TypeOK'
    BY <2>2, <2>4, <2>5 DEF ChatTypes, TypeOK
  <2>7. \A d \in Conns : Accepted(d)'
    BY <2>2, <2>4 DEF ChatTypes, Accepted
  <2>8. (\A w \in Workers : WorkerOK(w)') /\ QueueOK'
    BY <2>2 DEF ChatTypes, WorkerOK, QueueOK, Busy, InHand
  <2> QED
    BY <2>6, <2>7, <2>8 DEF ChatTypes
<1>2. ASSUME NEW c \in Conns, ClientLeaves(c) PROVE ChatTypes'
  <2>1. /\ link[c] = "open" /\ link' = [link EXCEPT ![c] = "gone"]
        /\ UNCHANGED <<sent, inbox, up, got, accepted, table, cfdOf, queue, hconn,
                       hpc, hsock, hmsg, clients>>
    BY <1>2 DEF ClientLeaves, pool
  <2>2. TypeOK'
    BY <2>1 DEF ChatTypes, TypeOK
  <2>3. \A d \in Conns : Accepted(d)'
    BY <2>1 DEF ChatTypes, Accepted, TypeOK
  <2>4. (\A w \in Workers : WorkerOK(w)') /\ QueueOK'
    BY <2>1 DEF ChatTypes, WorkerOK, QueueOK, Busy, InHand
  <2> QED
    BY <2>2, <2>3, <2>4 DEF ChatTypes
<1> QED
  BY <1>1, <1>2

LEMMA AcceptKeepsTypes ==
    ASSUME ChatTypes, NEW c \in Conns, Accept(c)
    PROVE  ChatTypes'
<1>1. PICK f \in FreeFds : /\ table' = [table EXCEPT ![f] = c]
                           /\ cfdOf' = [cfdOf EXCEPT ![c] = f]
  BY DEF Accept
<1>2. /\ link[c] = "none" /\ link' = [link EXCEPT ![c] = "open"]
      /\ accepted' = accepted \cup {c} /\ queue' = Append(queue, c)
      /\ UNCHANGED <<sent, inbox, up, got, hconn, hpc, hsock, hmsg, clients>>
  BY DEF Accept
<1>3. /\ f \in Fds /\ table[f] = None
      /\ c \notin accepted /\ c # None /\ f # None /\ None \notin Conns \cup Fds
  BY <1>2, ChatAssumption DEF FreeFds, ChatTypes, Accepted
<1>4. TypeOK'
  BY <1>1, <1>2, <1>3 DEF ChatTypes, TypeOK
<1>5. ASSUME NEW d \in Conns PROVE Accepted(d)'
  <2>1. Accepted(d) /\ Accepted(c)
    BY DEF ChatTypes
  <2>2. /\ table \in [Fds -> Conns \cup {None}] /\ cfdOf \in [Conns -> Fds \cup {None}]
        /\ link \in [Conns -> {"none", "open", "gone", "broken"}]
    BY DEF ChatTypes, TypeOK
  <2>3. CASE d = c
    BY <1>1, <1>2, <1>3, <2>1, <2>2, <2>3 DEF Accepted
  <2>4. CASE d # c
    BY <1>1, <1>2, <1>3, <2>1, <2>2, <2>4 DEF Accepted
  <2> QED
    BY <2>3, <2>4
<1>6. \A w \in Workers : WorkerOK(w)'
  BY <1>2 DEF ChatTypes, WorkerOK, Busy, InHand
<1>7. QueueOK'
  <2>1. /\ Len(queue') = Len(queue) + 1 /\ queue'[Len(queue) + 1] = c
        /\ \A i \in 1..Len(queue) : queue'[i] = queue[i]
        /\ Len(queue) \in Nat
    BY <1>2 DEF ChatTypes, TypeOK
  <2>2. /\ \A i \in 1..Len(queue) : queue[i] # c
        /\ \A w \in Workers : hconn[w] # c
    BY <1>3 DEF ChatTypes, QueueOK, WorkerOK, Busy
  <2>3. QueueOK
    BY DEF ChatTypes
  <2>4. \A i \in 1..Len(queue') : i \in 1..Len(queue) \/ i = Len(queue) + 1
    BY <2>1
  <2> QED
    BY <1>2, <2>1, <2>2, <2>3, <2>4 DEF QueueOK, Busy
<1> QED
  BY <1>4, <1>5, <1>6, <1>7 DEF ChatTypes

LEMMA StartKeepsTypes ==
    ASSUME ChatTypes, NEW w \in Workers, Start(w)
    PROVE  ChatTypes'
<1>1. /\ hpc[w] = "idle" /\ hpc' = [hpc EXCEPT ![w] = "recv"]
      /\ queue # <<>> /\ queue' = Tail(queue)
      /\ hconn' = [hconn EXCEPT ![w] = Head(queue)]
      /\ UNCHANGED <<link, sent, inbox, up, got, accepted, table, cfdOf, hsock, hmsg,
                     clients>>
  BY DEF Start, peers
<1>2. /\ Len(queue) \in Nat \ {0} /\ Head(queue) = queue[1]
      /\ queue' \in Seq(Conns) /\ Len(queue') = Len(queue) - 1
      /\ \A i \in 1..Len(queue') : queue'[i] = queue[i + 1]
      /\ queue[1] \in Conns
  BY <1>1 DEF ChatTypes, TypeOK
<1>3. TypeOK'
  BY <1>1, <1>2 DEF ChatTypes, TypeOK, Place
<1>4. \A d \in Conns : Accepted(d)'
  BY <1>1 DEF ChatTypes, Accepted
<1>5. 1 \in 1..Len(queue) /\ queue[1] \in accepted /\ queue[1] # None
      /\ hconn \in [Workers -> Conns \cup {None}] /\ hpc \in [Workers -> Place]
  <2>1. 1 \in 1..Len(queue)
    BY <1>2
  <2>2. queue[1] \in accepted
    BY <2>1 DEF ChatTypes, QueueOK
  <2> QED
    BY <1>2, <2>1, <2>2, ChatAssumption DEF ChatTypes, TypeOK
<1>6. \A v \in Workers : WorkerOK(v)'
  BY <1>1, <1>2, <1>5 DEF ChatTypes, WorkerOK, Busy, InHand
<1>7. QueueOK'
  <2>1. \A i \in 1..Len(queue') : i + 1 \in 1..Len(queue) /\ i + 1 # 1
    BY <1>2
  <2>2. QueueOK
    BY DEF ChatTypes
  <2>3. /\ \A i \in 1..Len(queue') : queue'[i] \in accepted /\ queue'[i] # queue[1]
        /\ \A i, j \in 1..Len(queue') : queue'[i] = queue'[j] => i = j
    <3>1. \A i \in 1..Len(queue') : queue'[i] \in accepted /\ queue'[i] # queue[1]
      BY <1>2, <1>5, <2>1, <2>2 DEF QueueOK
    <3>2. ASSUME NEW i \in 1..Len(queue'), NEW j \in 1..Len(queue'), queue'[i] = queue'[j]
          PROVE  i = j
      <4>1. queue[i + 1] = queue[j + 1]
        BY <1>2, <3>2
      <4>2. i + 1 = j + 1
        BY <2>1, <2>2, <4>1 DEF QueueOK
      <4> QED
        BY <4>2
    <3> QED
      BY <3>1, <3>2
  <2>4. \A v \in Workers : \A i \in 1..Len(queue') : hconn'[v] # queue'[i]
    BY <1>1, <1>2, <1>5, <2>1, <2>2, <2>3 DEF QueueOK
  <2>5. ASSUME NEW u \in Workers, NEW v \in Workers, hpc'[u] # "idle", hconn'[u] = hconn'[v]
        PROVE  u = v
    <3>1. \A x \in Workers : hconn[x] # queue[1]
      BY <1>5, <2>2 DEF QueueOK
    <3> QED
      BY <1>1, <1>2, <1>5, <2>2, <2>5, <3>1 DEF QueueOK, Busy
  <2> QED
    BY <1>1, <2>3, <2>4, <2>5 DEF QueueOK, Busy
<1> QED
  BY <1>3, <1>4, <1>6, <1>7 DEF ChatTypes

LEMMA PlacesKeepQueue ==
    ASSUME QueueOK, UNCHANGED <<accepted, queue, hconn>>,
           \A w \in Workers : hpc'[w] = "idle" <=> hpc[w] = "idle"
    PROVE  QueueOK'
BY DEF QueueOK, Busy

LEMMA CallRecvKeepsTypes ==
    ASSUME ChatTypes, NEW w \in Workers, CallRecv(w)
    PROVE  ChatTypes'
<1>1. /\ hpc[w] = "recv" /\ hsock' = [hsock EXCEPT ![w] = Behind(w)]
      /\ hpc' = [hpc EXCEPT ![w] = IF Behind(w) = None THEN "offline" ELSE "wait"]
      /\ UNCHANGED <<link, sent, inbox, up, got, table, accepted, cfdOf, queue, hconn,
                     hmsg, clients>>
  BY DEF CallRecv, peers, pool
<1>2. /\ hconn[w] \in accepted /\ Cfd(w) \in Fds
      /\ Behind(w) # None => Behind(w) \in accepted
      /\ Behind(w) \in Conns \cup {None}
  <2>1. hconn[w] \in accepted /\ accepted \subseteq Conns
    BY <1>1 DEF ChatTypes, WorkerOK, Busy, TypeOK
  <2>2. Cfd(w) \in Fds
    BY <2>1 DEF ChatTypes, Accepted, TypeOK, Cfd
  <2>3. Behind(w) \in Conns \cup {None}
    BY <2>2 DEF Behind, ChatTypes, TypeOK
  <2>4. Behind(w) # None => Behind(w) \in accepted
    <3>1. SUFFICES ASSUME Behind(w) # None PROVE Behind(w) \in accepted
      OBVIOUS
    <3>2. Behind(w) \in Conns /\ table[Cfd(w)] = Behind(w) /\ Cfd(w) # None
      BY <2>2, <2>3, <3>1, ChatAssumption DEF Behind
    <3>3. Accepted(Behind(w))
      BY <3>2 DEF ChatTypes
    <3> QED
      BY <2>2, <3>2, <3>3 DEF Accepted
  <2> QED
    BY <2>1, <2>2, <2>3, <2>4
<1>3. TypeOK'
  BY <1>1, <1>2 DEF ChatTypes, TypeOK, Place
<1>4. \A d \in Conns : Accepted(d)'
  BY <1>1 DEF ChatTypes, Accepted
<1>5. hpc \in [Workers -> Place] /\ hsock \in [Workers -> Conns \cup {None}]
  BY DEF ChatTypes, TypeOK
<1>6. \A v \in Workers : WorkerOK(v)'
  BY <1>1, <1>2, <1>5 DEF ChatTypes, WorkerOK, Busy, InHand
<1>7. QueueOK'
  BY <1>1, <1>5, PlacesKeepQueue DEF ChatTypes
<1> QED
  BY <1>3, <1>4, <1>6, <1>7 DEF ChatTypes

\* What recv makes of the words that have arrived.
LEMMA RecvWordsOf ==
    ASSUME ChatTypes, NEW w \in Workers, Recv(w)
    PROVE  /\ hpc[w] = "wait" /\ hsock[w] \in accepted /\ hsock[w] \in Conns
           /\ UNCHANGED <<link, sent, inbox, up, table, accepted, cfdOf, queue, hconn,
                          clients>>
           /\ hsock' = [hsock EXCEPT ![w] = None]
           /\ \E n \in Nat \ {0} :
                 /\ got' = [got EXCEPT ![hsock[w]] = @ + n]
                 /\ got[hsock[w]] + n <= MsgWords * Len(sent[hsock[w]])
           /\ \/ \E m \in Nat \ {0} :
                    /\ got[hsock[w]] = MsgWords * (m - 1)
                    /\ m \in 1..Len(sent[hsock[w]])
                    /\ hmsg' = [hmsg EXCEPT ![w] = <<hsock[w], m>>]
                    /\ hpc' = [hpc EXCEPT ![w] = Branch(sent[hsock[w]][m])]
                    /\ Branch(sent[hsock[w]][m]) \in {"login", "quit", "broadcast"}
              \/ hmsg' = hmsg /\ hpc' = [hpc EXCEPT ![w] = "recv"]
<1> DEFINE c == hsock[w]
           m == got[c] \div MsgWords + 1
<1>1. hpc[w] = "wait" /\ c \in accepted /\ c \in Conns
  BY DEF Recv, ChatTypes, WorkerOK, TypeOK
<1>2. /\ got \in [Conns -> Nat] /\ got[c] \in Nat
      /\ sent[c] \in Seq(Kinds \cup {"LOGIN"}) /\ Len(sent[c]) \in Nat
      /\ MsgWords * Len(sent[c]) \in Nat
  BY <1>1, MoreMessages DEF ChatTypes, TypeOK
<1>3. PICK n \in 1..RecvWords : n <= Arrived(c) /\ Take(c, n)
  BY DEF Recv
<1>4. /\ n \in Nat \ {0} /\ got' = [got EXCEPT ![c] = @ + n]
      /\ got[c] + n <= MsgWords * Len(sent[c])
  BY <1>2, <1>3, ChatAssumption DEF Take, Arrived
<1>5. m \in Nat \ {0}
  <2>1. got[c] \div MsgWords \in Nat
    BY <1>2, WordsOfMessages, Zenon
  <2>2. ASSUME NEW k \in Nat PROVE k + 1 \in Nat \ {0}
    BY <2>2
  <2> QED
    BY <2>1, <2>2, Zenon
<1>6. ASSUME got[c] % MsgWords = 0
      PROVE  /\ got[c] = MsgWords * (m - 1)
             /\ m \in 1..Len(sent[c])
             /\ Branch(sent[c][m]) \in {"login", "quit", "broadcast"}
  <2>1. got[c] \div MsgWords \in Nat /\ got[c] = MsgWords * (got[c] \div MsgWords)
    BY <1>2, <1>6, WordsOfMessages
  <2>2. MsgWords * (got[c] \div MsgWords) < MsgWords * Len(sent[c])
    BY <1>2, <1>4, <2>1
  <2>3. got[c] \div MsgWords < Len(sent[c])
    BY <1>2, <2>1, <2>2, MoreMessages
  <2>4. m \in 1..Len(sent[c]) /\ m - 1 = got[c] \div MsgWords
    BY <1>2, <2>1, <2>3
  <2>5. sent[c][m] \in {"LOGIN", "CHAT", "QUIT"}
    <3>1. sent[c][m] \in Kinds \cup {"LOGIN"}
      BY <1>2, <2>4
    <3> QED
      BY <3>1, ChatAssumption
  <2> QED
    BY <2>1, <2>4, <2>5 DEF Branch
<1>7. /\ hsock' = [hsock EXCEPT ![w] = None]
      /\ UNCHANGED <<link, sent, inbox, up, table, accepted, cfdOf, queue, hconn,
                     clients>>
  BY DEF Recv, peers, pool
<1>8. \/ /\ got[c] % MsgWords = 0
         /\ hmsg' = [hmsg EXCEPT ![w] = <<c, m>>]
         /\ hpc' = [hpc EXCEPT ![w] = Branch(sent[c][m])]
      \/ hmsg' = hmsg /\ hpc' = [hpc EXCEPT ![w] = "recv"]
  BY DEF Recv
<1> HIDE DEF m
<1> QED
  BY <1>1, <1>4, <1>5, <1>6, <1>7, <1>8

LEMMA RecvKeepsTypes ==
    ASSUME ChatTypes, NEW w \in Workers, Recv(w)
    PROVE  ChatTypes'
<1> DEFINE c == hsock[w]
<1>1. /\ hpc[w] = "wait" /\ c \in accepted /\ c \in Conns
      /\ UNCHANGED <<link, sent, inbox, up, table, accepted, cfdOf, queue, hconn,
                     clients>>
      /\ hsock' = [hsock EXCEPT ![w] = None]
  BY RecvWordsOf
<1>2. PICK n \in Nat \ {0} : /\ got' = [got EXCEPT ![c] = @ + n]
                             /\ got[c] + n <= MsgWords * Len(sent[c])
  BY RecvWordsOf
<1>3. /\ hmsg' \in [Workers -> Messages \cup {None}]
      /\ \E p \in {"login", "quit", "broadcast", "recv"} :
            /\ hpc' = [hpc EXCEPT ![w] = p]
            /\ p # "recv" => hmsg'[w] # None
            /\ \A v \in Workers : v # w => hmsg'[v] = hmsg[v]
  <2>1. hmsg \in [Workers -> Messages \cup {None}]
    BY DEF ChatTypes, TypeOK
  <2>2. CASE hmsg' = hmsg /\ hpc' = [hpc EXCEPT ![w] = "recv"]
    BY <2>1, <2>2
  <2>3. ASSUME NEW m \in Nat \ {0},
               hmsg' = [hmsg EXCEPT ![w] = <<c, m>>],
               hpc' = [hpc EXCEPT ![w] = Branch(sent[c][m])],
               Branch(sent[c][m]) \in {"login", "quit", "broadcast"}
        PROVE  /\ hmsg' \in [Workers -> Messages \cup {None}]
               /\ \E p \in {"login", "quit", "broadcast", "recv"} :
                     /\ hpc' = [hpc EXCEPT ![w] = p]
                     /\ p # "recv" => hmsg'[w] # None
                     /\ \A v \in Workers : v # w => hmsg'[v] = hmsg[v]
    <3>1. <<c, m>> \in Messages
      BY <1>1 DEF Messages
    <3>2. <<c, m>> # None
      BY <3>1, ChatAssumption DEF Messages
    <3> QED
      BY <2>1, <2>3, <3>1, <3>2
  <2> QED
    BY <2>2, <2>3, RecvWordsOf
<1>4. PICK p \in {"login", "quit", "broadcast", "recv"} :
          /\ hpc' = [hpc EXCEPT ![w] = p]
          /\ p # "recv" => hmsg'[w] # None
          /\ \A v \in Workers : v # w => hmsg'[v] = hmsg[v]
  BY <1>3
<1>5. TypeOK'
  <2>1. got' \in [Conns -> Nat] /\ \A d \in Conns : got'[d] <= MsgWords * Len(sent[d])
    BY <1>1, <1>2 DEF ChatTypes, TypeOK
  <2> QED
    BY <1>1, <1>3, <1>4, <2>1 DEF ChatTypes, TypeOK, Place
<1>6. \A d \in Conns : Accepted(d)'
  BY <1>1, <1>2 DEF ChatTypes, Accepted, TypeOK
<1>7. hpc \in [Workers -> Place] /\ hsock \in [Workers -> Conns \cup {None}]
  BY DEF ChatTypes, TypeOK
<1>8. \A v \in Workers : WorkerOK(v)'
  BY <1>1, <1>4, <1>7 DEF ChatTypes, WorkerOK, Busy, InHand
<1>9. QueueOK'
  BY <1>1, <1>4, <1>7, PlacesKeepQueue DEF ChatTypes
<1> QED
  BY <1>5, <1>6, <1>8, <1>9 DEF ChatTypes

LEMMA CfdIsNumber ==
    ASSUME ChatTypes, NEW w \in Workers, Busy(w)
    PROVE  Cfd(w) \in Fds /\ hconn[w] \in accepted /\ hconn[w] \in Conns
           /\ Cfd(w) = cfdOf[hconn[w]]
<1>1. hconn[w] \in accepted /\ hconn[w] \in Conns
  BY DEF ChatTypes, WorkerOK, TypeOK
<1> QED
  BY <1>1 DEF ChatTypes, Accepted, TypeOK, Cfd

LEMMA RecvNothingKeepsTypes ==
    ASSUME ChatTypes, NEW w \in Workers, RecvNothing(w)
    PROVE  ChatTypes'
<1>1. /\ hpc[w] = "wait" /\ hpc' = [hpc EXCEPT ![w] = "offline"]
      /\ hsock' = [hsock EXCEPT ![w] = None]
      /\ UNCHANGED <<sent, inbox, up, got, table, accepted, cfdOf, queue, hconn, hmsg,
                     clients>>
  BY DEF RecvNothing, pool
<1>2. hsock[w] \in accepted /\ hsock[w] \in Conns
  BY <1>1 DEF ChatTypes, WorkerOK, TypeOK
<1>3. link' = link \/ link' = [link EXCEPT ![hsock[w]] = "broken"]
  BY DEF RecvNothing
<1>4. TypeOK'
  BY <1>1, <1>3 DEF ChatTypes, TypeOK, Place
<1>5. \A d \in Conns : Accepted(d)'
  BY <1>1, <1>2, <1>3 DEF ChatTypes, Accepted, TypeOK
<1>6. hpc \in [Workers -> Place] /\ hsock \in [Workers -> Conns \cup {None}]
  BY DEF ChatTypes, TypeOK
<1>7. \A v \in Workers : WorkerOK(v)'
  BY <1>1, <1>6 DEF ChatTypes, WorkerOK, Busy, InHand
<1>8. QueueOK'
  BY <1>1, <1>6, PlacesKeepQueue DEF ChatTypes
<1> QED
  BY <1>4, <1>5, <1>7, <1>8 DEF ChatTypes

LEMMA CloseKeepsTypes ==
    ASSUME ChatTypes, NEW f \in Fds, CloseAndErase(f), UNCHANGED <<link, accepted, sent, got, cfdOf>>
    PROVE  /\ clients' \in Seq(Fds)
           /\ table' \in [Fds -> Conns \cup {None}]
           /\ \A d \in Conns : Accepted(d)'
<1>1. clients \in Seq(Fds) /\ table \in [Fds -> Conns \cup {None}]
  BY DEF ChatTypes, TypeOK
<1>2. clients' \in Seq(Fds) /\ (table' = table \/ table' = [table EXCEPT ![f] = None])
  BY <1>1, ClosedAndErased
<1>3. \A g \in Fds : table'[g] = table[g] \/ table'[g] = None
  BY <1>1, <1>2
<1> QED
  BY <1>1, <1>2, <1>3, ChatAssumption DEF ChatTypes, Accepted

LEMMA OfflineKeepsTypes ==
    ASSUME ChatTypes, NEW w \in Workers, Offline(w)
    PROVE  ChatTypes'
<1>1. /\ hpc[w] = "offline" /\ hpc' = [hpc EXCEPT ![w] = "idle"]
      /\ hconn' = [hconn EXCEPT ![w] = None]
      /\ UNCHANGED <<link, sent, inbox, up, got, accepted, cfdOf, queue, hsock, hmsg>>
  BY DEF Offline, peers
<1>2. Cfd(w) \in Fds /\ CloseAndErase(Cfd(w))
  BY <1>1, CfdIsNumber DEF Offline, Busy
<1>3. /\ clients' \in Seq(Fds) /\ table' \in [Fds -> Conns \cup {None}]
      /\ \A d \in Conns : Accepted(d)'
  BY <1>1, <1>2, CloseKeepsTypes
<1>4. TypeOK'
  BY <1>1, <1>3 DEF ChatTypes, TypeOK, Place
<1>5. hpc \in [Workers -> Place] /\ hconn \in [Workers -> Conns \cup {None}]
      /\ queue \in Seq(Conns) /\ None \notin Conns
  BY ChatAssumption DEF ChatTypes, TypeOK
<1>6. \A v \in Workers : WorkerOK(v)'
  BY <1>1, <1>5 DEF ChatTypes, WorkerOK, Busy, InHand
<1>7. QueueOK'
  BY <1>1, <1>5 DEF ChatTypes, QueueOK, Busy, WorkerOK
<1> QED
  BY <1>3, <1>4, <1>6, <1>7 DEF ChatTypes

LEMMA LoginKeepsTypes ==
    ASSUME ChatTypes, NEW w \in Workers, Login(w)
    PROVE  ChatTypes'
<1>1. /\ hpc[w] = "login" /\ hpc' = [hpc EXCEPT ![w] = "broadcast"]
      /\ clients' = Append(clients, Cfd(w))
      /\ UNCHANGED <<link, sent, inbox, up, got, table, accepted, cfdOf, queue, hconn,
                     hsock, hmsg>>
  BY DEF Login, peers, pool
<1>2. clients' \in Seq(Fds)
  BY <1>1, CfdIsNumber DEF ChatTypes, TypeOK, Busy
<1>3. TypeOK'
  BY <1>1, <1>2 DEF ChatTypes, TypeOK, Place
<1>4. \A d \in Conns : Accepted(d)'
  BY <1>1 DEF ChatTypes, Accepted
<1>5. hpc \in [Workers -> Place]
  BY DEF ChatTypes, TypeOK
<1>6. \A v \in Workers : WorkerOK(v)'
  BY <1>1, <1>5 DEF ChatTypes, WorkerOK, Busy, InHand
<1>7. QueueOK'
  BY <1>1, <1>5, PlacesKeepQueue DEF ChatTypes
<1> QED
  BY <1>3, <1>4, <1>6, <1>7 DEF ChatTypes

LEMMA QuitKeepsTypes ==
    ASSUME ChatTypes, NEW w \in Workers, Quit(w)
    PROVE  ChatTypes'
<1>1. /\ hpc[w] = "quit" /\ hpc' = [hpc EXCEPT ![w] = "broadcast"]
      /\ UNCHANGED <<link, sent, inbox, up, got, accepted, cfdOf, queue, hconn, hsock,
                     hmsg>>
  BY DEF Quit, peers, pool
<1>2. Cfd(w) \in Fds /\ CloseAndErase(Cfd(w))
  BY <1>1, CfdIsNumber DEF Quit, Busy
<1>3. /\ clients' \in Seq(Fds) /\ table' \in [Fds -> Conns \cup {None}]
      /\ \A d \in Conns : Accepted(d)'
  BY <1>1, <1>2, CloseKeepsTypes
<1>4. TypeOK'
  BY <1>1, <1>3 DEF ChatTypes, TypeOK, Place
<1>5. hpc \in [Workers -> Place]
  BY DEF ChatTypes, TypeOK
<1>6. \A v \in Workers : WorkerOK(v)'
  BY <1>1, <1>5 DEF ChatTypes, WorkerOK, Busy, InHand
<1>7. QueueOK'
  BY <1>1, <1>5, PlacesKeepQueue DEF ChatTypes
<1> QED
  BY <1>3, <1>4, <1>6, <1>7 DEF ChatTypes

\* What a broadcast does, to the inboxes and to the connections it meets.
LEMMA BroadcastEffect ==
    ASSUME ChatTypes, NEW w \in Workers, Broadcast(w)
    PROVE  /\ hpc[w] = "broadcast" /\ hpc' = [hpc EXCEPT ![w] = "recv"]
           /\ hmsg' = [hmsg EXCEPT ![w] = None]
           /\ UNCHANGED <<sent, got, table, accepted, cfdOf, queue, hconn, hsock, clients>>
           /\ up' \in BOOLEAN
           /\ hmsg[w] \in Messages
           /\ \E reached \in SUBSET Conns :
                 inbox' = [c \in Conns |->
                             IF c \in reached
                             THEN [inbox[c] EXCEPT ![hmsg[w][1]] = Append(@, hmsg[w][2])]
                             ELSE inbox[c]]
           /\ \E broken \in SUBSET accepted :
                 link' = [c \in Conns |-> IF c \in broken THEN "broken" ELSE link[c]]
<1>1. /\ hpc[w] = "broadcast" /\ hpc' = [hpc EXCEPT ![w] = "recv"]
      /\ hmsg' = [hmsg EXCEPT ![w] = None]
      /\ UNCHANGED <<sent, got, table, accepted, cfdOf, queue, hconn, hsock, clients>>
  BY DEF Broadcast, pool
<1>2. hmsg[w] \in Messages
  BY <1>1 DEF ChatTypes, WorkerOK, InHand, TypeOK
<1>3. PICK k \in 1..(Len(clients) + 1) :
          LET reached == {Listed(i) : i \in 1..(k - 1)}
              failed == {Listed(i) : i \in {k} \cap 1..Len(clients)}
          IN  /\ inbox' = [c \in Conns |->
                    IF c \in reached /\ link[c] = "open"
                    THEN [inbox[c] EXCEPT ![hmsg[w][1]] = Append(@, hmsg[w][2])]
                    ELSE inbox[c]]
              /\ \E reset \in SUBSET {c \in reached : link[c] = "gone"} :
                    link' = [c \in Conns |-> IF c \in reset \cup failed
                                             THEN "broken" ELSE link[c]]
              /\ up' = ~ (k <= Len(clients) /\ SendKills(k))
  BY DEF Broadcast
<1>4. up' \in BOOLEAN
  BY <1>3
<1>5. \E reached \in SUBSET Conns :
         inbox' = [c \in Conns |->
                     IF c \in reached
                     THEN [inbox[c] EXCEPT ![hmsg[w][1]] = Append(@, hmsg[w][2])]
                     ELSE inbox[c]]
  <2> DEFINE met == {c \in Conns : c \in {Listed(i) : i \in 1..(k - 1)} /\ link[c] = "open"}
  <2>1. inbox' = [c \in Conns |->
                     IF c \in met
                     THEN [inbox[c] EXCEPT ![hmsg[w][1]] = Append(@, hmsg[w][2])]
                     ELSE inbox[c]]
    BY <1>3
  <2> QED
    BY <2>1
<1>6. \A i \in 1..Len(clients) : \A c \in Conns : Listed(i) = c => c \in accepted
  <2>1. ASSUME NEW i \in 1..Len(clients), NEW c \in Conns, Listed(i) = c
        PROVE  c \in accepted
    <3>1. clients[i] \in Fds /\ clients[i] # None /\ table[clients[i]] = c
      BY <2>1, ChatAssumption DEF Listed, ChatTypes, TypeOK
    <3> QED
      BY <3>1 DEF ChatTypes, Accepted
  <2> QED
    BY <2>1
<1>7. \E broken \in SUBSET accepted :
         link' = [c \in Conns |-> IF c \in broken THEN "broken" ELSE link[c]]
  <2>1. PICK reset \in SUBSET {c \in {Listed(i) : i \in 1..(k - 1)} : link[c] = "gone"} :
            link' = [c \in Conns |->
                       IF c \in reset \cup {Listed(i) : i \in {k} \cap 1..Len(clients)}
                       THEN "broken" ELSE link[c]]
    BY <1>3
  <2> DEFINE broken == {c \in accepted :
                  c \in reset \cup {Listed(i) : i \in {k} \cap 1..Len(clients)}}
  <2>2. \A c \in Conns :
           c \in reset \cup {Listed(i) : i \in {k} \cap 1..Len(clients)} => c \in accepted
    <3>1. \A c \in reset : \E i \in 1..Len(clients) : c = Listed(i)
      BY <2>1 DEF ChatTypes, TypeOK
    <3> QED
      BY <1>6, <3>1
  <2>3. link' = [c \in Conns |-> IF c \in broken THEN "broken" ELSE link[c]]
    BY <2>1, <2>2
  <2> QED
    BY <2>3
<1> QED
  BY <1>1, <1>2, <1>4, <1>5, <1>7

LEMMA BroadcastKeepsTypes ==
    ASSUME ChatTypes, NEW w \in Workers, Broadcast(w)
    PROVE  ChatTypes'
<1>1. /\ hpc[w] = "broadcast" /\ hpc' = [hpc EXCEPT ![w] = "recv"]
      /\ hmsg' = [hmsg EXCEPT ![w] = None]
      /\ UNCHANGED <<sent, got, table, accepted, cfdOf, queue, hconn, hsock, clients>>
      /\ up' \in BOOLEAN /\ hmsg[w] \in Messages
  BY BroadcastEffect
<1>2. inbox' \in [Conns -> [Conns -> Seq(Nat \ {0})]]
  <2>1. PICK reached \in SUBSET Conns :
            inbox' = [c \in Conns |->
                        IF c \in reached
                        THEN [inbox[c] EXCEPT ![hmsg[w][1]] = Append(@, hmsg[w][2])]
                        ELSE inbox[c]]
    BY BroadcastEffect
  <2>2. hmsg[w][1] \in Conns /\ hmsg[w][2] \in Nat \ {0}
    BY <1>1 DEF Messages
  <2>3. ASSUME NEW c \in Conns
        PROVE  [inbox[c] EXCEPT ![hmsg[w][1]] = Append(@, hmsg[w][2])]
                   \in [Conns -> Seq(Nat \ {0})]
    <3>1. inbox[c] \in [Conns -> Seq(Nat \ {0})]
      BY DEF ChatTypes, TypeOK
    <3>2. Append(inbox[c][hmsg[w][1]], hmsg[w][2]) \in Seq(Nat \ {0})
      BY <2>2, <3>1
    <3> QED
      BY <2>2, <3>1, <3>2
  <2>4. \A c \in Conns : inbox[c] \in [Conns -> Seq(Nat \ {0})]
    BY DEF ChatTypes, TypeOK
  <2> QED
    BY <2>1, <2>3, <2>4
<1>3. PICK broken \in SUBSET accepted :
          link' = [c \in Conns |-> IF c \in broken THEN "broken" ELSE link[c]]
  BY BroadcastEffect
<1>4. TypeOK'
  <2>1. link' \in [Conns -> {"none", "open", "gone", "broken"}]
    BY <1>3 DEF ChatTypes, TypeOK
  <2> QED
    BY <1>1, <1>2, <2>1 DEF ChatTypes, TypeOK, Place
<1>5. \A d \in Conns : Accepted(d)'
  BY <1>1, <1>3 DEF ChatTypes, Accepted
<1>6. hpc \in [Workers -> Place] /\ hmsg \in [Workers -> Messages \cup {None}]
  BY DEF ChatTypes, TypeOK
<1>7. \A v \in Workers : WorkerOK(v)'
  BY <1>1, <1>6 DEF ChatTypes, WorkerOK, Busy, InHand
<1>8. QueueOK'
  BY <1>1, <1>6, PlacesKeepQueue DEF ChatTypes
<1> QED
  BY <1>4, <1>5, <1>7, <1>8 DEF ChatTypes

LEMMA ChatTypesNext == ChatTypes /\ [Next]_vars => ChatTypes'
<1> SUFFICES ASSUME ChatTypes, [Next]_vars PROVE ChatTypes'
  OBVIOUS
<1>1. CASE UNCHANGED vars
  BY <1>1 DEF ChatTypes, TypeOK, Accepted, WorkerOK, QueueOK, Busy, InHand, vars,
              peers, pool
<1>2. ASSUME NEW w \in Workers, WorkerStep(w) PROVE ChatTypes'
  BY <1>2, StartKeepsTypes, CallRecvKeepsTypes, RecvKeepsTypes, RecvNothingKeepsTypes,
     OfflineKeepsTypes, LoginKeepsTypes, QuitKeepsTypes, BroadcastKeepsTypes
  DEF WorkerStep
<1> QED
  BY <1>1, <1>2, ClientsKeepTypes, AcceptKeepsTypes DEF Next

\* Every variable keeps its kind of value, and no more is received than was sent.
THEOREM TypeCorrect == Spec => []TypeOK
<1>1. ChatTypes => TypeOK
  BY DEF ChatTypes
<1> QED
  BY <1>1, ChatTypesInit, ChatTypesNext, PTL DEF Spec

-----------------------------------------------------------------------------
(* Messages: each is handled by one worker, once. *)

\* What has been sent and received stays so, and messages keep their numbers.
LEMMA Grows ==
    ASSUME ChatTypes, [Next]_vars, NEW s \in Conns
    PROVE  /\ got[s] \in Nat /\ got'[s] \in Nat /\ got[s] <= got'[s]
           /\ sent[s] \in Seq(Kinds \cup {"LOGIN"})
           /\ Len(sent[s]) \in Nat /\ Len(sent'[s]) \in Nat
           /\ \/ sent'[s] = sent[s]
              \/ \E kind \in IF sent[s] = <<>> THEN {"LOGIN"} ELSE Kinds :
                    sent'[s] = Append(sent[s], kind)
<1>1. /\ got \in [Conns -> Nat] /\ got[s] \in Nat
      /\ sent \in [Conns -> Seq(Kinds \cup {"LOGIN"})]
      /\ sent[s] \in Seq(Kinds \cup {"LOGIN"}) /\ Len(sent[s]) \in Nat
  BY DEF ChatTypes, TypeOK
<1>2. got'[s] \in Nat /\ Len(sent'[s]) \in Nat
  BY ChatTypesNext DEF ChatTypes, TypeOK
<1>3. CASE UNCHANGED <<sent, got>>
  BY <1>1, <1>3
<1>4. ASSUME NEW c \in Conns, ClientSend(c)
      PROVE  /\ got' = got
             /\ \/ sent'[s] = sent[s]
                \/ \E kind \in IF sent[s] = <<>> THEN {"LOGIN"} ELSE Kinds :
                      sent'[s] = Append(sent[s], kind)
  <2>1. PICK kind \in IF sent[c] = <<>> THEN {"LOGIN"} ELSE Kinds :
            sent' = [sent EXCEPT ![c] = Append(@, kind)]
    BY <1>4 DEF ClientSend
  <2>0. got' = got
    BY <1>4 DEF ClientSend
  <2>2. CASE s = c
    <3>1. sent'[s] = Append(sent[s], kind)
      BY <1>1, <2>1, <2>2
    <3>2. kind \in IF sent[s] = <<>> THEN {"LOGIN"} ELSE Kinds
      BY <2>2
    <3> QED
      BY <2>0, <3>1, <3>2
  <2>3. CASE s # c
    <3>1. sent'[s] = sent[s]
      BY <1>1, <2>1, <2>3
    <3> QED
      BY <2>0, <3>1
  <2> QED
    BY <2>2, <2>3
<1>5. ASSUME NEW w \in Workers, Recv(w)
      PROVE  got[s] <= got'[s] /\ sent' = sent
  <2>1. PICK n \in Nat \ {0} : got' = [got EXCEPT ![hsock[w]] = @ + n]
    BY <1>5, RecvWordsOf
  <2> QED
    BY <1>1, <1>5, <2>1, RecvWordsOf
<1>6. \/ UNCHANGED <<sent, got>>
      \/ \E c \in Conns : ClientSend(c)
      \/ \E w \in Workers : Recv(w)
  BY DEF Next, WorkerStep, ClientLeaves, Accept, Start, CallRecv, RecvNothing, Offline,
         Login, Quit, Broadcast, vars, peers, pool
<1> QED
  BY <1>1, <1>2, <1>3, <1>4, <1>5, <1>6

LEMMA BegunStays ==
    ASSUME ChatTypes, [Next]_vars, NEW s \in Conns, NEW m \in Nat, Begun(s, m)
    PROVE  Begun(s, m)'
<1>1. m \in 1..Len(sent[s]) /\ MsgWords * (m - 1) < got[s]
  BY DEF Begun
<1>2. Len(sent[s]) <= Len(sent'[s])
  BY Grows
<1>3. MsgWords * (m - 1) \in Int
  BY <1>1, ChatAssumption
<1> QED
  BY <1>1, <1>2, <1>3, Grows DEF Begun

\* Steps that take no message in hand and put none in an inbox.
LEMMA MessagesUntouched ==
    ASSUME ChatTypes, MessageInv, [Next]_vars, inbox' = inbox,
           \A w \in Workers : InHand(w)' => InHand(w) /\ hmsg'[w] = hmsg[w]
    PROVE  MessageInv'
<1>1. ASSUME NEW w \in Workers PROVE Handled(w)'
  <2>1. CASE ~ InHand(w)'
    BY <2>1 DEF Handled
  <2>2. CASE InHand(w)'
    <3>1. InHand(w) /\ hmsg'[w] = hmsg[w] /\ Handled(w) /\ hmsg[w] \in Messages
      BY <2>2 DEF MessageInv, ChatTypes, WorkerOK, TypeOK
    <3>2. PICK s \in Conns, m \in Nat : s = hmsg[w][1] /\ m = hmsg[w][2]
      BY <3>1 DEF Messages
    <3>3. Begun(s, m)'
      BY <3>1, <3>2, BegunStays DEF Handled
    <3>4. s = hmsg'[w][1] /\ m = hmsg'[w][2]
      BY <3>1, <3>2
    <3>5. Begun(hmsg[w][1], hmsg[w][2])'
      BY <3>3, <3>4
    <3>6. ASSUME NEW v \in Workers, InHand(v)', hmsg'[v] = hmsg'[w] PROVE v = w
      BY <3>1, <3>6 DEF Handled
    <3> QED
      BY <3>5, <3>6 DEF Handled
  <2> QED
    BY <2>1, <2>2
<1>2. ASSUME NEW c \in Conns, NEW s \in Conns PROVE Heard(c, s)'
  <2>1. Heard(c, s) /\ inbox[c][s] \in Seq(Nat \ {0})
    BY DEF MessageInv, ChatTypes, TypeOK
  <2>2. ASSUME NEW i \in 1..Len(inbox[c][s]) PROVE Begun(s, inbox[c][s][i])'
    BY <2>1, <2>2, BegunStays DEF Heard
  <2> QED
    BY <2>1, <2>2 DEF Heard
<1> QED
  BY <1>1, <1>2 DEF MessageInv

LEMMA RecvKeepsMessages ==
    ASSUME ChatTypes, MessageInv, [Next]_vars, NEW w \in Workers, Recv(w)
    PROVE  MessageInv'
<1>1. PICK c \in Conns : c = hsock[w]
  BY RecvWordsOf
<1>2. hpc \in [Workers -> Place] /\ hmsg \in [Workers -> Messages \cup {None}]
  BY DEF ChatTypes, TypeOK
<1>3. inbox' = inbox /\ sent' = sent
  BY RecvWordsOf
<1>4. CASE hmsg' = hmsg /\ hpc' = [hpc EXCEPT ![w] = "recv"]
  <2>1. \A v \in Workers : InHand(v)' => InHand(v) /\ hmsg'[v] = hmsg[v]
    BY <1>2, <1>4 DEF InHand
  <2> QED
    BY <1>3, <2>1, MessagesUntouched
<1>5. ASSUME NEW m \in Nat \ {0},
             got[c] = MsgWords * (m - 1), m \in 1..Len(sent[c]),
             hmsg' = [hmsg EXCEPT ![w] = <<c, m>>],
             hpc' = [hpc EXCEPT ![w] = Branch(sent[c][m])]
      PROVE  MessageInv'
  <2>1. /\ \A v \in Workers : v # w => (InHand(v)' <=> InHand(v)) /\ hmsg'[v] = hmsg[v]
        /\ hmsg'[w] = <<c, m>>
    BY <1>2, <1>5 DEF InHand
  <2>2. ~ Begun(c, m) /\ Begun(c, m)'
    <3>1. PICK n \in Nat \ {0} : got' = [got EXCEPT ![c] = @ + n]
      BY <1>1, RecvWordsOf
    <3>2. got[c] \in Nat /\ got'[c] = got[c] + n
      BY <3>1 DEF ChatTypes, TypeOK
    <3> QED
      BY <1>3, <1>5, <3>2 DEF Begun
  <2>3. \A v \in Workers : InHand(v) => hmsg[v] # <<c, m>>
    <3>1. ASSUME NEW v \in Workers, InHand(v), hmsg[v] = <<c, m>> PROVE FALSE
      <4>1. Begun(hmsg[v][1], hmsg[v][2]) /\ hmsg[v][1] = c /\ hmsg[v][2] = m
        BY <3>1 DEF MessageInv, Handled
      <4> QED
        BY <2>2, <4>1
    <3> QED
      BY <3>1
  <2>4. ASSUME NEW v \in Workers PROVE Handled(v)'
    <3>1. CASE v = w
      <4>1. hmsg'[v][1] = c /\ hmsg'[v][2] = m
        BY <2>1, <3>1
      <4>2. Begun(hmsg[v][1], hmsg[v][2])'
        BY <2>2, <4>1
      <4>3. ASSUME NEW u \in Workers, InHand(u)', hmsg'[u] = hmsg'[v] PROVE u = v
        BY <2>1, <2>3, <3>1, <4>3
      <4> QED
        BY <4>2, <4>3 DEF Handled
    <3>2. CASE v # w /\ InHand(v)'
      <4>1. InHand(v) /\ Handled(v) /\ hmsg[v] \in Messages /\ hmsg'[v] = hmsg[v]
        BY <2>1, <3>2 DEF MessageInv, ChatTypes, WorkerOK, TypeOK
      <4>2. PICK s \in Conns, k \in Nat : s = hmsg[v][1] /\ k = hmsg[v][2]
        BY <4>1 DEF Messages
      <4>3. Begun(s, k)' /\ s = hmsg'[v][1] /\ k = hmsg'[v][2]
        BY <4>1, <4>2, BegunStays DEF Handled
      <4>4. Begun(hmsg[v][1], hmsg[v][2])'
        BY <4>3
      <4>5. ASSUME NEW u \in Workers, InHand(u)', hmsg'[u] = hmsg'[v] PROVE u = v
        <5>1. hmsg'[w] # hmsg[v]
          BY <2>1, <2>3, <4>1
        <5> QED
          BY <2>1, <4>1, <4>5, <5>1 DEF Handled
      <4> QED
        BY <4>4, <4>5 DEF Handled
    <3> QED
      BY <3>1, <3>2 DEF Handled
  <2>5. ASSUME NEW d \in Conns, NEW s \in Conns PROVE Heard(d, s)'
    <3>1. Heard(d, s) /\ inbox[d][s] \in Seq(Nat \ {0})
      BY DEF MessageInv, ChatTypes, TypeOK
    <3>2. ASSUME NEW i \in 1..Len(inbox[d][s])
          PROVE  Begun(s, inbox[d][s][i])' /\ <<c, m>> # <<s, inbox[d][s][i]>>
      <4>1. PICK k \in Nat : k = inbox[d][s][i]
        BY <3>1, <3>2
      <4>2. Begun(s, k)
        BY <3>1, <3>2, <4>1 DEF Heard
      <4>3. Begun(s, k)' /\ k = inbox'[d][s][i]
        BY <1>3, <4>1, <4>2, BegunStays
      <4>4. ~ (s = c /\ k = m)
        BY <2>2, <4>2
      <4> QED
        BY <4>1, <4>3, <4>4
    <3> QED
      BY <1>3, <2>1, <3>1, <3>2 DEF Heard
  <2> QED
    BY <2>4, <2>5 DEF MessageInv
<1> QED
  BY <1>1, <1>4, <1>5, RecvWordsOf

LEMMA BroadcastKeepsMessages ==
    ASSUME ChatTypes, MessageInv, [Next]_vars, NEW w \in Workers, Broadcast(w)
    PROVE  MessageInv'
<1>1. /\ hpc[w] = "broadcast" /\ hpc' = [hpc EXCEPT ![w] = "recv"]
      /\ hmsg' = [hmsg EXCEPT ![w] = None]
      /\ UNCHANGED <<sent, got>>
  BY BroadcastEffect
<1>2. hpc \in [Workers -> Place] /\ hmsg \in [Workers -> Messages \cup {None}]
      /\ hmsg[w] \in Messages /\ InHand(w)
  BY <1>1, BroadcastEffect DEF ChatTypes, TypeOK, InHand
<1>3. PICK s \in Conns, m \in Nat \ {0} : hmsg[w] = <<s, m>>
  BY <1>2 DEF Messages
<1>4. /\ \A v \in Workers : v # w => (InHand(v)' <=> InHand(v)) /\ hmsg'[v] = hmsg[v]
      /\ ~ InHand(w)'
  BY <1>1, <1>2 DEF InHand
<1>5. Begun(s, m) /\ \A v \in Workers : InHand(v) /\ v # w => hmsg[v] # <<s, m>>
  BY <1>2, <1>3 DEF MessageInv, Handled
<1>6. \A r \in Conns, k \in Nat : Begun(r, k)' <=> Begun(r, k)
  BY <1>1 DEF Begun
<1>7. PICK reached \in SUBSET Conns :
          inbox' = [c \in Conns |->
                      IF c \in reached
                      THEN [inbox[c] EXCEPT ![s] = Append(@, m)]
                      ELSE inbox[c]]
  <2>1. hmsg[w][1] = s /\ hmsg[w][2] = m
    BY <1>3
  <2>2. PICK reached \in SUBSET Conns :
            inbox' = [c \in Conns |->
                        IF c \in reached
                        THEN [inbox[c] EXCEPT ![hmsg[w][1]] = Append(@, hmsg[w][2])]
                        ELSE inbox[c]]
    BY BroadcastEffect
  <2>3. inbox' = [c \in Conns |->
                    IF c \in reached
                    THEN [inbox[c] EXCEPT ![s] = Append(@, m)]
                    ELSE inbox[c]]
    BY <2>1, <2>2, Zenon
  <2> QED
    BY <2>3
<1>8. ASSUME NEW v \in Workers PROVE Handled(v)'
  <2>1. CASE ~ InHand(v)'
    BY <2>1 DEF Handled
  <2>2. CASE InHand(v)'
    <3>1. v # w /\ InHand(v) /\ hmsg'[v] = hmsg[v] /\ Handled(v) /\ hmsg[v] \in Messages
      BY <1>4, <2>2 DEF MessageInv, ChatTypes, WorkerOK, TypeOK
    <3>2. PICK r \in Conns, k \in Nat : r = hmsg[v][1] /\ k = hmsg[v][2]
      BY <3>1 DEF Messages
    <3>3. Begun(r, k)' /\ r = hmsg'[v][1] /\ k = hmsg'[v][2]
      BY <1>6, <3>1, <3>2 DEF Handled
    <3>4. Begun(hmsg[v][1], hmsg[v][2])'
      BY <3>3
    <3>5. ASSUME NEW u \in Workers, InHand(u)', hmsg'[u] = hmsg'[v] PROVE u = v
      BY <1>4, <3>1, <3>5 DEF Handled
    <3> QED
      BY <3>4, <3>5 DEF Handled
  <2> QED
    BY <2>1, <2>2
<1>9. ASSUME NEW c \in Conns, NEW r \in Conns PROVE Heard(c, r)'
  <2>1. Heard(c, r) /\ inbox[c][r] \in Seq(Nat \ {0}) /\ inbox[c] \in [Conns -> Seq(Nat \ {0})]
    BY DEF MessageInv, ChatTypes, TypeOK
  <2>2. CASE inbox'[c][r] = inbox[c][r]
    <3>1. ASSUME NEW i \in 1..Len(inbox[c][r])
          PROVE  Begun(r, inbox[c][r][i])'
      <4>1. PICK k \in Nat : k = inbox[c][r][i]
        BY <2>1, <3>1
      <4>2. Begun(r, k)'
        BY <1>6, <2>1, <3>1, <4>1 DEF Heard
      <4>3. k = inbox'[c][r][i]
        BY <2>2, <4>1
      <4> QED
        BY <4>2, <4>3
    <3> QED
      BY <1>4, <2>1, <2>2, <3>1 DEF Heard
  <2>3. CASE r = s /\ inbox'[c][r] = Append(inbox[c][r], m)
    <3>1. /\ Len(inbox[c][r]) \in Nat
          /\ Len(inbox'[c][r]) = Len(inbox[c][r]) + 1
          /\ \A i \in 1..Len(inbox[c][r]) : inbox'[c][r][i] = inbox[c][r][i]
          /\ inbox'[c][r][Len(inbox[c][r]) + 1] = m
      BY <2>1, <2>3
    <3>2. \A i \in 1..Len(inbox[c][r]) :
             /\ Begun(r, inbox[c][r][i]) /\ inbox[c][r][i] \in Nat
             /\ inbox[c][r][i] # m
             /\ \A v \in Workers : InHand(v) => hmsg[v] # <<r, inbox[c][r][i]>>
      BY <1>2, <1>3, <2>1, <2>3 DEF Heard
    <3>3. ASSUME NEW i \in 1..Len(inbox'[c][r])
          PROVE  /\ Begun(r, inbox[c][r][i])'
                 /\ \A v \in Workers : InHand(v)' => hmsg'[v] # <<r, inbox'[c][r][i]>>
      <4>1. CASE i = Len(inbox[c][r]) + 1
        <5>1. inbox'[c][r][i] = m
          BY <3>1, <4>1
        <5>2. Begun(r, inbox[c][r][i])'
          BY <1>5, <1>6, <2>3, <5>1
        <5> QED
          BY <1>4, <1>5, <2>3, <5>1, <5>2
      <4>2. CASE i \in 1..Len(inbox[c][r])
        <5>1. PICK k \in Nat : k = inbox[c][r][i] /\ k = inbox'[c][r][i]
          BY <3>1, <3>2, <4>2
        <5>2. Begun(r, k)'
          BY <1>6, <3>2, <4>2, <5>1
        <5>3. Begun(r, inbox[c][r][i])'
          BY <5>1, <5>2
        <5>4. ASSUME NEW v \in Workers, InHand(v)'
              PROVE  hmsg'[v] # <<r, inbox'[c][r][i]>>
          <6>1. InHand(v) /\ hmsg'[v] = hmsg[v]
            BY <1>4, <5>4
          <6>2. hmsg[v] # <<r, inbox[c][r][i]>>
            BY <3>2, <4>2, <6>1
          <6> QED
            BY <5>1, <6>1, <6>2, Zenon
        <5> QED
          BY <5>3, <5>4
      <4>3. i = Len(inbox[c][r]) + 1 \/ i \in 1..Len(inbox[c][r])
        BY <3>1
      <4> QED
        BY <4>1, <4>2, <4>3, Zenon
    <3>4. ASSUME NEW i \in 1..Len(inbox'[c][r]), NEW j \in 1..Len(inbox'[c][r]),
                 inbox'[c][r][i] = inbox'[c][r][j]
          PROVE  i = j
      <4>1. /\ i \in 1..Len(inbox[c][r]) \/ i = Len(inbox[c][r]) + 1
            /\ j \in 1..Len(inbox[c][r]) \/ j = Len(inbox[c][r]) + 1
        BY <3>1
      <4> QED
        BY <2>1, <3>1, <3>2, <3>4, <4>1 DEF Heard
    <3> QED
      BY <3>3, <3>4 DEF Heard
  <2> QED
    BY <1>7, <2>1, <2>2, <2>3
<1> QED
  BY <1>8, <1>9 DEF MessageInv

LEMMA MessageNext == ChatTypes /\ MessageInv /\ [Next]_vars => MessageInv'
<1> SUFFICES ASSUME ChatTypes, MessageInv, [Next]_vars PROVE MessageInv'
  OBVIOUS
<1>0. hpc \in [Workers -> Place]
  BY DEF ChatTypes, TypeOK
<1>1. ASSUME NEW w \in Workers,
             Start(w) \/ CallRecv(w) \/ RecvNothing(w) \/ Offline(w) \/ Login(w) \/ Quit(w)
      PROVE  MessageInv'
  <2>1. inbox' = inbox /\ hmsg' = hmsg
    BY <1>1 DEF Start, CallRecv, RecvNothing, Offline, Login, Quit, peers
  <2>2. \A v \in Workers : InHand(v)' => InHand(v)
    BY <1>0, <1>1 DEF Start, CallRecv, RecvNothing, Offline, Login, Quit, InHand
  <2> QED
    BY <2>1, <2>2, MessagesUntouched
<1>2. CASE \/ \E c \in Conns : ClientSend(c) \/ ClientLeaves(c) \/ Accept(c)
           \/ UNCHANGED vars
  <2>1. UNCHANGED <<inbox, hmsg, hpc>>
    BY <1>2 DEF ClientSend, ClientLeaves, Accept, vars, peers
  <2> QED
    BY <2>1, MessagesUntouched DEF InHand
<1> QED
  BY <1>1, <1>2, RecvKeepsMessages, BroadcastKeepsMessages DEF Next, WorkerStep

LEMMA MessageInit == Init => MessageInv
BY DEF Init, MessageInv, Handled, Heard, InHand

\* Nobody hears a message twice or one that was not sent, although any number of
\* handlers may read one connection, in pieces of any size.
THEOREM HeardOnce == Spec => []AtMostOnce
<1>1. ChatTypes /\ MessageInv => AtMostOnce
  <2>1. SUFFICES ASSUME ChatTypes, MessageInv, NEW c \in Conns, NEW s \in Conns,
                        NEW i \in 1..Len(inbox[c][s]), NEW j \in 1..Len(inbox[c][s])
                 PROVE  /\ inbox[c][s][i] <= Len(sent[s])
                        /\ inbox[c][s][i] = inbox[c][s][j] => i = j
    BY DEF AtMostOnce
  <2>2. Heard(c, s) /\ Len(sent[s]) \in Nat
    BY <2>1 DEF MessageInv, ChatTypes, TypeOK
  <2> QED
    BY <2>1, <2>2 DEF Heard, Begun
<1> QED
  BY <1>1, ChatTypesInit, ChatTypesNext, MessageInit, MessageNext, PTL DEF Spec

-----------------------------------------------------------------------------
(* The list: numbers that are open, each once. *)

LEMMA LoginComesFirst ==
    ASSUME ChatTypes, [Next]_vars, NEW c \in Conns, FirstIsLogin(c)
    PROVE  FirstIsLogin(c)'
<1>1. sent[c] \in Seq(Kinds \cup {"LOGIN"}) /\ Len(sent[c]) \in Nat
  BY Grows
<1>2. CASE sent'[c] = sent[c]
  BY <1>2 DEF FirstIsLogin
<1>3. ASSUME NEW kind \in IF sent[c] = <<>> THEN {"LOGIN"} ELSE Kinds,
             sent'[c] = Append(sent[c], kind)
      PROVE  FirstIsLogin(c)'
  <2>1. /\ Len(sent'[c]) = Len(sent[c]) + 1
        /\ \A i \in 1..Len(sent[c]) : sent'[c][i] = sent[c][i]
        /\ sent'[c][Len(sent[c]) + 1] = kind
    BY <1>1, <1>3
  <2>2. kind = "LOGIN" <=> Len(sent[c]) = 0
    <3>1. sent[c] = <<>> <=> Len(sent[c]) = 0
      BY <1>1
    <3>2. "LOGIN" \notin Kinds
      BY ChatAssumption
    <3> QED
      BY <1>3, <3>1, <3>2
  <2>3. ASSUME NEW i \in 1..Len(sent'[c]) PROVE sent'[c][i] = "LOGIN" <=> i = 1
    <3>1. CASE i \in 1..Len(sent[c])
      BY <2>1, <3>1 DEF FirstIsLogin
    <3>2. CASE i = Len(sent[c]) + 1
      BY <1>1, <2>1, <2>2, <3>2
    <3> QED
      BY <1>1, <2>1, <3>1, <3>2
  <2> QED
    BY <2>3 DEF FirstIsLogin
<1> QED
  BY <1>2, <1>3, Grows

\* Steps that close nothing, list nothing and let nobody in.
LEMMA ListUntouched ==
    ASSUME ChatTypes, ListInv, [Next]_vars,
           UNCHANGED <<table, cfdOf, accepted, clients>>,
           \A w \in Workers :
               /\ Busy(w)' => hconn'[w] = hconn[w] \/ hpc'[w] = "recv"
               /\ hpc'[w] = "wait" => hpc[w] = "wait" /\ hsock'[w] = hsock[w]
               /\ hpc'[w] = "login" => hpc[w] = "login" /\ hmsg'[w] = hmsg[w]
    PROVE  ListInv'
<1>1. \A c \in Conns : got[c] \in Nat /\ got'[c] \in Nat /\ got[c] <= got'[c]
  BY Grows
<1>2. ASSUME NEW c \in Conns PROVE FirstIsLogin(c)' /\ Numbered(c)'
  <2>1. FirstIsLogin(c)'
    BY LoginComesFirst DEF ListInv
  <2>2. Numbered(c)'
    BY <1>1 DEF ListInv, Numbered
  <2> QED
    BY <2>1, <2>2
<1>3. ASSUME NEW w \in Workers PROVE LogsIn(w)'
  <2>1. LogsIn(w)
    BY DEF ListInv
  <2>2. hpc'[w] \in {"wait", "login"} => hconn'[w] = hconn[w]
    BY DEF Busy
  <2>3. hpc'[w] \in {"wait", "login"} => Cfd(w)' = Cfd(w)
    BY <2>2 DEF Cfd
  <2>4. hpc'[w] = "wait" => Cfd(w)' = cfdOf'[hsock'[w]]
    BY <2>1, <2>3 DEF LogsIn
  <2>5. hpc'[w] = "login" =>
           /\ hmsg'[w][2] = 1
           /\ table'[Cfd(w)'] = hmsg'[w][1]
           /\ \A i \in 1..Len(clients') : clients'[i] # Cfd(w)'
    BY <2>1, <2>3 DEF LogsIn, Entries
  <2> QED
    BY <2>4, <2>5 DEF LogsIn, Entries
<1>4. ASSUME NEW i \in Entries PROVE got'[table[clients[i]]] # 0
  <2>1. /\ table[clients[i]] \in Conns /\ got[table[clients[i]]] # 0
    <3>1. clients[i] \in Fds /\ table[clients[i]] # None /\ got[table[clients[i]]] # 0
      BY DEF ListInv, ChatTypes, TypeOK, Entries
    <3> QED
      BY <3>1 DEF ChatTypes, TypeOK
  <2> QED
    BY <1>1, <2>1
<1> QED
  BY <1>2, <1>3, <1>4 DEF ListInv, Entries

LEMMA AcceptKeepsList ==
    ASSUME ChatTypes, ListInv, [Next]_vars, NEW c \in Conns, Accept(c)
    PROVE  ListInv'
<1>1. PICK f \in FreeFds : /\ table' = [table EXCEPT ![f] = c]
                           /\ cfdOf' = [cfdOf EXCEPT ![c] = f]
  BY DEF Accept
<1>2. /\ link[c] = "none" /\ accepted' = accepted \cup {c}
      /\ UNCHANGED <<sent, got, hconn, hpc, hsock, hmsg, clients>>
  BY DEF Accept
<1>3. /\ f \in Fds /\ table[f] = None /\ c \notin accepted /\ None \notin Conns
      /\ table \in [Fds -> Conns \cup {None}] /\ cfdOf \in [Conns -> Fds \cup {None}]
      /\ clients \in Seq(Fds)
  BY <1>2, ChatAssumption DEF FreeFds, ChatTypes, Accepted, TypeOK
<1>4. ASSUME NEW d \in Conns PROVE FirstIsLogin(d)' /\ Numbered(d)'
  <2>1. FirstIsLogin(d)'
    BY LoginComesFirst DEF ListInv
  <2>2. CASE d = c
    BY <1>1, <1>2, <1>3, <2>1, <2>2 DEF Numbered
  <2>3. CASE d # c
    <3>1. d \in accepted => cfdOf[d] \in Fds
      BY <1>3 DEF ChatTypes, Accepted
    <3> QED
      BY <1>1, <1>2, <1>3, <2>1, <2>3, <3>1 DEF ListInv, Numbered
  <2> QED
    BY <2>2, <2>3
<1>5. ASSUME NEW w \in Workers, Busy(w)
      PROVE  /\ Cfd(w)' = Cfd(w) /\ Cfd(w) \in Fds
             /\ hpc[w] = "wait" => cfdOf'[hsock[w]] = cfdOf[hsock[w]]
  <2>1. hconn[w] # c /\ Cfd(w) \in Fds
    BY <1>3, <1>5, CfdIsNumber
  <2>2. hpc[w] = "wait" => hsock[w] # c
    BY <1>3 DEF ChatTypes, WorkerOK
  <2> QED
    BY <1>1, <1>2, <1>3, <2>1, <2>2 DEF Cfd
<1>6. ASSUME NEW w \in Workers PROVE LogsIn(w)'
  <2>1. CASE hpc[w] = "wait"
    <3>1. Cfd(w)' = cfdOf'[hsock'[w]]
      BY <1>2, <1>5, <2>1 DEF ListInv, LogsIn, Busy
    <3> QED
      BY <1>2, <2>1, <3>1 DEF LogsIn
  <2>2. CASE hpc[w] = "login"
    <3>1. /\ hmsg[w][2] = 1 /\ table[Cfd(w)] = hmsg[w][1]
          /\ \A i \in Entries : clients[i] # Cfd(w)
          /\ hmsg[w][1] # None
      BY <1>3, <2>2 DEF ListInv, LogsIn, ChatTypes, WorkerOK, InHand, TypeOK, Messages
    <3>2. Cfd(w)' = Cfd(w) /\ Cfd(w) \in Fds
      BY <1>5, <2>2 DEF Busy
    <3>3. table'[Cfd(w)] = table[Cfd(w)]
      BY <1>1, <1>3, <3>1, <3>2
    <3> QED
      BY <1>2, <2>2, <3>1, <3>2, <3>3 DEF LogsIn, Entries
  <2>3. CASE hpc[w] \notin {"wait", "login"}
    BY <1>2, <2>3 DEF LogsIn
  <2> QED
    BY <2>1, <2>2, <2>3
<1>7. ASSUME NEW i \in Entries
      PROVE  table'[clients[i]] # None /\ got[table'[clients[i]]] # 0
  <2>1. table[clients[i]] # None /\ got[table[clients[i]]] # 0 /\ clients[i] \in Fds
    BY <1>3 DEF ListInv, Entries
  <2> QED
    BY <1>1, <1>3, <2>1
<1> QED
  BY <1>2, <1>4, <1>6, <1>7 DEF ListInv, Entries

LEMMA CallRecvKeepsList ==
    ASSUME ChatTypes, ListInv, [Next]_vars, NEW w \in Workers, CallRecv(w)
    PROVE  ListInv'
<1>1. /\ hpc[w] = "recv" /\ hsock' = [hsock EXCEPT ![w] = Behind(w)]
      /\ hpc' = [hpc EXCEPT ![w] = IF Behind(w) = None THEN "offline" ELSE "wait"]
      /\ UNCHANGED <<sent, got, table, accepted, cfdOf, hconn, hmsg, clients>>
  BY DEF CallRecv, peers, pool
<1>2. hpc \in [Workers -> Place] /\ hsock \in [Workers -> Conns \cup {None}]
      /\ None \notin Conns \cup Fds
  BY ChatAssumption DEF ChatTypes, TypeOK
<1>3. Behind(w) # None => cfdOf[Behind(w)] = Cfd(w)
  <2>1. SUFFICES ASSUME Behind(w) # None PROVE cfdOf[Behind(w)] = Cfd(w)
    OBVIOUS
  <2>2. Cfd(w) \in Fds
    BY <1>1, CfdIsNumber DEF Busy
  <2>3. Behind(w) \in Conns /\ table[Cfd(w)] = Behind(w)
    BY <2>1, <2>2 DEF Behind, ChatTypes, TypeOK
  <2>4. Accepted(Behind(w))
    BY <2>3 DEF ChatTypes
  <2> QED
    BY <2>2, <2>3, <2>4 DEF Accepted
<1>4. ASSUME NEW v \in Workers PROVE LogsIn(v)'
  <2>1. Cfd(v)' = Cfd(v) /\ LogsIn(v)
    BY <1>1 DEF Cfd, ListInv
  <2>2. CASE v = w
    <3>1. hpc'[w] = "wait" => hsock'[w] = Behind(w) /\ Behind(w) # None
      BY <1>1, <1>2
    <3>2. hpc'[w] # "login"
      BY <1>1, <1>2
    <3>3. hpc'[w] = "wait" => Cfd(w)' = cfdOf'[hsock'[w]]
      BY <1>1, <1>3, <2>1, <2>2, <3>1
    <3> QED
      BY <2>2, <3>2, <3>3 DEF LogsIn
  <2>3. CASE v # w
    BY <1>1, <1>2, <2>1, <2>3 DEF LogsIn, Entries
  <2> QED
    BY <2>2, <2>3
<1>5. \A c \in Conns : FirstIsLogin(c)' /\ Numbered(c)'
  BY <1>1 DEF ListInv, FirstIsLogin, Numbered
<1> QED
  BY <1>1, <1>4, <1>5 DEF ListInv, Entries

\* The handler that reads a connection's first message finds its number open
\* and not in the list.
LEMMA RecvKeepsList ==
    ASSUME ChatTypes, ListInv, [Next]_vars, NEW w \in Workers, Recv(w)
    PROVE  ListInv'
<1>1. PICK c \in Conns : c = hsock[w] /\ c \in accepted
  BY RecvWordsOf
<1>2. /\ hpc[w] = "wait"
      /\ UNCHANGED <<sent, table, accepted, cfdOf, hconn, clients>>
      /\ hsock' = [hsock EXCEPT ![w] = None]
  BY RecvWordsOf
<1>3. /\ hpc \in [Workers -> Place] /\ hsock \in [Workers -> Conns \cup {None}]
      /\ hmsg \in [Workers -> Messages \cup {None}] /\ got \in [Conns -> Nat]
  BY DEF ChatTypes, TypeOK
<1>4. Cfd(w) = cfdOf[c]
  BY <1>1, <1>2 DEF ListInv, LogsIn
<1>5. CASE hmsg' = hmsg /\ hpc' = [hpc EXCEPT ![w] = "recv"]
  <2>1. \A v \in Workers :
           /\ hpc'[v] = "wait" => hpc[v] = "wait" /\ hsock'[v] = hsock[v]
           /\ hpc'[v] = "login" => hpc[v] = "login" /\ hmsg'[v] = hmsg[v]
    BY <1>2, <1>3, <1>5
  <2> QED
    BY <1>2, <2>1, ListUntouched
<1>6. ASSUME NEW m \in Nat \ {0},
             got[c] = MsgWords * (m - 1), m \in 1..Len(sent[c]),
             hmsg' = [hmsg EXCEPT ![w] = <<c, m>>],
             hpc' = [hpc EXCEPT ![w] = Branch(sent[c][m])],
             Branch(sent[c][m]) \in {"login", "quit", "broadcast"}
      PROVE  ListInv'
  <2>1. CASE Branch(sent[c][m]) # "login"
    <3>1. \A v \in Workers :
             /\ hpc'[v] = "wait" => hpc[v] = "wait" /\ hsock'[v] = hsock[v]
             /\ hpc'[v] = "login" => hpc[v] = "login" /\ hmsg'[v] = hmsg[v]
      BY <1>2, <1>3, <1>6, <2>1
    <3> QED
      BY <1>2, <3>1, ListUntouched
  <2>2. CASE Branch(sent[c][m]) = "login"
    <3>1. m = 1
      <4>1. sent[c][m] \in Kinds \cup {"LOGIN"}
        BY <1>6 DEF ChatTypes, TypeOK
      <4>2. sent[c][m] = "LOGIN"
        BY <2>2, <4>1, ChatAssumption DEF Branch
      <4> QED
        BY <1>6, <4>2 DEF ListInv, FirstIsLogin
    <3>2. got[c] = 0
      BY <1>6, <3>1, ChatAssumption
    <3>3. table[Cfd(w)] = c
      BY <1>1, <1>4, <3>2 DEF ListInv, Numbered
    <3>4. \A i \in Entries : clients[i] # Cfd(w)
      BY <3>2, <3>3 DEF ListInv
    <3>5. ASSUME NEW v \in Workers PROVE LogsIn(v)'
      <4>1. Cfd(v)' = Cfd(v) /\ LogsIn(v)
        BY <1>2 DEF Cfd, ListInv
      <4>2. CASE v = w
        <5>1. hpc'[w] = "login" /\ hmsg'[w][2] = 1 /\ hmsg'[w][1] = c
          BY <1>3, <1>6, <2>2, <3>1
        <5> QED
          BY <1>2, <3>3, <3>4, <4>1, <4>2, <5>1 DEF LogsIn, Entries
      <4>3. CASE v # w
        BY <1>2, <1>3, <1>6, <4>1, <4>3 DEF LogsIn, Entries
      <4> QED
        BY <4>2, <4>3
    <3>6. \A d \in Conns : got[d] \in Nat /\ got'[d] \in Nat /\ got[d] <= got'[d]
      BY Grows
    <3>7. \A d \in Conns : FirstIsLogin(d)' /\ Numbered(d)'
      BY <1>2, <3>6 DEF ListInv, FirstIsLogin, Numbered
    <3>8. ASSUME NEW i \in Entries PROVE got'[table[clients[i]]] # 0
      <4>1. table[clients[i]] \in Conns /\ got[table[clients[i]]] # 0
        <5>1. clients[i] \in Fds /\ table[clients[i]] # None /\ got[table[clients[i]]] # 0
          BY DEF ListInv, ChatTypes, TypeOK, Entries
        <5> QED
          BY <5>1 DEF ChatTypes, TypeOK
      <4> QED
        BY <3>6, <4>1
    <3> QED
      BY <1>2, <3>5, <3>7, <3>8 DEF ListInv, Entries
  <2> QED
    BY <2>1, <2>2
<1> QED
  BY <1>1, <1>5, <1>6, RecvWordsOf

\* A number is closed only if it is in the list, and leaves the list then.
LEMMA ClosedKeepsList ==
    ASSUME ChatTypes, ListInv, [Next]_vars, NEW w \in Workers,
           Offline(w) \/ Quit(w)
    PROVE  ListInv'
<1>1. /\ UNCHANGED <<sent, got, accepted, cfdOf, hsock, hmsg>>
      /\ Busy(w) /\ hpc[w] \notin {"wait", "login"}
      /\ hpc' \in {[hpc EXCEPT ![w] = "idle"], [hpc EXCEPT ![w] = "broadcast"]}
      /\ \A v \in Workers : v # w => hconn'[v] = hconn[v]
  BY DEF Offline, Quit, peers, pool, Busy, ChatTypes, TypeOK
<1>2. PICK f \in Fds : f = Cfd(w) /\ CloseAndErase(f)
  BY <1>1, CfdIsNumber DEF Offline, Quit
<1>3. hpc \in [Workers -> Place] /\ table \in [Fds -> Conns \cup {None}]
      /\ clients \in Seq(Fds)
  BY DEF ChatTypes, TypeOK
<1>4. CASE UNCHANGED <<table, clients>>
  <2>1. \A v \in Workers :
           /\ Busy(v)' => hconn'[v] = hconn[v] \/ hpc'[v] = "recv"
           /\ hpc'[v] = "wait" => hpc[v] = "wait" /\ hsock'[v] = hsock[v]
           /\ hpc'[v] = "login" => hpc[v] = "login" /\ hmsg'[v] = hmsg[v]
    BY <1>1, <1>3 DEF Offline, Quit, pool, Busy
  <2> QED
    BY <1>1, <1>4, <2>1, ListUntouched
<1>5. CASE /\ \E i \in Entries : clients[i] = f
           /\ table' = [table EXCEPT ![f] = None]
  <2>1. \A i, j \in Entries : clients[i] = clients[j] => i = j
    BY DEF ListInv
  <2>2. /\ \A i \in 1..Len(clients') :
              clients'[i] # f /\ \E j \in Entries : clients'[i] = clients[j]
        /\ \A i, j \in 1..Len(clients') : clients'[i] = clients'[j] => i = j
    BY <1>2, <1>3, <2>1, ClosedAndErased
  <2>3. table[f] # None /\ got[table[f]] # 0
    BY <1>5 DEF ListInv
  <2>4. ASSUME NEW c \in Conns PROVE FirstIsLogin(c)' /\ Numbered(c)'
    <3>1. c \in accepted /\ got[c] = 0 => cfdOf[c] \in Fds /\ cfdOf[c] # f
      BY <2>3 DEF ListInv, Numbered, ChatTypes, Accepted, TypeOK
    <3> QED
      BY <1>1, <1>3, <1>5, <3>1 DEF ListInv, FirstIsLogin, Numbered
  <2>5. ASSUME NEW v \in Workers PROVE LogsIn(v)'
    <3>1. CASE v = w
      BY <1>1, <1>3, <3>1 DEF LogsIn
    <3>2. CASE v # w
      <4>1. Cfd(v)' = Cfd(v) /\ hpc'[v] = hpc[v] /\ LogsIn(v)
        BY <1>1, <1>3, <3>2 DEF Cfd, ListInv
      <4>2. hpc[v] = "wait" => Cfd(v)' = cfdOf'[hsock'[v]]
        BY <1>1, <4>1 DEF LogsIn
      <4>3. ASSUME hpc[v] = "login"
            PROVE  /\ hmsg'[v][2] = 1
                   /\ table'[Cfd(v)'] = hmsg'[v][1]
                   /\ \A i \in 1..Len(clients') : clients'[i] # Cfd(v)'
        <5>1. /\ hmsg[v][2] = 1 /\ table[Cfd(v)] = hmsg[v][1]
              /\ \A i \in Entries : clients[i] # Cfd(v)
          BY <4>1, <4>3 DEF LogsIn
        <5>2. Cfd(v) \in Fds /\ Cfd(v) # f
          BY <1>5, <4>3, <5>1, CfdIsNumber DEF Busy
        <5> QED
          BY <1>1, <1>3, <1>5, <2>2, <4>1, <5>1, <5>2
      <4> QED
        BY <4>1, <4>2, <4>3 DEF LogsIn, Entries
    <3> QED
      BY <3>1, <3>2
  <2>6. ASSUME NEW i \in 1..Len(clients')
        PROVE  table'[clients'[i]] # None /\ got'[table'[clients'[i]]] # 0
    <3>1. PICK j \in Entries : clients'[i] = clients[j] /\ clients[j] # f
      BY <2>2
    <3>2. clients[j] \in Fds /\ table[clients[j]] # None /\ got[table[clients[j]]] # 0
      BY <1>3 DEF ListInv, Entries
    <3> QED
      BY <1>1, <1>3, <1>5, <3>1, <3>2
  <2> QED
    BY <2>2, <2>4, <2>5, <2>6 DEF ListInv, Entries
<1> QED
  BY <1>2, <1>3, <1>4, <1>5, ClosedAndErased

LEMMA LoginKeepsList ==
    ASSUME ChatTypes, MessageInv, ListInv, [Next]_vars, NEW w \in Workers, Login(w)
    PROVE  ListInv'
<1>1. /\ hpc[w] = "login" /\ hpc' = [hpc EXCEPT ![w] = "broadcast"]
      /\ clients' = Append(clients, Cfd(w))
      /\ UNCHANGED <<sent, got, table, accepted, cfdOf, hconn, hsock, hmsg>>
  BY DEF Login, peers, pool
<1>2. /\ hpc \in [Workers -> Place] /\ clients \in Seq(Fds) /\ Len(clients) \in Nat
      /\ hmsg \in [Workers -> Messages \cup {None}]
      /\ None \notin Conns
  BY ChatAssumption DEF ChatTypes, TypeOK
<1>3. /\ hmsg[w] \in Messages /\ hmsg[w][2] = 1 /\ table[Cfd(w)] = hmsg[w][1]
      /\ \A i \in Entries : clients[i] # Cfd(w)
      /\ Cfd(w) \in Fds /\ InHand(w)
  BY <1>1, <1>2, CfdIsNumber DEF ListInv, LogsIn, ChatTypes, WorkerOK, InHand, Busy
<1>4. /\ Len(clients') = Len(clients) + 1
      /\ \A i \in Entries : clients'[i] = clients[i]
      /\ clients'[Len(clients) + 1] = Cfd(w)
      /\ \A i \in 1..Len(clients') : i \in Entries \/ i = Len(clients) + 1
  BY <1>1, <1>2, <1>3 DEF Entries
<1>5. table[Cfd(w)] # None /\ got[table[Cfd(w)]] # 0
  <2>1. PICK c \in Conns : c = hmsg[w][1]
    BY <1>3 DEF Messages
  <2>2. MsgWords * (1 - 1) < got[c]
    BY <1>3, <2>1 DEF MessageInv, Handled, Begun
  <2>3. MsgWords * (1 - 1) = 0
    BY ChatAssumption
  <2> QED
    BY <1>2, <1>3, <2>1, <2>2, <2>3
<1>6. ASSUME NEW v \in Workers PROVE LogsIn(v)'
  <2>1. Cfd(v)' = Cfd(v) /\ LogsIn(v)
    BY <1>1 DEF Cfd, ListInv
  <2>2. CASE v = w
    BY <1>1, <1>2, <2>2 DEF LogsIn
  <2>3. CASE v # w /\ hpc[v] = "login"
    <3>1. /\ hmsg[v] \in Messages /\ hmsg[v][2] = 1 /\ table[Cfd(v)] = hmsg[v][1]
          /\ \A i \in Entries : clients[i] # Cfd(v)
          /\ InHand(v)
      BY <1>2, <2>1, <2>3 DEF LogsIn, ChatTypes, WorkerOK, InHand
    <3>2. Cfd(v) # Cfd(w)
      <4>1. SUFFICES ASSUME hmsg[v][1] = hmsg[w][1] PROVE FALSE
        BY <1>3, <3>1
      <4>2. hmsg[v] = hmsg[w]
        BY <1>3, <3>1, <4>1 DEF Messages
      <4> QED
        BY <1>3, <2>3, <3>1, <4>2 DEF MessageInv, Handled
    <3>3. \A i \in 1..Len(clients') : clients'[i] # Cfd(v)
      BY <1>4, <3>1, <3>2
    <3> QED
      BY <1>1, <1>2, <2>1, <2>3, <3>1, <3>3 DEF LogsIn, Entries
  <2>4. CASE v # w /\ hpc[v] # "login"
    BY <1>1, <1>2, <2>1, <2>4 DEF LogsIn
  <2> QED
    BY <2>2, <2>3, <2>4
<1>7. \A c \in Conns : FirstIsLogin(c)' /\ Numbered(c)'
  BY <1>1 DEF ListInv, FirstIsLogin, Numbered
<1>8. \A i \in 1..Len(clients') :
         table[clients'[i]] # None /\ got[table[clients'[i]]] # 0
  BY <1>4, <1>5 DEF ListInv
<1>9. \A i, j \in 1..Len(clients') : clients'[i] = clients'[j] => i = j
  BY <1>3, <1>4 DEF ListInv
<1> QED
  BY <1>1, <1>6, <1>7, <1>8, <1>9 DEF ListInv, Entries

LEMMA ListInit == Init => ListInv
<1> SUFFICES ASSUME Init PROVE ListInv
  OBVIOUS
<1>1. \A c \in Conns : FirstIsLogin(c) /\ Numbered(c)
  BY DEF Init, FirstIsLogin, Numbered
<1>2. \A w \in Workers : LogsIn(w)
  BY DEF Init, LogsIn
<1> QED
  BY <1>1, <1>2 DEF Init, ListInv, Entries

LEMMA ListNext == ChatTypes /\ MessageInv /\ ListInv /\ [Next]_vars => ListInv'
<1> SUFFICES ASSUME ChatTypes, MessageInv, ListInv, [Next]_vars PROVE ListInv'
  OBVIOUS
<1>1. /\ hpc \in [Workers -> Place] /\ hconn \in [Workers -> Conns \cup {None}]
      /\ hsock \in [Workers -> Conns \cup {None}]
      /\ hmsg \in [Workers -> Messages \cup {None}]
  BY DEF ChatTypes, TypeOK
<1>2. CASE \/ \E c \in Conns : ClientSend(c) \/ ClientLeaves(c)
           \/ UNCHANGED vars
  <2>1. UNCHANGED <<table, cfdOf, accepted, clients, hconn, hpc, hsock, hmsg>>
    BY <1>2 DEF ClientSend, ClientLeaves, vars, pool
  <2> QED
    BY <2>1, ListUntouched
<1>3. ASSUME NEW w \in Workers, Start(w) \/ RecvNothing(w) \/ Broadcast(w)
      PROVE  ListInv'
  <2>1. UNCHANGED <<table, cfdOf, accepted, clients>>
    BY <1>3 DEF Start, RecvNothing, Broadcast, pool
  <2>2. /\ \A v \in Workers : v # w =>
              /\ hpc'[v] = hpc[v] /\ hconn'[v] = hconn[v]
              /\ hsock'[v] = hsock[v] /\ hmsg'[v] = hmsg[v]
        /\ hpc'[w] \in {"recv", "offline"}
        /\ hpc'[w] = "recv" \/ hconn'[w] = hconn[w]
    BY <1>1, <1>3 DEF Start, RecvNothing, Broadcast, pool
  <2>3. \A v \in Workers :
           /\ Busy(v)' => hconn'[v] = hconn[v] \/ hpc'[v] = "recv"
           /\ hpc'[v] = "wait" => hpc[v] = "wait" /\ hsock'[v] = hsock[v]
           /\ hpc'[v] = "login" => hpc[v] = "login" /\ hmsg'[v] = hmsg[v]
    BY <2>2
  <2> QED
    BY <2>1, <2>3, ListUntouched
<1> QED
  BY <1>2, <1>3, AcceptKeepsList, CallRecvKeepsList, RecvKeepsList, ClosedKeepsList,
     LoginKeepsList DEF Next, WorkerStep

\* The list never holds a number that is closed, nor one number twice: what is
\* appended at login is open and new, although the handler may hold the number
\* of a connection that is no longer its own.
THEOREM OpenAndOnce == Spec => []ListedAreOpen
<1>1. ListInv => ListedAreOpen
  BY DEF ListInv, ListedAreOpen
<1> QED
  BY <1>1, ChatTypesInit, ChatTypesNext, MessageInit, MessageNext, ListInit, ListNext, PTL
  DEF Spec

\* Whoever has heard something has sent a word that was received.
HeardByMembers == \A c, s \in Conns : inbox[c][s] # <<>> => got[c] # 0

LEMMA HeardByMembersNext ==
    ChatTypes /\ ListInv /\ HeardByMembers /\ [Next]_vars => HeardByMembers'
<1> SUFFICES ASSUME ChatTypes, ListInv, HeardByMembers, [Next]_vars,
                    NEW c \in Conns, NEW s \in Conns, inbox'[c][s] # <<>>
             PROVE  got'[c] # 0
  BY DEF HeardByMembers
<1>1. got[c] \in Nat /\ got'[c] \in Nat /\ got[c] <= got'[c]
  BY Grows
<1>2. CASE inbox'[c] = inbox[c]
  <2>1. got[c] # 0
    BY <1>2 DEF HeardByMembers
  <2> QED
    BY <1>1, <2>1
<1>3. ASSUME NEW w \in Workers, Broadcast(w), inbox'[c] # inbox[c]
      PROVE  got[c] # 0
  <2>1. PICK k \in 1..(Len(clients) + 1) :
            inbox' = [d \in Conns |->
                        IF d \in {Listed(i) : i \in 1..(k - 1)} /\ link[d] = "open"
                        THEN [inbox[d] EXCEPT ![hmsg[w][1]] = Append(@, hmsg[w][2])]
                        ELSE inbox[d]]
    BY <1>3 DEF Broadcast
  <2>2. c \in {Listed(i) : i \in 1..(k - 1)}
    BY <1>3, <2>1
  <2>3. PICK i \in 1..(k - 1) : c = table[clients[i]]
    BY <2>2 DEF Listed
  <2>4. i \in Entries
    <3>1. Len(clients) \in Nat
      BY DEF ChatTypes, TypeOK
    <3> QED
      BY <2>1, <2>3, <3>1 DEF Entries
  <2> QED
    BY <2>3, <2>4 DEF ListInv
<1>4. inbox' = inbox \/ \E w \in Workers : Broadcast(w)
  BY DEF Next, WorkerStep, ClientSend, ClientLeaves, Accept, Start, CallRecv, Recv,
         RecvNothing, Offline, Login, Quit, vars, peers
<1> QED
  BY <1>1, <1>2, <1>3, <1>4

\* Only who has logged in hears the room, with any number of handlers that hold
\* numbers which are closed and given out again.
THEOREM OnlyMembersHear == Spec => []MembersOnly
<1>1. Init => HeardByMembers
  BY DEF Init, HeardByMembers
<1>2. ListInv /\ HeardByMembers => MembersOnly
  BY DEF ListInv, HeardByMembers, MembersOnly
<1> QED
  BY <1>1, <1>2, ChatTypesInit, ChatTypesNext, MessageInit, MessageNext, ListInit,
     ListNext, HeardByMembersNext, PTL DEF Spec

-----------------------------------------------------------------------------
(* The list and the handlers that will erase its entries. *)

LEMMA ServedNext == ChatTypes /\ ListInv /\ ListedAreServed /\ [Next]_vars => ListedAreServed'
<1> SUFFICES ASSUME ChatTypes, ListInv, ListedAreServed, [Next]_vars
             PROVE  ListedAreServed'
  OBVIOUS
<1>1. /\ hpc \in [Workers -> Place] /\ hconn \in [Workers -> Conns \cup {None}]
      /\ cfdOf \in [Conns -> Fds \cup {None}] /\ clients \in Seq(Fds)
  BY DEF ChatTypes, TypeOK
<1>2. ASSUME clients' = clients,
             \A w \in Workers : Busy(w) => Busy(w)' /\ Cfd(w)' = Cfd(w)
      PROVE  ListedAreServed'
  <2>1. ASSUME NEW i \in Entries
        PROVE  \E w \in Workers : Busy(w)' /\ Cfd(w)' = clients[i]
    <3>1. PICK w \in Workers : Busy(w) /\ Cfd(w) = clients[i]
      BY <2>1 DEF ListedAreServed
    <3> QED
      BY <1>2, <3>1
  <2> QED
    BY <1>2, <2>1 DEF ListedAreServed, Entries
<1>3. CASE \/ \E c \in Conns : ClientSend(c) \/ ClientLeaves(c)
           \/ UNCHANGED vars
  <2>1. UNCHANGED <<clients, hpc, hconn, cfdOf>>
    BY <1>3 DEF ClientSend, ClientLeaves, vars, pool
  <2> QED
    BY <1>2, <2>1 DEF Busy, Cfd
<1>4. ASSUME NEW c \in Conns, Accept(c) PROVE ListedAreServed'
  <2>1. /\ c \notin accepted /\ UNCHANGED <<hconn, hpc, clients>>
        /\ \E f \in Fds : cfdOf' = [cfdOf EXCEPT ![c] = f]
    BY <1>4 DEF Accept, FreeFds, ChatTypes, Accepted
  <2>2. ASSUME NEW w \in Workers, Busy(w) PROVE Busy(w)' /\ Cfd(w)' = Cfd(w)
    <3>1. hconn[w] # c /\ hconn[w] \in Conns
      BY <2>1, <2>2, CfdIsNumber
    <3> QED
      BY <1>1, <2>1, <2>2, <3>1 DEF Busy, Cfd
  <2> QED
    BY <1>2, <2>1, <2>2
<1>5. ASSUME NEW w \in Workers,
             Start(w) \/ CallRecv(w) \/ Recv(w) \/ RecvNothing(w) \/ Broadcast(w)
      PROVE  ListedAreServed'
  <2>1. UNCHANGED <<clients, cfdOf>>
    BY <1>5 DEF Start, CallRecv, Recv, RecvNothing, Broadcast, pool
  <2>2. CASE Start(w)
    <3>1. \A v \in Workers : Busy(v) => Busy(v)' /\ hconn'[v] = hconn[v]
      BY <1>1, <2>2 DEF Start, Busy
    <3> QED
      BY <1>2, <2>1, <3>1 DEF Cfd
  <2>3. CASE Recv(w)
    <3>1. /\ hconn' = hconn
          /\ \E p \in Place \ {"idle"} : hpc' = [hpc EXCEPT ![w] = p]
      BY <2>3, RecvWordsOf DEF Place
    <3>2. \A v \in Workers : Busy(v) => Busy(v)' /\ hconn'[v] = hconn[v]
      BY <1>1, <3>1 DEF Busy
    <3> QED
      BY <1>2, <2>1, <3>2 DEF Cfd
  <2>4. CASE CallRecv(w) \/ RecvNothing(w) \/ Broadcast(w)
    <3>1. /\ hconn' = hconn
          /\ \E p \in Place \ {"idle"} : hpc' = [hpc EXCEPT ![w] = p]
      BY <2>4 DEF CallRecv, RecvNothing, Broadcast, pool, Place
    <3>2. \A v \in Workers : Busy(v) => Busy(v)' /\ hconn'[v] = hconn[v]
      BY <1>1, <3>1 DEF Busy
    <3> QED
      BY <1>2, <2>1, <3>2 DEF Cfd
  <2> QED
    BY <1>5, <2>2, <2>3, <2>4
<1>6. ASSUME NEW w \in Workers, Login(w) PROVE ListedAreServed'
  <2>1. /\ Busy(w) /\ hpc' = [hpc EXCEPT ![w] = "broadcast"]
        /\ clients' = Append(clients, Cfd(w)) /\ UNCHANGED <<hconn, cfdOf>>
    BY <1>6 DEF Login, pool, Busy
  <2>2. \A v \in Workers : Busy(v) => Busy(v)' /\ Cfd(v)' = Cfd(v)
    BY <1>1, <2>1 DEF Busy, Cfd
  <2>3. ASSUME NEW i \in 1..Len(clients')
        PROVE  \E v \in Workers : Busy(v) /\ Cfd(v) = clients'[i]
    <3>1. CASE i \in Entries
      BY <1>1, <2>1, <3>1 DEF ListedAreServed, Entries
    <3>2. CASE i \notin Entries
      BY <1>1, <2>1, <3>2 DEF Entries
    <3> QED
      BY <3>1, <3>2
  <2>4. ASSUME NEW i \in 1..Len(clients')
        PROVE  \E v \in Workers : Busy(v)' /\ Cfd(v)' = clients'[i]
    BY <2>2, <2>3, <2>4
  <2> QED
    BY <2>4 DEF ListedAreServed, Entries
<1>7. ASSUME NEW w \in Workers, Offline(w) \/ Quit(w) PROVE ListedAreServed'
  <2>1. /\ Busy(w) /\ cfdOf' = cfdOf
        /\ \A v \in Workers : v # w => hconn'[v] = hconn[v] /\ hpc'[v] = hpc[v]
    BY <1>1, <1>7 DEF Offline, Quit, pool, Busy
  <2>2. PICK f \in Fds : f = Cfd(w) /\ CloseAndErase(f)
    BY <1>7, <2>1, CfdIsNumber DEF Offline, Quit
  <2>3. \A i \in 1..Len(clients') :
           clients'[i] # f /\ \E j \in Entries : clients'[i] = clients[j]
    <3>1. \A i, j \in Entries : clients[i] = clients[j] => i = j
      BY DEF ListInv
    <3> QED
      BY <1>1, <2>2, <3>1, ClosedAndErased
  <2>4. ASSUME NEW i \in 1..Len(clients')
        PROVE  \E v \in Workers : Busy(v)' /\ Cfd(v)' = clients'[i]
    <3>1. PICK v \in Workers : Busy(v) /\ Cfd(v) = clients'[i]
      BY <2>3 DEF ListedAreServed
    <3>2. v # w
      BY <2>2, <2>3, <3>1
    <3> QED
      BY <2>1, <3>1, <3>2 DEF Busy, Cfd
  <2> QED
    BY <2>4 DEF ListedAreServed, Entries
<1> QED
  BY <1>3, <1>4, <1>5, <1>6, <1>7 DEF Next, WorkerStep

\* Every entry of the list has a handler that still holds its number: whoever
\* returns has erased its own entry, and nobody else's.
THEOREM Served == Spec => []ListedAreServed
<1>1. Init => ListedAreServed
  BY DEF Init, ListedAreServed, Entries
<1> QED
  BY <1>1, ChatTypesInit, ChatTypesNext, MessageInit, MessageNext, ListInit, ListNext,
     ServedNext, PTL DEF Spec

-----------------------------------------------------------------------------
(* While nobody quits: a handler's number is its client's. *)

OwnTasks ==
    /\ \A i \in 1..Len(queue) : table[cfdOf[queue[i]]] = queue[i]
    /\ \A w \in Workers : Own(w)

LEMMA NobodyHadQuit ==
    ASSUME ChatTypes, [Next]_vars, NobodyQuits'
    PROVE  NobodyQuits
<1>1. ASSUME NEW c \in Conns, NEW i \in 1..Len(sent[c]) PROVE sent[c][i] # "QUIT"
  <2>1. /\ sent[c] \in Seq(Kinds \cup {"LOGIN"}) /\ Len(sent[c]) \in Nat
        /\ sent'[c] = sent[c] \/ \E kind : sent'[c] = Append(sent[c], kind)
    BY Grows
  <2>2. i \in 1..Len(sent'[c]) /\ sent'[c][i] = sent[c][i]
    BY <1>1, <2>1
  <2> QED
    BY <2>2 DEF NobodyQuits
<1> QED
  BY <1>1 DEF NobodyQuits

LEMMA AcceptKeepsOwn ==
    ASSUME ChatTypes, OwnTasks, NEW c \in Conns, Accept(c)
    PROVE  OwnTasks'
<1>1. PICK f \in FreeFds : /\ table' = [table EXCEPT ![f] = c]
                           /\ cfdOf' = [cfdOf EXCEPT ![c] = f]
  BY DEF Accept
<1>2. /\ link[c] = "none" /\ queue' = Append(queue, c)
      /\ UNCHANGED <<hconn, hpc, hsock, hmsg>>
  BY DEF Accept
<1>3. /\ f \in Fds /\ table[f] = None /\ c \notin accepted /\ None \notin Conns
      /\ table \in [Fds -> Conns \cup {None}] /\ cfdOf \in [Conns -> Fds \cup {None}]
      /\ queue \in Seq(Conns) /\ accepted \subseteq Conns
  BY <1>2, ChatAssumption DEF FreeFds, ChatTypes, Accepted, TypeOK
<1>4. ASSUME NEW d \in accepted, table[cfdOf[d]] = d
      PROVE  cfdOf'[d] = cfdOf[d] /\ table'[cfdOf[d]] = d
  <2>1. cfdOf[d] \in Fds /\ d # c /\ d \in Conns
    BY <1>3 DEF ChatTypes, Accepted
  <2> QED
    BY <1>1, <1>3, <1>4, <2>1
<1>5. ASSUME NEW i \in 1..Len(queue') PROVE table'[cfdOf'[queue'[i]]] = queue'[i]
  <2>1. CASE i \in 1..Len(queue)
    <3>1. queue'[i] = queue[i] /\ queue[i] \in accepted
      BY <1>2, <1>3, <2>1 DEF ChatTypes, QueueOK
    <3> QED
      BY <1>4, <2>1, <3>1 DEF OwnTasks
  <2>2. CASE i \notin 1..Len(queue)
    BY <1>1, <1>2, <1>3, <2>2
  <2> QED
    BY <2>1, <2>2
<1>6. ASSUME NEW w \in Workers PROVE Own(w)'
  <2>1. ASSUME Busy(w) PROVE Behind(w)' = hconn[w]
    <3>1. hconn[w] \in accepted /\ table[cfdOf[hconn[w]]] = hconn[w]
      BY <2>1, CfdIsNumber DEF OwnTasks, Own, Behind, Cfd
    <3>2. table'[cfdOf'[hconn[w]]] = hconn[w]
      BY <1>4, <3>1
    <3> QED
      BY <1>2, <3>2 DEF Behind, Cfd
  <2> QED
    BY <1>2, <2>1 DEF OwnTasks, Own, Busy, InHand
<1> QED
  BY <1>5, <1>6 DEF OwnTasks

\* Steps that close nothing and start nothing.
LEMMA OwnUntouched ==
    ASSUME ChatTypes, OwnTasks, UNCHANGED <<table, cfdOf, queue, hconn>>,
           \A w \in Workers :
               /\ Busy(w)' => Busy(w) /\ hpc'[w] # "quit"
               /\ hpc'[w] = "wait" => hsock'[w] = hconn[w]
               /\ InHand(w)' => hmsg'[w][1] = hconn[w]
    PROVE  OwnTasks'
<1>1. ASSUME NEW w \in Workers PROVE Own(w)'
  <2>1. Own(w) /\ Behind(w)' = Behind(w)
    BY DEF OwnTasks, Behind, Cfd
  <2>2. Busy(w)' => Busy(w) /\ hpc'[w] # "quit"
    OBVIOUS
  <2>3. Busy(w)' => Behind(w)' = hconn'[w] /\ hpc'[w] # "quit"
    BY <2>1, <2>2 DEF Own
  <2> QED
    BY <2>3 DEF Own
<1> QED
  BY <1>1 DEF OwnTasks

LEMMA StartKeepsOwn ==
    ASSUME ChatTypes, OwnTasks, NEW w \in Workers, Start(w)
    PROVE  OwnTasks'
<1>1. /\ hpc' = [hpc EXCEPT ![w] = "recv"] /\ hconn' = [hconn EXCEPT ![w] = Head(queue)]
      /\ queue # <<>> /\ queue' = Tail(queue)
      /\ UNCHANGED <<table, cfdOf, hsock, hmsg>>
  BY DEF Start
<1>2. /\ Len(queue) \in Nat \ {0} /\ Head(queue) = queue[1]
      /\ Len(queue') = Len(queue) - 1
      /\ \A i \in 1..Len(queue') : queue'[i] = queue[i + 1]
      /\ hpc \in [Workers -> Place] /\ hconn \in [Workers -> Conns \cup {None}]
  BY <1>1 DEF ChatTypes, TypeOK
<1>3. \A i \in 1..Len(queue') : table[cfdOf[queue'[i]]] = queue'[i]
  BY <1>2 DEF OwnTasks
<1>4. ASSUME NEW v \in Workers PROVE Own(v)'
  <2>1. CASE v = w
    <3>1. hconn'[v] = queue[1] /\ hpc'[v] = "recv" /\ table[cfdOf[queue[1]]] = queue[1]
      BY <1>1, <1>2, <2>1 DEF OwnTasks
    <3>2. Behind(v)' = hconn'[v]
      BY <1>1, <3>1 DEF Behind, Cfd
    <3> QED
      BY <3>1, <3>2 DEF Own, Busy, InHand
  <2>2. CASE v # w
    <3>1. hconn'[v] = hconn[v] /\ hpc'[v] = hpc[v] /\ hsock'[v] = hsock[v]
          /\ hmsg'[v] = hmsg[v] /\ Own(v)
      BY <1>1, <1>2, <2>2 DEF OwnTasks
    <3>2. Behind(v)' = Behind(v)
      BY <1>1, <3>1 DEF Behind, Cfd
    <3> QED
      BY <3>1, <3>2 DEF Own, Busy, InHand
  <2> QED
    BY <2>1, <2>2
<1> QED
  BY <1>1, <1>3, <1>4 DEF OwnTasks

LEMMA RecvKeepsOwn ==
    ASSUME ChatTypes, OwnTasks, NobodyQuits, NEW w \in Workers, Recv(w)
    PROVE  OwnTasks'
<1>1. PICK c \in Conns : c = hsock[w] /\ c = hconn[w]
  BY RecvWordsOf DEF OwnTasks, Own
<1>2. /\ hpc[w] = "wait" /\ hsock' = [hsock EXCEPT ![w] = None]
      /\ UNCHANGED <<table, cfdOf, queue, hconn>>
  BY RecvWordsOf
<1>3. /\ hpc \in [Workers -> Place] /\ hsock \in [Workers -> Conns \cup {None}]
      /\ hmsg \in [Workers -> Messages \cup {None}]
      /\ sent[c] \in Seq(Kinds \cup {"LOGIN"})
  BY DEF ChatTypes, TypeOK
<1>4. /\ hpc'[w] \notin {"idle", "wait", "quit"}
      /\ InHand(w)' => hmsg'[w][1] = c
      /\ \A v \in Workers : v # w => hpc'[v] = hpc[v] /\ hmsg'[v] = hmsg[v]
  <2>1. CASE hmsg' = hmsg /\ hpc' = [hpc EXCEPT ![w] = "recv"]
    BY <1>3, <2>1 DEF InHand
  <2>2. ASSUME NEW m \in Nat \ {0}, m \in 1..Len(sent[c]),
               hmsg' = [hmsg EXCEPT ![w] = <<c, m>>],
               hpc' = [hpc EXCEPT ![w] = Branch(sent[c][m])],
               Branch(sent[c][m]) \in {"login", "quit", "broadcast"}
        PROVE  /\ hpc'[w] \notin {"idle", "wait", "quit"}
               /\ InHand(w)' => hmsg'[w][1] = c
               /\ \A v \in Workers : v # w => hpc'[v] = hpc[v] /\ hmsg'[v] = hmsg[v]
    <3>1. sent[c][m] \in {"LOGIN", "CHAT"}
      BY <1>3, <2>2, ChatAssumption DEF NobodyQuits
    <3>2. Branch(sent[c][m]) \in {"login", "broadcast"}
      BY <3>1 DEF Branch
    <3> QED
      BY <1>3, <2>2, <3>2
  <2> QED
    BY <1>1, <2>1, <2>2, RecvWordsOf
<1>5. \A v \in Workers :
         /\ Busy(v)' => Busy(v) /\ hpc'[v] # "quit"
         /\ hpc'[v] = "wait" => hsock'[v] = hconn[v]
         /\ InHand(v)' => hmsg'[v][1] = hconn[v]
  <2>1. ASSUME NEW v \in Workers, v # w
        PROVE  /\ hpc'[v] = hpc[v] /\ hsock'[v] = hsock[v] /\ hmsg'[v] = hmsg[v]
               /\ Own(v)
    BY <1>2, <1>3, <1>4, <2>1 DEF OwnTasks
  <2> QED
    BY <1>1, <1>2, <1>4, <2>1 DEF Busy, InHand, Own
<1> QED
  BY <1>2, <1>5, OwnUntouched

\* A handler that returns closes its own connection's number, which no other
\* task is for.
LEMMA OfflineKeepsOwn ==
    ASSUME ChatTypes, OwnTasks, NEW w \in Workers, Offline(w)
    PROVE  OwnTasks'
<1>1. /\ hpc[w] = "offline" /\ hpc' = [hpc EXCEPT ![w] = "idle"]
      /\ hconn' = [hconn EXCEPT ![w] = None]
      /\ UNCHANGED <<cfdOf, queue, hsock, hmsg>>
  BY DEF Offline
<1>2. PICK f \in Fds : f = Cfd(w) /\ CloseAndErase(f)
  BY <1>1, CfdIsNumber DEF Offline, Busy
<1>3. /\ hpc \in [Workers -> Place] /\ hconn \in [Workers -> Conns \cup {None}]
      /\ table \in [Fds -> Conns \cup {None}] /\ clients \in Seq(Fds)
      /\ table[f] = hconn[w]
  BY <1>1, <1>2 DEF ChatTypes, TypeOK, OwnTasks, Own, Behind, Busy
<1>4. \A g \in Fds : g # f => table'[g] = table[g]
  BY <1>2, <1>3, ClosedAndErased
<1>5. ASSUME NEW d \in accepted, table[cfdOf[d]] = d, d # hconn[w]
      PROVE  table'[cfdOf[d]] = d
  <2>1. cfdOf[d] \in Fds
    BY DEF ChatTypes, Accepted, TypeOK
  <2> QED
    BY <1>3, <1>4, <1>5, <2>1
<1>6. ASSUME NEW i \in 1..Len(queue) PROVE table'[cfdOf[queue[i]]] = queue[i]
  <2>1. queue[i] \in accepted /\ queue[i] # hconn[w]
    BY <1>6 DEF ChatTypes, QueueOK
  <2> QED
    BY <1>5, <1>6, <2>1 DEF OwnTasks
<1>7. ASSUME NEW v \in Workers PROVE Own(v)'
  <2>1. CASE v = w
    BY <1>1, <1>3, <2>1 DEF Own, Busy, InHand
  <2>2. CASE v # w
    <3>1. hconn'[v] = hconn[v] /\ hpc'[v] = hpc[v] /\ hsock'[v] = hsock[v]
          /\ hmsg'[v] = hmsg[v] /\ Own(v)
      BY <1>1, <1>3, <2>2 DEF OwnTasks
    <3>2. ASSUME Busy(v) PROVE Behind(v)' = hconn'[v]
      <4>1. hconn[v] \in accepted /\ table[cfdOf[hconn[v]]] = hconn[v]
        BY <3>1, <3>2, CfdIsNumber DEF Own, Behind
      <4>2. hconn[v] # hconn[w]
        BY <2>2, <3>2 DEF ChatTypes, QueueOK
      <4>3. table'[cfdOf[hconn[v]]] = hconn[v]
        BY <1>5, <4>1, <4>2
      <4> QED
        BY <1>1, <3>1, <4>3 DEF Behind, Cfd
    <3> QED
      BY <3>1, <3>2 DEF Own, Busy, InHand
  <2> QED
    BY <2>1, <2>2
<1> QED
  BY <1>1, <1>6, <1>7 DEF OwnTasks

LEMMA OwnTasksNext ==
    ASSUME ChatTypes, OwnTasks, NobodyQuits, [Next]_vars
    PROVE  OwnTasks'
<1>1. /\ hpc \in [Workers -> Place] /\ hsock \in [Workers -> Conns \cup {None}]
      /\ hmsg \in [Workers -> Messages \cup {None}]
  BY DEF ChatTypes, TypeOK
<1>2. CASE \/ \E c \in Conns : ClientSend(c) \/ ClientLeaves(c)
           \/ UNCHANGED vars
  <2>1. UNCHANGED <<table, cfdOf, queue, hconn, hpc, hsock, hmsg>>
    BY <1>2 DEF ClientSend, ClientLeaves, vars, pool
  <2> QED
    BY <2>1, OwnUntouched DEF Busy, InHand, OwnTasks, Own
<1>3. ASSUME NEW w \in Workers, CallRecv(w) \/ RecvNothing(w) \/ Login(w) \/ Broadcast(w)
      PROVE  OwnTasks'
  <2>1. UNCHANGED <<table, cfdOf, queue, hconn>>
    BY <1>3 DEF CallRecv, RecvNothing, Login, Broadcast, pool
  <2>2. \A v \in Workers : v # w =>
           /\ hpc'[v] = hpc[v] /\ hsock'[v] = hsock[v] /\ hmsg'[v] = hmsg[v]
    BY <1>1, <1>3 DEF CallRecv, RecvNothing, Login, Broadcast
  <2>3. /\ Busy(w) /\ hpc'[w] \in {"wait", "offline", "recv", "broadcast"}
        /\ hpc'[w] = "wait" => hsock'[w] = Behind(w)
        /\ hpc'[w] = "broadcast" => hpc[w] = "login" /\ hmsg' = hmsg
    BY <1>1, <1>3 DEF CallRecv, RecvNothing, Login, Broadcast, Busy
  <2>4. ASSUME NEW v \in Workers
        PROVE  /\ Busy(v)' => Busy(v) /\ hpc'[v] # "quit"
               /\ hpc'[v] = "wait" => hsock'[v] = hconn[v]
               /\ InHand(v)' => hmsg'[v][1] = hconn[v]
    <3>1. Own(v)
      BY DEF OwnTasks
    <3>2. CASE v = w
      BY <2>3, <3>1, <3>2 DEF Own, Busy, InHand
    <3>3. CASE v # w
      BY <2>2, <3>1, <3>3 DEF Own, Busy, InHand
    <3> QED
      BY <3>2, <3>3
  <2> QED
    BY <2>1, <2>4, OwnUntouched
<1>4. ASSUME NEW w \in Workers PROVE ~ Quit(w)
  BY DEF Quit, OwnTasks, Own, Busy
<1> QED
  BY <1>2, <1>3, <1>4, AcceptKeepsOwn, StartKeepsOwn, RecvKeepsOwn, OfflineKeepsOwn
  DEF Next, WorkerStep

\* A message that a worker has just begun to read comes after all that have been
\* begun, and one worker has messages of one sender.
LEMMA InOrderNext ==
    ASSUME ChatTypes, MessageInv, OwnTasks, [Next]_vars,
           NEW c \in Conns, NEW s \in Conns, InOrder(c, s)
    PROVE  InOrder(c, s)'
<1>1. /\ hpc \in [Workers -> Place] /\ hmsg \in [Workers -> Messages \cup {None}]
      /\ inbox[c][s] \in Seq(Nat \ {0}) /\ inbox[c] \in [Conns -> Seq(Nat \ {0})]
      /\ Len(inbox[c][s]) \in Nat
  BY DEF ChatTypes, TypeOK
<1>2. ASSUME inbox' = inbox,
             \A w \in Workers : InHand(w)' => InHand(w) /\ hmsg'[w] = hmsg[w]
      PROVE  InOrder(c, s)'
  BY <1>2 DEF InOrder
<1>3. CASE \/ \E d \in Conns : ClientSend(d) \/ ClientLeaves(d) \/ Accept(d)
           \/ UNCHANGED vars
  <2>1. UNCHANGED <<inbox, hmsg, hpc>>
    BY <1>3 DEF ClientSend, ClientLeaves, Accept, vars, peers
  <2> QED
    BY <1>2, <2>1 DEF InHand
<1>4. ASSUME NEW w \in Workers,
             Start(w) \/ CallRecv(w) \/ RecvNothing(w) \/ Offline(w) \/ Login(w) \/ Quit(w)
      PROVE  InOrder(c, s)'
  <2>1. inbox' = inbox /\ hmsg' = hmsg
    BY <1>4 DEF Start, CallRecv, RecvNothing, Offline, Login, Quit, peers
  <2>2. \A v \in Workers : InHand(v)' => InHand(v)
    BY <1>1, <1>4 DEF Start, CallRecv, RecvNothing, Offline, Login, Quit, InHand
  <2> QED
    BY <1>2, <2>1, <2>2
<1>5. ASSUME NEW w \in Workers, Recv(w) PROVE InOrder(c, s)'
  <2>1. inbox' = inbox
    BY <1>5, RecvWordsOf
  <2>2. CASE hmsg' = hmsg /\ hpc' = [hpc EXCEPT ![w] = "recv"]
    BY <1>1, <1>2, <2>1, <2>2 DEF InHand
  <2>3. ASSUME NEW m \in Nat \ {0},
               got[hsock[w]] = MsgWords * (m - 1),
               hmsg' = [hmsg EXCEPT ![w] = <<hsock[w], m>>],
               hpc' = [hpc EXCEPT ![w] = Branch(sent[hsock[w]][m])]
        PROVE  InOrder(c, s)'
    <3>1. \A v \in Workers : v # w => (InHand(v)' <=> InHand(v)) /\ hmsg'[v] = hmsg[v]
      BY <1>1, <2>3 DEF InHand
    <3>2. hmsg'[w][1] = hsock[w] /\ hmsg'[w][2] = m
      BY <1>1, <2>3
    <3>3. ASSUME hsock[w] = s, NEW i \in 1..Len(inbox[c][s])
          PROVE  inbox[c][s][i] < m
      <4>1. PICK k \in Nat \ {0} : k = inbox[c][s][i]
        BY <1>1, <3>3
      <4>2. MsgWords * (k - 1) < MsgWords * (m - 1)
        BY <2>3, <3>3, <4>1 DEF MessageInv, Heard, Begun
      <4>3. k - 1 \in Nat /\ m - 1 \in Nat
        OBVIOUS
      <4>4. k - 1 < m - 1
        BY <4>2, <4>3, MoreMessages
      <4> QED
        BY <4>1, <4>4
    <3> QED
      BY <2>1, <3>1, <3>2, <3>3 DEF InOrder
  <2> QED
    BY <1>5, <2>2, <2>3, RecvWordsOf
<1>6. ASSUME NEW w \in Workers, Broadcast(w) PROVE InOrder(c, s)'
  <2>1. /\ hpc[w] = "broadcast" /\ hpc' = [hpc EXCEPT ![w] = "recv"]
        /\ hmsg' = [hmsg EXCEPT ![w] = None] /\ hmsg[w] \in Messages
    BY <1>6, BroadcastEffect
  <2>2. /\ \A v \in Workers : v # w => (InHand(v)' <=> InHand(v)) /\ hmsg'[v] = hmsg[v]
        /\ ~ InHand(w)' /\ InHand(w)
    BY <1>1, <2>1 DEF InHand
  <2>3. PICK m \in Nat \ {0} : m = hmsg[w][2]
    BY <2>1 DEF Messages
  <2>4. \/ inbox'[c][s] = inbox[c][s]
        \/ hmsg[w][1] = s /\ inbox'[c][s] = Append(inbox[c][s], m)
    <3>1. PICK reached \in SUBSET Conns :
              inbox' = [d \in Conns |->
                          IF d \in reached
                          THEN [inbox[d] EXCEPT ![hmsg[w][1]] = Append(@, hmsg[w][2])]
                          ELSE inbox[d]]
      BY <1>6, BroadcastEffect
    <3> QED
      BY <1>1, <2>3, <3>1
  <2>5. CASE inbox'[c][s] = inbox[c][s]
    BY <2>2, <2>5 DEF InOrder
  <2>6. CASE hmsg[w][1] = s /\ inbox'[c][s] = Append(inbox[c][s], m)
    <3>1. /\ Len(inbox'[c][s]) = Len(inbox[c][s]) + 1
          /\ \A i \in 1..Len(inbox[c][s]) : inbox'[c][s][i] = inbox[c][s][i]
          /\ inbox'[c][s][Len(inbox[c][s]) + 1] = m
          /\ \A i \in 1..Len(inbox'[c][s]) :
                i \in 1..Len(inbox[c][s]) \/ i = Len(inbox[c][s]) + 1
      BY <1>1, <2>6
    <3>2. \A i \in 1..Len(inbox[c][s]) : inbox[c][s][i] < m
      BY <2>2, <2>3, <2>6 DEF InOrder
    <3>3. ASSUME NEW i \in 1..Len(inbox'[c][s]), NEW j \in 1..Len(inbox'[c][s]), i < j
          PROVE  inbox'[c][s][i] < inbox'[c][s][j]
      <4>1. i \in 1..Len(inbox[c][s])
        BY <1>1, <3>1, <3>3
      <4> QED
        BY <3>1, <3>2, <3>3, <4>1 DEF InOrder
    <3>4. \A v \in Workers : InHand(v)' => hmsg'[v][1] # s
      <4>1. ASSUME NEW v \in Workers, InHand(v), hmsg[v][1] = s PROVE v = w
        <5>1. hconn[v] = s /\ hconn[w] = s /\ Busy(v)
          BY <2>2, <2>6, <4>1 DEF OwnTasks, Own, InHand, Busy
        <5> QED
          BY <5>1 DEF ChatTypes, QueueOK
      <4> QED
        BY <2>2, <4>1
    <3> QED
      BY <3>3, <3>4 DEF InOrder
  <2> QED
    BY <2>4, <2>5, <2>6
<1> QED
  BY <1>3, <1>4, <1>5, <1>6 DEF Next, WorkerStep

LEMMA OwnInit == Init => OwnInv
BY DEF Init, OwnInv, Own, Busy, InHand, InOrder

LEMMA OwnNext == ChatTypes /\ MessageInv /\ OwnInv /\ [Next]_vars => OwnInv'
<1> SUFFICES ASSUME ChatTypes, MessageInv, OwnInv, [Next]_vars, NobodyQuits'
             PROVE  /\ OwnTasks'
                    /\ \A c, s \in Conns : InOrder(c, s)'
  BY DEF OwnInv, OwnTasks
<1>1. NobodyQuits
  BY NobodyHadQuit
<1>2. OwnTasks /\ \A c, s \in Conns : InOrder(c, s)
  BY <1>1 DEF OwnInv, OwnTasks
<1> QED
  BY <1>1, <1>2, OwnTasksNext, InOrderNext

\* As long as nobody quits, a handler's number stays its own client's, and
\* nobody else reads from that client.
THEOREM NumberIsOwn == Spec => []OwnDescriptor
<1>1. OwnInv => OwnDescriptor
  BY DEF OwnInv, Own, OwnDescriptor
<1> QED
  BY <1>1, ChatTypesInit, ChatTypesNext, MessageInit, MessageNext, OwnInit, OwnNext, PTL
  DEF Spec

\* As long as nobody quits, everybody hears one sender in the order of sending,
\* with any number of handlers broadcasting at once.
THEOREM OrderKept == Spec => []HeardInOrder
<1>1. OwnInv => HeardInOrder
  BY DEF OwnInv, InOrder, HeardInOrder
<1> QED
  BY <1>1, ChatTypesInit, ChatTypesNext, MessageInit, MessageNext, OwnInit, OwnNext, PTL
  DEF Spec

=============================================================================
