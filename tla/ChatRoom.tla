------------------------------ MODULE ChatRoom ------------------------------
(***************************************************************************)
(* The chat server (ChatRoom/ChatRoomServer): the accept loop, the         *)
(* handlers its thread pool runs, one per connection, the list of clients  *)
(* that have logged in, and the process's table of descriptors.            *)
(*                                                                         *)
(* A handler holds a descriptor NUMBER.  The number stays in its hand when *)
(* the descriptor is closed, and accept may give it to another connection. *)
(*                                                                         *)
(* A recv that is blocked stays with the connection that was behind the    *)
(* number when it was called, closed or not.                               *)
(*                                                                         *)
(* TCP delivers a stream: a message is MsgWords words long, and recv takes *)
(* up to RecvWords of what has arrived, because it asks for sizeof(Msg),   *)
(* 144 bytes, where the serialised message has 142.  The first word of a   *)
(* message has its whole type; what is read from anywhere else is no type  *)
(* that the handler knows, since a type is three zero bytes and a small    *)
(* one, and names and texts are text padded with zeros.                    *)
(*                                                                         *)
(* Every critical section of client_mutex is one step: no step but         *)
(* another critical section can tell its parts from the whole.             *)
(***************************************************************************)
EXTENDS Naturals, Sequences, Functions

CONSTANTS
    Conns,          \* connections, each the run of one client program
    Workers,        \* threads of mThreadPool (10)
    Fds,            \* descriptor numbers that accept can return
    None,
    MsgWords,       \* words of a serialised message (71)
    RecvWords,      \* words that recv asks for (72)
    Kinds,          \* what a client sends after its LOGIN
    MaxMsgs         \* bound: messages of all clients together

ASSUME ChatAssumption ==
    /\ Fds \subseteq Nat
    /\ None \notin Conns \cup Fds \cup (Conns \X (Nat \ {0}))
    /\ MsgWords \in Nat \ {0}
    /\ RecvWords \in Nat \ {0}
    /\ Kinds \subseteq {"CHAT", "QUIT"}
    /\ MaxMsgs \in Nat

VARIABLES
    \* the clients and their connections
    link,           \* "none", "open", "gone" when the client has closed its
                    \* socket, "broken" when the server's has met a reset
    sent,           \* kinds of the messages each client has sent
    inbox,          \* numbers of the messages of each client, the second index,
                    \* that have reached each client, the first
    \* the server
    up,             \* FALSE once SIGPIPE has killed the process
    got,            \* words received on each connection
    accepted,       \* connections accepted so far
    table,          \* the connection behind each open descriptor
    cfdOf,          \* the descriptor each accepted connection was given
    queue,          \* tasks of the pool that have not started
    hconn,          \* the connection of the task each worker runs
    hpc,            \* where its handler is
    hsock,          \* the connection its recv was called on
    hmsg,           \* clientMsg: sender and number of the message in hand
    clients         \* descriptors of the clients that have logged in

peers == <<link, sent, inbox>>
pool == <<accepted, cfdOf, queue, hconn>>
vars == <<peers, up, got, table, pool, hpc, hsock, hmsg, clients>>

Init ==
    /\ link = [c \in Conns |-> "none"]
    /\ sent = [c \in Conns |-> <<>>]
    /\ inbox = [c \in Conns |-> [s \in Conns |-> <<>>]]
    /\ up = TRUE
    /\ got = [c \in Conns |-> 0]
    /\ accepted = {}
    /\ table = [f \in Fds |-> None]
    /\ cfdOf = [c \in Conns |-> None]
    /\ queue = <<>>
    /\ hconn = [w \in Workers |-> None]
    /\ hpc = [w \in Workers |-> "idle"]
    /\ hsock = [w \in Workers |-> None]
    /\ hmsg = [w \in Workers |-> None]
    /\ clients = <<>>

-----------------------------------------------------------------------------
(* The clients: log in, chat or quit, and leave at any time.  When the server *)
(* has died nothing more happens.                                            *)

TotalSent == SumFunctionOnSet([c \in Conns |-> Len(sent[c])], Conns)

ClientSend(c) ==
    /\ up
    /\ link[c] = "open"
    /\ TotalSent < MaxMsgs
    /\ \E kind \in IF sent[c] = <<>> THEN {"LOGIN"} ELSE Kinds :
          sent' = [sent EXCEPT ![c] = Append(@, kind)]
    /\ UNCHANGED <<link, inbox, up, got, table, pool, hpc, hsock, hmsg, clients>>

\* The client's socket is closed, orderly or, with data it had not read, by a
\* reset: which of the two shows when the server meets it.
ClientLeaves(c) ==
    /\ up
    /\ link[c] = "open"
    /\ link' = [link EXCEPT ![c] = "gone"]
    /\ UNCHANGED <<sent, inbox, up, got, table, pool, hpc, hsock, hmsg, clients>>

-----------------------------------------------------------------------------
(* The accept loop. *)

FreeFds == {f \in Fds : table[f] = None}

\* Mutant: a connection becomes two tasks, and so has two handlers.
AcceptTwice(c) ==
    /\ up
    /\ link[c] = "none"
    /\ link' = [link EXCEPT ![c] = "open"]
    /\ \E f \in FreeFds :
          /\ \A g \in FreeFds : f <= g
          /\ table' = [table EXCEPT ![f] = c]
          /\ cfdOf' = [cfdOf EXCEPT ![c] = f]
    /\ accepted' = accepted \cup {c}
    /\ queue' = queue \o <<c, c>>
    /\ UNCHANGED <<sent, inbox, up, got, hconn, hpc, hsock, hmsg, clients>>

\* accept returns the lowest free number, and the connection becomes a task.  A
\* client connects in the same step: what it does before it is accepted touches
\* nothing but its own connection, and may as well come after.
Accept(c) ==
    /\ up
    /\ link[c] = "none"
    /\ link' = [link EXCEPT ![c] = "open"]
    /\ \E f \in FreeFds :
          /\ \A g \in FreeFds : f <= g
          /\ table' = [table EXCEPT ![f] = c]
          /\ cfdOf' = [cfdOf EXCEPT ![c] = f]
    /\ accepted' = accepted \cup {c}
    /\ queue' = Append(queue, c)
    /\ UNCHANGED <<sent, inbox, up, got, hconn, hpc, hsock, hmsg, clients>>

-----------------------------------------------------------------------------
(* A handler. *)

Start(w) ==
    /\ up
    /\ hpc[w] = "idle"
    /\ queue # <<>>
    /\ hconn' = [hconn EXCEPT ![w] = Head(queue)]
    /\ queue' = Tail(queue)
    /\ hpc' = [hpc EXCEPT ![w] = "recv"]
    /\ UNCHANGED <<peers, up, got, accepted, table, cfdOf, hsock, hmsg, clients>>

\* The number the handler holds, and the connection now behind it.
Cfd(w) == cfdOf[hconn[w]]
Behind(w) == table[Cfd(w)]

Arrived(c) == MsgWords * Len(sent[c]) - got[c]

\* Mutant: a missing break, CHAT falls through to QUIT.
BranchFallsThrough(kind) ==
    CASE kind = "LOGIN" -> "login"
      [] kind \in {"CHAT", "QUIT"} -> "quit"

Branch(kind) ==
    CASE kind = "LOGIN" -> "login"
      [] kind = "CHAT" -> "broadcast"
      [] kind = "QUIT" -> "quit"

\* Mutants: the words are looked at and stay in the socket; a whole buffer is
\* taken for received.
TakePeeked(c, n) == UNCHANGED got
TakeWhole(c, n) == got' = [got EXCEPT ![c] = @ + RecvWords]

Take(c, n) == got' = [got EXCEPT ![c] = @ + n]

\* recv is called: it fails at once when the number is closed.
CallRecv(w) ==
    /\ up
    /\ hpc[w] = "recv"
    /\ hsock' = [hsock EXCEPT ![w] = Behind(w)]
    /\ hpc' = [hpc EXCEPT ![w] = IF Behind(w) = None THEN "offline" ELSE "wait"]
    /\ UNCHANGED <<peers, up, got, table, pool, hmsg, clients>>

\* recv returns something: read from the start of a message it is parsed, from
\* anywhere else it is a "type error".
Recv(w) ==
    LET c == hsock[w]
        m == got[c] \div MsgWords + 1
    IN  /\ up
        /\ hpc[w] = "wait"
        /\ \E n \in 1..RecvWords : n <= Arrived(c) /\ Take(c, n)
        /\ \/ /\ got[c] % MsgWords = 0
              /\ hmsg' = [hmsg EXCEPT ![w] = <<c, m>>]
              /\ hpc' = [hpc EXCEPT ![w] = Branch(sent[c][m])]
           \/ /\ got[c] % MsgWords # 0
              /\ hpc' = [hpc EXCEPT ![w] = "recv"]
              /\ UNCHANGED hmsg
        /\ hsock' = [hsock EXCEPT ![w] = None]
        /\ UNCHANGED <<peers, up, table, pool, clients>>

\* A client that leaves with messages it has not read resets its connection.
MayReset(c) == link[c] = "gone" /\ \E s \in Conns : inbox[c][s] # <<>>

\* Mutant: `res<0', the end of the stream is taken for a message of no type.
RecvErrorOnly(w) ==
    LET c == hsock[w]
    IN  /\ up
        /\ hpc[w] = "wait"
        /\ \/ /\ link[c] = "gone" /\ Arrived(c) = 0 /\ UNCHANGED link
              /\ hpc' = [hpc EXCEPT ![w] = "recv"]
           \/ /\ MayReset(c) \/ link[c] = "broken"
              /\ link' = [link EXCEPT ![c] = "broken"]
              /\ hpc' = [hpc EXCEPT ![w] = "offline"]
        /\ hsock' = [hsock EXCEPT ![w] = None]
        /\ UNCHANGED <<sent, inbox, up, got, table, pool, hmsg, clients>>

\* recv returns 0, when all that the client had sent before it left has been
\* received, or -1, when it meets the reset, possibly before.
RecvNothing(w) ==
    LET c == hsock[w]
    IN  /\ up
        /\ hpc[w] = "wait"
        /\ \/ link[c] = "gone" /\ Arrived(c) = 0 /\ UNCHANGED link
           \/ /\ MayReset(c) \/ link[c] = "broken"
              /\ link' = [link EXCEPT ![c] = "broken"]
        /\ hpc' = [hpc EXCEPT ![w] = "offline"]
        /\ hsock' = [hsock EXCEPT ![w] = None]
        /\ UNCHANGED <<sent, inbox, up, got, table, pool, hmsg, clients>>

\* Mutants: the descriptor is closed and its entry stays; nothing is done.
CloseOnly(f) ==
    /\ table' = IF \E i \in 1..Len(clients) : clients[i] = f
                THEN [table EXCEPT ![f] = None] ELSE table
    /\ UNCHANGED clients

KeepEntry(f) == UNCHANGED <<table, clients>>

\* The first entry with that number is erased and the number closed; with no
\* such entry nothing is done, not even the close.
CloseAndErase(f) ==
    \/ /\ \A i \in 1..Len(clients) : clients[i] # f
       /\ UNCHANGED <<table, clients>>
    \/ \E i \in 1..Len(clients) :
          /\ clients[i] = f
          /\ \A j \in 1..(i - 1) : clients[j] # f
          /\ clients' = SubSeq(clients, 1, i - 1)
                        \o SubSeq(clients, i + 1, Len(clients))
          /\ table' = [table EXCEPT ![f] = None]

Offline(w) ==
    /\ up
    /\ hpc[w] = "offline"
    /\ CloseAndErase(Cfd(w))
    /\ hpc' = [hpc EXCEPT ![w] = "idle"]
    /\ hconn' = [hconn EXCEPT ![w] = None]
    /\ UNCHANGED <<peers, up, got, accepted, cfdOf, queue, hsock, hmsg>>

Login(w) ==
    /\ up
    /\ hpc[w] = "login"
    /\ clients' = Append(clients, Cfd(w))
    /\ hpc' = [hpc EXCEPT ![w] = "broadcast"]
    /\ UNCHANGED <<peers, up, got, table, pool, hsock, hmsg>>

\* The number is closed, and the handler goes on using it.
Quit(w) ==
    /\ up
    /\ hpc[w] = "quit"
    /\ CloseAndErase(Cfd(w))
    /\ hpc' = [hpc EXCEPT ![w] = "broadcast"]
    /\ UNCHANGED <<peers, up, got, pool, hsock, hmsg>>

\* What send meets at each entry of the list.  To a client that has left it
\* succeeds until a reset has come back, or fails with its own reset.  A
\* reset is reported once; a send after that raises SIGPIPE.
Listed(i) == table[clients[i]]
SendWorks(i) == Listed(i) # None /\ link[Listed(i)] \in {"open", "gone"}
SendFails(i) == Listed(i) = None \/ MayReset(Listed(i))
SendKills(i) == Listed(i) # None /\ link[Listed(i)] = "broken"

\* broadCast stops at the first send that fails.
StopsAt(k) ==
    /\ \A i \in 1..(k - 1) : SendWorks(i)
    /\ k <= Len(clients) => SendFails(k) \/ SendKills(k)

Broadcast(w) ==
    /\ up
    /\ hpc[w] = "broadcast"
    /\ \E k \in 1..(Len(clients) + 1) :
          LET reached == {Listed(i) : i \in 1..(k - 1)}
              failed == {Listed(i) : i \in {k} \cap 1..Len(clients)}
          IN  /\ StopsAt(k)
              /\ inbox' = [c \in Conns |->
                    IF c \in reached /\ link[c] = "open"
                    THEN [inbox[c] EXCEPT ![hmsg[w][1]] = Append(@, hmsg[w][2])]
                    ELSE inbox[c]]
              /\ \E reset \in SUBSET {c \in reached : link[c] = "gone"} :
                    link' = [c \in Conns |-> IF c \in reset \cup failed
                                             THEN "broken" ELSE link[c]]
              /\ up' = ~ (k <= Len(clients) /\ SendKills(k))
    /\ hpc' = [hpc EXCEPT ![w] = "recv"]
    /\ hmsg' = [hmsg EXCEPT ![w] = None]
    /\ UNCHANGED <<sent, got, table, pool, hsock, clients>>

-----------------------------------------------------------------------------
WorkerStep(w) ==
    \/ Start(w) \/ CallRecv(w) \/ Recv(w) \/ RecvNothing(w) \/ Offline(w)
    \/ Login(w) \/ Quit(w) \/ Broadcast(w)

Next ==
    \/ \E c \in Conns : ClientSend(c) \/ ClientLeaves(c)
    \/ \E c \in Conns : Accept(c)
    \/ \E w \in Workers : WorkerStep(w)

\* The server's threads run; nothing makes a client send, stay or leave.
Fairness ==
    /\ WF_vars(\E c \in Conns : Accept(c))
    /\ \A w \in Workers : WF_vars(WorkerStep(w))

Spec == Init /\ [][Next]_vars
FairSpec == Spec /\ Fairness

-----------------------------------------------------------------------------
(* Properties. *)

Place == {"idle", "recv", "wait", "offline", "login", "quit", "broadcast"}
Messages == Conns \X (Nat \ {0})

\* Every variable keeps its kind of value, and no more is received from a
\* client than it has sent: recv's result, not the size of its buffer, counts.
TypeOK ==
    /\ link \in [Conns -> {"none", "open", "gone", "broken"}]
    /\ sent \in [Conns -> Seq(Kinds \cup {"LOGIN"})]
    /\ inbox \in [Conns -> [Conns -> Seq(Nat \ {0})]]
    /\ up \in BOOLEAN
    /\ got \in [Conns -> Nat]
    /\ accepted \in SUBSET Conns
    /\ table \in [Fds -> Conns \cup {None}]
    /\ cfdOf \in [Conns -> Fds \cup {None}]
    /\ queue \in Seq(Conns)
    /\ hconn \in [Workers -> Conns \cup {None}]
    /\ hpc \in [Workers -> Place]
    /\ hsock \in [Workers -> Conns \cup {None}]
    /\ hmsg \in [Workers -> Messages \cup {None}]
    /\ clients \in Seq(Fds)
    /\ \A c \in Conns : got[c] <= MsgWords * Len(sent[c])

Entries == 1..Len(clients)
Busy(w) == hpc[w] # "idle"

\* The list of clients never holds a number that is closed, nor one number
\* twice: closing and erasing are one critical section (lines 61-70, 99-108).
\* A stale entry would send the room's messages to whoever is given its number.
ListedAreOpen ==
    \A i, j \in Entries :
        /\ table[clients[i]] # None
        /\ clients[i] = clients[j] => i = j

\* Every entry of the list has a handler that still holds its number, and so
\* somebody to erase it: no handler returns and leaves its client behind.
ListedAreServed ==
    \A i \in Entries : \E w \in Workers : Busy(w) /\ Cfd(w) = clients[i]

\* Nobody hears a message twice, or one that was not sent, whatever pieces the
\* stream is received in and however many handlers read one connection.
AtMostOnce ==
    \A c, s \in Conns : \A i, j \in 1..Len(inbox[c][s]) :
        /\ inbox[c][s][i] <= Len(sent[s])
        /\ inbox[c][s][i] = inbox[c][s][j] => i = j

\* No client has sent QUIT.  The project's own client never does.
NobodyQuits ==
    \A c \in Conns : \A i \in 1..Len(sent[c]) : sent[c][i] # "QUIT"

\* As long as nobody quits, the number that a handler holds stays the number of
\* its own client until the handler is done with it, and no other handler
\* reads from that client (the QUIT branch, lines 97-112, goes on after close).
OwnDescriptor ==
    NobodyQuits =>
        \A w \in Workers :
            /\ Busy(w) => Behind(w) = hconn[w]
            /\ hpc[w] = "wait" => hsock[w] = hconn[w]

\* As long as nobody quits, everybody hears the messages of one sender in the
\* order they were sent, although the handlers broadcast concurrently.
HeardInOrder ==
    NobodyQuits =>
        \A c, s \in Conns : \A i, j \in 1..Len(inbox[c][s]) :
            i < j => inbox[c][s][i] < inbox[c][s][j]

\* Only who has logged in hears the room: whichever handler has listed a number,
\* and whomever it was given to before, the connection behind it is one whose
\* LOGIN has been received, and nobody else is sent a message (lines 78-88).
MembersOnly ==
    /\ \A i \in Entries : table[clients[i]] # None => got[table[clients[i]]] # 0
    /\ \A c, s \in Conns : inbox[c][s] # <<>> => got[c] # 0

\* A client that has left is taken off the list, if the server lives: its
\* handler gets to the end of what was sent and finds the entry.
LeftAndListed(c) ==
    link[c] \in {"gone", "broken"} /\ \E i \in Entries : table[clients[i]] = c
Forgotten == \A c \in Conns : LeftAndListed(c) ~> (~ up \/ ~ LeftAndListed(c))

\* What the comment at line 80 says of a broadcast, "to all clients": every
\* client in the list that is still there is sent the message.  It fails:
\* broadCast returns at the first send that fails (line 128).
BroadcastReachesAll ==
    [][\A w \in Workers : Broadcast(w) =>
          \A i \in Entries :
              (table[clients[i]] # None /\ link[table[clients[i]]] = "open")
                  => inbox'[table[clients[i]]] # inbox[table[clients[i]]]]_vars

=============================================================================
