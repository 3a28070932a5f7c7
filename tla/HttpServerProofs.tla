-------------------------- MODULE HttpServerProofs --------------------------
(***************************************************************************)
(* Proofs about HttpServer, for any connections, descriptors and streams.  *)
(***************************************************************************)
EXTENDS HttpServer, FiniteSetTheorems, SequenceTheorems, WellFoundedInduction, TLAPS

-----------------------------------------------------------------------------
(* The least element of a set of natural numbers: the one below which no     *)
(* other of its initial segments is, where finite sets are well founded.     *)

LEMMA LeastNatural ==
    ASSUME NEW S \in SUBSET Nat, S # {}
    PROVE  \E m \in S : \A n \in S : m <= n
<1>1. PICK b \in S : TRUE
  OBVIOUS
<1> DEFINE below == {0..n : n \in {k \in S : k <= b}}
           order == StrictSubsetOrdering(0..b)
<1>2. /\ below \subseteq FiniteSubsetsOf(0..b)
      /\ below # {}
  <2>1. IsFiniteSet(0..b)
    BY FS_Interval
  <2>2. FiniteSubsetsOf(0..b) = SUBSET (0..b)
    BY <2>1, FS_FiniteSubsetsOfFinite
  <2> QED
    BY <2>2
<1>3. IsWellFoundedOn(order, FiniteSubsetsOf(0..b))
  BY FS_StrictSubsetOrderingWellFounded
<1> HIDE DEF below, order
<1>4. PICK t \in below : \A u \in below : ~ (<<u, t>> \in order)
  BY <1>2, <1>3, WFMin
<1>5. PICK m \in S : m <= b /\ t = 0..m
  BY <1>4 DEF below
<1>6. ASSUME NEW n \in S, n < m
      PROVE  FALSE
  <2>1. /\ 0..n \in below
        /\ 0..n \subseteq 0..m /\ m \in 0..m /\ m \notin 0..n
        /\ 0..n \subseteq 0..b /\ 0..m \subseteq 0..b
    BY <1>5, <1>6 DEF below
  <2> QED
    BY <1>4, <1>5, <2>1 DEF order, StrictSubsetOrdering
<1> QED
  BY <1>6

LEMMA MinOfNaturals ==
    ASSUME NEW S \in SUBSET Nat, S # {}
    PROVE  Min(S) \in S /\ \A n \in S : Min(S) <= n
<1>1. \E m \in S : \A n \in S : m <= n
  BY LeastNatural
<1> QED
  BY <1>1 DEF Min

-----------------------------------------------------------------------------
(* Types, and whose descriptor is whose. *)

Streams == UNION {Requests[c] : c \in Connections}
Pieces == UNION {{r[i] : i \in DOMAIN r} : r \in Streams}

Shape ==
    /\ TypeOK
    /\ request \in [Connections -> Streams \cup {None}]
    /\ sent \in [Connections -> Nat]
    /\ taken \in [Connections -> Nat]
    /\ request_buf \in [Connections -> Seq(Pieces)]

\* A descriptor belongs to one connection and one thread: the thread that has
\* been given its number, or the one that has read it.  A connection that has
\* been made has a thread, while the program runs, and something to say; and
\* nothing of a body is there before the header has been read.
Owned(c) ==
    /\ pc[c] = "created" => argv[c] \in Fds /\ table[argv[c]] = c
    /\ Running(c) => sock[c] \in Fds /\ table[sock[c]] = c
    /\ \A f \in Fds : table[f] = c =>
          (Running(c) /\ sock[c] = f) \/ (pc[c] = "created" /\ argv[c] = f)
    /\ link[c] = "none" <=> request[c] = None
    /\ up => (link[c] = "none" <=> pc[c] = "none")
    /\ pc[c] \notin {"body", "answer", "closing", "done"} => request_buf[c] = <<>>

HttpInv == Shape /\ \A c \in Connections : Owned(c)

LEMMA RequestsAreStreams ==
    ASSUME NEW c \in Connections, NEW r \in Requests[c]
    PROVE  r \in Streams /\ r \in Seq(Pieces) /\ r # None
<1>1. r \in Streams /\ r # None /\ r \in Seq({r[i] : i \in DOMAIN r})
  BY HttpAssumption DEF Streams
<1>2. {r[i] : i \in DOMAIN r} \subseteq Pieces
  BY <1>1 DEF Pieces
<1> QED
  BY <1>1, <1>2

\* What the thread of a connection sees of its stream.
LEMMA UnreadStream ==
    ASSUME HttpInv, NEW c \in Connections, Running(c), up
    PROVE  /\ Peer(c) = c /\ sock[c] \in Fds
           /\ link[c] # "none"
           /\ request[c] \in Requests[c] /\ request[c] \in Seq(Pieces)
           /\ taken[c] \in 0..sent[c] /\ sent[c] \in 0..Len(request[c])
           /\ Unread(c) = SubSeq(request[c], taken[c] + 1, sent[c])
           /\ Unread(c) \in Seq(Pieces) /\ Len(Unread(c)) = sent[c] - taken[c]
           /\ \A i \in 1..Len(Unread(c)) : Unread(c)[i] = request[c][taken[c] + i]
<1>1. Peer(c) = c /\ sock[c] \in Fds /\ request[c] # None /\ link[c] # "none"
  BY DEF HttpInv, Owned, Peer, Running
<1>2. request[c] \in Requests[c] /\ taken[c] \in 0..sent[c]
      /\ sent[c] \in 0..Len(request[c])
  BY <1>1 DEF HttpInv, Shape, TypeOK
<1>3. request[c] \in Seq(Pieces)
  BY <1>2, RequestsAreStreams
<1>4. Unread(c) = SubSeq(request[c], taken[c] + 1, sent[c])
  BY <1>1 DEF Unread
<1>5. ASSUME NEW r \in Seq(Pieces), NEW n \in Nat, NEW m \in 0..Len(r), n <= m
      PROVE  /\ SubSeq(r, n + 1, m) \in Seq(Pieces)
             /\ Len(SubSeq(r, n + 1, m)) = m - n
             /\ \A i \in 1..Len(SubSeq(r, n + 1, m)) : SubSeq(r, n + 1, m)[i] = r[n + i]
  BY <1>5
<1>6. taken[c] \in Nat /\ taken[c] <= sent[c]
  BY <1>2
<1>7. /\ SubSeq(request[c], taken[c] + 1, sent[c]) \in Seq(Pieces)
      /\ Len(SubSeq(request[c], taken[c] + 1, sent[c])) = sent[c] - taken[c]
      /\ \A i \in 1..Len(SubSeq(request[c], taken[c] + 1, sent[c])) :
            SubSeq(request[c], taken[c] + 1, sent[c])[i] = request[c][taken[c] + i]
  BY <1>2, <1>3, <1>5, <1>6
<1>8. /\ Unread(c) \in Seq(Pieces)
      /\ Len(Unread(c)) = sent[c] - taken[c]
      /\ \A i \in 1..Len(Unread(c)) : Unread(c)[i] = request[c][taken[c] + i]
  BY <1>4, <1>7
<1> QED
  BY <1>1, <1>2, <1>3, <1>4, <1>8

\* A line that is returned is part of what is there, and one that is whole ends
\* behind a character that ends lines.
LEMMA LineIsThere ==
    ASSUME NEW s \in Seq(Pieces), NEW l \in WholeLines(s)
    PROVE  /\ l.kind = "whole"
           /\ l.used \in 1..Len(s) /\ s[l.used] \in {"CR", "LF"}
           /\ l.text = <<>> => s[1] = "CR" /\ Len(s) > 1 /\ l.used = Consumed(s, 1)
<1>1. PICK i \in FirstBreak(s) :
          /\ s[i] = "LF" \/ i < Len(s)
          /\ l = [kind |-> "whole",
                  text |-> SubSeq(s, 1, IF s[i] = "LF" THEN i ELSE i - 1),
                  used |-> Consumed(s, i)]
  BY DEF WholeLines
<1>2. i \in 1..Len(s) /\ s[i] \in {"CR", "LF"}
  BY DEF FirstBreak
<1>3. l.used \in 1..Len(s) /\ s[l.used] \in {"CR", "LF"}
  BY <1>1, <1>2 DEF Consumed
<1>4. ASSUME l.text = <<>>
      PROVE  s[1] = "CR" /\ Len(s) > 1 /\ l.used = Consumed(s, 1)
  <2>1. s[i] # "LF"
    <3>1. SUFFICES ASSUME s[i] = "LF" PROVE FALSE
      OBVIOUS
    <3>2. SubSeq(s, 1, i) = <<>>
      BY <1>1, <1>4, <3>1
    <3> QED
      BY <1>2, <3>2
  <2>2. SubSeq(s, 1, i - 1) = <<>>
    BY <1>1, <1>4, <2>1
  <2>3. i = 1
    BY <1>2, <2>2
  <2> QED
    BY <1>1, <1>2, <2>1, <2>3
<1> QED
  BY <1>1, <1>3, <1>4

LEMMA LineFits ==
    ASSUME HttpInv, NEW c \in Connections, Running(c), up, NEW l \in get_line(c)
    PROVE  /\ l.used \in 0..Len(Unread(c))
           /\ \/ l \in WholeLines(Unread(c))
              \/ l.kind = "eof" /\ link[c] = "ended"
              \/ l.kind = "error" /\ link[c] = "reset"
<1>1. Unread(c) \in Seq(Pieces) /\ Peer(c) = c /\ Len(Unread(c)) \in Nat
  BY UnreadStream
<1>2. CASE l \in WholeLines(Unread(c))
  BY <1>1, <1>2, LineIsThere
<1>3. CASE l.kind = "eof" /\ link[c] = "ended" /\ l.used = Len(Unread(c))
  BY <1>1, <1>3
<1>4. CASE l.kind = "error" /\ link[c] = "reset" /\ l.used = 0
  BY <1>1, <1>4
<1> QED
  BY <1>1, <1>2, <1>3, <1>4 DEF get_line

LEMMA NoneApart == None \notin Connections /\ None \notin Fds
BY HttpAssumption

LEMMA HttpInit == Init => HttpInv
BY NoneApart
DEF Init, HttpInv, Shape, TypeOK, Owned, Running, Service!Answers

\* Steps that receive n pieces, and touch neither descriptors nor bodies.
LEMMA ReceiveKeeps ==
    ASSUME HttpInv, NEW c \in Connections, Running(c), up,
           NEW n \in 0..Len(Unread(c)), Receive(c, n)
    PROVE  /\ taken' = [taken EXCEPT ![c] = @ + n]
           /\ taken' \in [Connections -> Nat]
           /\ \A d \in Connections : taken'[d] \in 0..sent[d]
<1>1. Peer(c) = c /\ taken[c] \in 0..sent[c] /\ Len(Unread(c)) = sent[c] - taken[c]
      /\ sent[c] \in Nat
  BY UnreadStream
<1>2. taken' = [taken EXCEPT ![c] = @ + n]
  BY <1>1 DEF Receive
<1>3. taken \in [Connections -> Nat] /\ \A d \in Connections : taken[d] \in 0..sent[d]
  BY DEF HttpInv, Shape, TypeOK
<1> QED
  BY <1>1, <1>2, <1>3

\* Steps of a running thread that lead to another place of it.
LEMMA ThreadMoves ==
    ASSUME HttpInv, NEW c \in Connections, Running(c), up,
           NEW p \in {"header", "postHeader", "body", "answer", "closing"},
           pc' = [pc EXCEPT ![c] = p],
           UNCHANGED <<up, link, request, table, argv, sock>>,
           \A d \in Connections : d # c => request_buf'[d] = request_buf[d],
           p \in {"header", "postHeader"} => request_buf'[c] = <<>>
    PROVE  \A d \in Connections : Owned(d)'
<1> SUFFICES ASSUME NEW d \in Connections PROVE Owned(d)'
  OBVIOUS
<1>1. pc \in [Connections -> {"none", "created", "request", "header", "postHeader",
                              "body", "answer", "closing", "done", "gone"}]
  BY DEF HttpInv, Shape, TypeOK
<1>2. Owned(c) /\ Owned(d)
  BY DEF HttpInv
<1> QED
  BY <1>1, <1>2 DEF Owned, Running

LEMMA AcceptKeeps ==
    ASSUME HttpInv, NEW c \in Connections, NEW r \in Requests[c], Accept(c, r)
    PROVE  HttpInv'
<1> DEFINE f == Min(Free)
<1>1. f \in Fds /\ table[f] = None
  BY MinOfNaturals, HttpAssumption DEF Accept, Free
<1> HIDE DEF f
<1>2. /\ up /\ link[c] = "none" /\ request[c] = None /\ pc[c] = "none"
      /\ sent[c] = 0 /\ request_buf[c] = <<>>
  BY DEF Accept, HttpInv, Owned, Shape, TypeOK
<1>3. /\ link' = [link EXCEPT ![c] = "open"]
      /\ request' = [request EXCEPT ![c] = r]
      /\ table' = [table EXCEPT ![f] = c]
      /\ argv' = [argv EXCEPT ![c] = f]
      /\ pc' = [pc EXCEPT ![c] = "created"]
      /\ UNCHANGED <<up, sent, reply, taken, sock, line, countlen, request_buf, answer>>
  BY DEF Accept, f
<1>4. r \in Streams /\ r \in Seq(Pieces) /\ r # None /\ c # None
  BY RequestsAreStreams, HttpAssumption
<1>5. Shape'
  BY <1>1, <1>2, <1>3, <1>4 DEF HttpInv, Shape, TypeOK
<1>6. ASSUME NEW d \in Connections PROVE Owned(d)'
  <2>1. Owned(d)
    BY DEF HttpInv
  <2>2. CASE d = c
    BY <1>1, <1>2, <1>3, <1>4, <2>1, <2>2
    DEF Owned, Running, HttpInv, Shape, TypeOK
  <2>3. CASE d # c
    BY <1>1, <1>2, <1>3, <1>4, <2>1, <2>3, NoneApart
    DEF Owned, Running, HttpInv, Shape, TypeOK
  <2> QED
    BY <2>2, <2>3
<1> QED
  BY <1>5, <1>6 DEF HttpInv

LEMMA MainKeeps ==
    ASSUME HttpInv,
           AcceptFails \/ \E c \in Connections :
               Send(c) \/ \E how \in {"ended", "reset"} : End(c, how)
    PROVE  HttpInv'
<1>1. CASE AcceptFails
  <2>1. Shape'
    <3>1. /\ request_buf' \in [Connections -> Seq(Pieces)]
          /\ taken' \in [Connections -> Nat] /\ countlen' \in [Connections -> 0..2]
          /\ \A d \in Connections :
                taken'[d] = 0 /\ Len(request_buf'[d]) <= countlen'[d]
      BY <1>1 DEF AcceptFails
    <3>2. /\ UNCHANGED <<link, request, sent, reply>> /\ up' \in BOOLEAN
          /\ table' \in [Fds -> Connections \cup {None}]
          /\ pc' = [c \in Connections |-> "gone"]
          /\ argv' \in [Connections -> Fds \cup {None}]
          /\ sock' \in [Connections -> Fds \cup {None}]
          /\ line' \in [Connections -> BOOLEAN]
          /\ answer' \in [Connections -> Service!Answers \cup {None}]
      BY <1>1 DEF AcceptFails, link_vars
    <3> QED
      BY <3>1, <3>2 DEF HttpInv, Shape, TypeOK
  <2>2. ASSUME NEW c \in Connections PROVE Owned(c)'
    <3>1. /\ pc'[c] = "gone" /\ ~ up' /\ request_buf'[c] = <<>>
          /\ \A f \in Fds : table'[f] # c
          /\ UNCHANGED <<link, request>>
      BY <1>1, HttpAssumption DEF AcceptFails, link_vars
    <3>2. Owned(c)
      BY DEF HttpInv
    <3> QED
      BY <3>1, <3>2 DEF Owned, Running
  <2> QED
    BY <2>1, <2>2 DEF HttpInv
<1>2. ASSUME NEW c \in Connections, Send(c) PROVE HttpInv'
  <2>1. link[c] # "none" /\ request[c] # None
    BY <1>2 DEF Send, HttpInv, Owned
  <2>2. /\ request[c] \in Requests[c] /\ sent[c] \in 0..Len(request[c])
        /\ taken[c] \in 0..sent[c] /\ Len(request[c]) \in Nat
    BY <2>1, RequestsAreStreams DEF HttpInv, Shape, TypeOK
  <2>3. Shape'
    BY <1>2, <2>1, <2>2 DEF Send, HttpInv, Shape, TypeOK, thread_vars
  <2>4. \A d \in Connections : Owned(d)'
    BY <1>2 DEF Send, HttpInv, Owned, Running, thread_vars
  <2> QED
    BY <2>3, <2>4 DEF HttpInv
<1>3. ASSUME NEW c \in Connections, NEW how \in {"ended", "reset"}, End(c, how)
      PROVE  HttpInv'
  <2>1. Shape'
    BY <1>3 DEF End, HttpInv, Shape, TypeOK, thread_vars
  <2>2. \A d \in Connections : Owned(d)'
    BY <1>3 DEF End, HttpInv, Shape, TypeOK, Owned, Running, thread_vars
  <2> QED
    BY <2>1, <2>2 DEF HttpInv
<1> QED
  BY <1>1, <1>2, <1>3

-----------------------------------------------------------------------------
(* The thread. *)

LEMMA BeginKeeps ==
    ASSUME HttpInv, NEW c \in Connections, Begin(c)
    PROVE  HttpInv'
<1>1. /\ up /\ pc[c] = "created" /\ pc' = [pc EXCEPT ![c] = "request"]
      /\ sock' = [sock EXCEPT ![c] = argv[c]]
      /\ UNCHANGED <<up, link, request, sent, reply, taken, table, argv, line,
                     countlen, request_buf, answer>>
  BY DEF Begin, Thread, Goto, link_vars
<1>2. argv[c] \in Fds /\ table[argv[c]] = c
  BY <1>1 DEF HttpInv, Owned
<1>3. Shape'
  BY <1>1, <1>2 DEF HttpInv, Shape, TypeOK
<1>4. ASSUME NEW d \in Connections PROVE Owned(d)'
  <2>1. Owned(d) /\ pc \in [Connections -> {"none", "created", "request", "header",
            "postHeader", "body", "answer", "closing", "done", "gone"}]
        /\ sock \in [Connections -> Fds \cup {None}]
    BY DEF HttpInv, Shape, TypeOK
  <2> QED
    BY <1>1, <1>2, <2>1 DEF Owned, Running
<1> QED
  BY <1>3, <1>4 DEF HttpInv

LEMMA ReadRequestKeeps ==
    ASSUME HttpInv, NEW c \in Connections, ReadRequest(c)
    PROVE  HttpInv'
<1>1. /\ up /\ pc[c] = "request" /\ Running(c)
      /\ UNCHANGED <<up, link, request, sent, reply, table, argv, sock, line,
                     countlen, request_buf>>
  BY DEF ReadRequest, Thread, Running, link_vars
<1>2. PICK l \in get_line(c) :
          /\ Receive(c, l.used)
          /\ IF l.kind = "error" \/ l.text = <<>>
             THEN Goto(c, "closing") /\ UNCHANGED answer
             ELSE /\ Goto(c, AfterRequestLine(l.text[1]))
                  /\ answer' = [answer EXCEPT ![c] = AnswerTo(l.text[1])]
  BY DEF ReadRequest
<1>3. l.used \in 0..Len(Unread(c))
  BY <1>1, LineFits
<1>4. /\ taken' \in [Connections -> Nat]
      /\ \A d \in Connections : taken'[d] \in 0..sent[d]
  BY <1>1, <1>2, <1>3, ReceiveKeeps
<1>5. PICK p \in {"header", "postHeader", "closing"} : pc' = [pc EXCEPT ![c] = p]
  BY <1>2 DEF Goto, AfterRequestLine
<1>6. answer' \in [Connections -> Service!Answers \cup {None}]
  <2>1. \A m : AnswerTo(m) \in Service!Answers
    BY DEF AnswerTo, Service!Answers
  <2>2. answer \in [Connections -> Service!Answers \cup {None}]
    BY DEF HttpInv, Shape, TypeOK
  <2> QED
    BY <1>2, <2>1, <2>2
<1>7. Shape'
  BY <1>1, <1>4, <1>5, <1>6 DEF HttpInv, Shape, TypeOK
<1>8. request_buf[c] = <<>>
  BY <1>1 DEF HttpInv, Owned
<1>9. \A d \in Connections : Owned(d)'
  BY <1>1, <1>5, <1>8, ThreadMoves
<1> QED
  BY <1>7, <1>9 DEF HttpInv

LEMMA ReadHeaderKeeps ==
    ASSUME HttpInv, NEW c \in Connections, ReadHeader(c)
    PROVE  HttpInv'
<1>1. /\ up /\ pc[c] = "header" /\ Running(c)
      /\ UNCHANGED <<up, link, request, sent, reply, table, argv, sock, line,
                     countlen, request_buf, answer>>
  BY DEF ReadHeader, Thread, Running, link_vars, thread_vars
<1>2. PICK l \in get_line(c) :
          /\ Receive(c, l.used)
          /\ IF HeaderEnds(l) THEN Goto(c, "answer") ELSE UNCHANGED pc
  BY DEF ReadHeader
<1>3. l.used \in 0..Len(Unread(c))
  BY <1>1, LineFits
<1>4. /\ taken' \in [Connections -> Nat]
      /\ \A d \in Connections : taken'[d] \in 0..sent[d]
  BY <1>1, <1>2, <1>3, ReceiveKeeps
<1>5. PICK p \in {"header", "answer"} : pc' = [pc EXCEPT ![c] = p]
  BY <1>1, <1>2 DEF Goto, HttpInv, Shape, TypeOK
<1>6. Shape'
  BY <1>1, <1>4, <1>5 DEF HttpInv, Shape, TypeOK
<1>7. request_buf[c] = <<>>
  BY <1>1 DEF HttpInv, Owned
<1>8. \A d \in Connections : Owned(d)'
  BY <1>1, <1>5, <1>7, ThreadMoves
<1> QED
  BY <1>6, <1>8 DEF HttpInv

LEMMA ReadPostHeaderKeeps ==
    ASSUME HttpInv, NEW c \in Connections, ReadPostHeader(c)
    PROVE  HttpInv'
<1>1. /\ up /\ pc[c] = "postHeader" /\ Running(c)
      /\ UNCHANGED <<up, link, request, sent, reply, table, argv, sock, request_buf,
                     answer>>
  BY DEF ReadPostHeader, Thread, Running, link_vars
<1>2. PICK l \in get_line(c) :
          LET filled == l.text # <<>> \/ (l.kind = "eof" /\ line[c])
          IN  /\ Receive(c, l.used)
              /\ IF l.kind = "error" THEN Goto(c, "closing")
                 ELSE IF filled THEN UNCHANGED pc
                 ELSE Goto(c, "body")
              /\ line' = [line EXCEPT ![c] = filled]
              /\ countlen' = [countlen EXCEPT ![c] = LengthIn(l.text, @)]
  BY DEF ReadPostHeader
<1>3. l.used \in 0..Len(Unread(c))
  BY <1>1, LineFits
<1>4. /\ taken' \in [Connections -> Nat]
      /\ \A d \in Connections : taken'[d] \in 0..sent[d]
  BY <1>1, <1>2, <1>3, ReceiveKeeps
<1>5. PICK p \in {"postHeader", "body", "closing"} : pc' = [pc EXCEPT ![c] = p]
  BY <1>1, <1>2 DEF Goto, HttpInv, Shape, TypeOK
<1>6. /\ line' \in [Connections -> BOOLEAN]
      /\ countlen' \in [Connections -> 0..2]
      /\ \A d \in Connections : d # c => countlen'[d] = countlen[d]
  <2>1. LengthIn(l.text, countlen[c]) \in 0..2
    BY DEF LengthIn, HttpInv, Shape, TypeOK
  <2> QED
    BY <1>2, <2>1 DEF HttpInv, Shape, TypeOK
<1>7. request_buf[c] = <<>>
  BY <1>1 DEF HttpInv, Owned
<1>8. Shape'
  <2>1. ASSUME NEW d \in Connections PROVE Len(request_buf[d]) <= countlen'[d]
    <3>1. countlen'[d] \in 0..2
      BY <1>6
    <3>2. d # c => countlen'[d] = countlen[d] /\ Len(request_buf[d]) <= countlen[d]
      BY <1>6 DEF HttpInv, Shape, TypeOK
    <3>3. d = c => Len(request_buf[d]) = 0
      BY <1>7
    <3> QED
      BY <3>1, <3>2, <3>3
  <2> QED
    BY <1>1, <1>4, <1>5, <1>6, <2>1 DEF HttpInv, Shape, TypeOK
<1>9. \A d \in Connections : Owned(d)'
  BY <1>1, <1>5, <1>7, ThreadMoves
<1> QED
  BY <1>8, <1>9 DEF HttpInv

LEMMA ReadBodyKeeps ==
    ASSUME HttpInv, NEW c \in Connections, ReadBody(c)
    PROVE  HttpInv'
<1>1. /\ up /\ pc[c] = "body" /\ Running(c) /\ pc' = pc
      /\ UNCHANGED <<up, link, request, sent, reply, table, argv, sock, line,
                     countlen, answer>>
  BY DEF ReadBody, Thread, Running, link_vars
<1>2. PICK n \in Portions(c) :
          /\ request_buf' = [request_buf EXCEPT ![c] = @ \o SubSeq(Unread(c), 1, n)]
          /\ Receive(c, n)
  BY DEF ReadBody
<1>3. /\ Unread(c) \in Seq(Pieces)
      /\ request_buf[c] \in Seq(Pieces) /\ countlen[c] \in 0..2
  BY <1>1, UnreadStream DEF HttpInv, Shape, TypeOK
<1>4. n \in 1..Len(Unread(c)) /\ Len(request_buf[c]) + n <= countlen[c]
  BY <1>2, <1>3 DEF Portions, Missing
<1>5. /\ taken' \in [Connections -> Nat]
      /\ \A d \in Connections : taken'[d] \in 0..sent[d]
  BY <1>1, <1>2, <1>3, <1>4, ReceiveKeeps
<1>6. /\ request_buf[c] \o SubSeq(Unread(c), 1, n) \in Seq(Pieces)
      /\ Len(request_buf[c] \o SubSeq(Unread(c), 1, n)) <= countlen[c]
  BY <1>3, <1>4
<1>7. /\ request_buf' \in [Connections -> Seq(Pieces)]
      /\ \A d \in Connections : d # c => request_buf'[d] = request_buf[d]
      /\ \A d \in Connections : Len(request_buf'[d]) <= countlen[d]
  BY <1>2, <1>6 DEF HttpInv, Shape, TypeOK
<1>8. Shape'
  BY <1>1, <1>5, <1>7 DEF HttpInv, Shape, TypeOK
<1>9. \A d \in Connections : Owned(d)'
  <2>1. pc' = [pc EXCEPT ![c] = "body"]
    BY <1>1 DEF HttpInv, Shape, TypeOK
  <2> QED
    BY <1>1, <1>7, <2>1, ThreadMoves
<1> QED
  BY <1>8, <1>9 DEF HttpInv

LEMMA AnswerKeeps ==
    ASSUME HttpInv, NEW c \in Connections, BodyCut(c) \/ BodyRead(c) \/ Respond(c)
    PROVE  HttpInv'
<1>1. /\ up /\ Running(c) /\ Peer(c) = c
      /\ UNCHANGED <<up, link, request, sent, taken, table, argv, sock, line,
                     countlen, request_buf>>
  <2>1. up /\ Running(c)
    BY DEF BodyCut, BodyRead, Respond, Thread, Running
  <2> QED
    BY <2>1, UnreadStream DEF BodyCut, BodyRead, Respond, link_vars, thread_vars
<1>2. PICK p \in {"answer", "closing"} : pc' = [pc EXCEPT ![c] = p]
  BY DEF BodyCut, BodyRead, Respond, Goto
<1>3. answer' \in [Connections -> Service!Answers \cup {None}]
  <2>1. parse_and_process(request_buf[c]) \in Service!Answers
    BY DEF parse_and_process, Service!Answers
  <2> QED
    BY <2>1 DEF BodyCut, BodyRead, Respond, thread_vars, HttpInv, Shape, TypeOK
<1>4. reply' \in [Connections -> Service!Replies \cup {"closed", None}]
  <2>1. reply \in [Connections -> Service!Replies \cup {"closed", None}]
    BY DEF HttpInv, Shape, TypeOK
  <2>2. CASE UNCHANGED reply
    BY <2>1, <2>2
  <2>3. CASE reply' = [reply EXCEPT ![Peer(c)] = answer[c]]
    <3>1. answer[c] \in Service!Answers \cup {None}
      BY DEF HttpInv, Shape, TypeOK
    <3> QED
      BY <1>1, <2>1, <2>3, <3>1 DEF Service!Replies
  <2>4. CASE /\ answer[c] \in Service!Pages
             /\ reply' = [reply EXCEPT ![Peer(c)] = Service!HeaderOf(answer[c])]
    <3>1. Service!HeaderOf(answer[c]) \in Service!Replies
      BY <2>4 DEF Service!Replies
    <3> QED
      BY <1>1, <2>1, <2>4, <3>1
  <2> QED
    BY <2>2, <2>3, <2>4 DEF BodyCut, BodyRead, Respond
<1>5. Shape'
  BY <1>1, <1>2, <1>3, <1>4 DEF HttpInv, Shape, TypeOK
<1>6. \A d \in Connections : Owned(d)'
  BY <1>1, <1>2, ThreadMoves
<1> QED
  BY <1>5, <1>6 DEF HttpInv

LEMMA CloseKeeps ==
    ASSUME HttpInv, NEW c \in Connections, Close(c)
    PROVE  HttpInv'
<1>1. /\ up /\ pc[c] = "closing" /\ Running(c) /\ pc' = [pc EXCEPT ![c] = "done"]
      /\ table' = [table EXCEPT ![sock[c]] = None]
      /\ UNCHANGED <<up, link, request, sent, taken, argv, sock, line, countlen,
                     request_buf, answer>>
  BY DEF Close, Thread, Goto, Running, link_vars, thread_vars
<1>2. Peer(c) = c /\ sock[c] \in Fds /\ table[sock[c]] = c
  BY <1>1, UnreadStream DEF Peer
<1>3. reply' \in [Connections -> Service!Replies \cup {"closed", None}]
  BY <1>2 DEF Close, HttpInv, Shape, TypeOK
<1>4. Shape'
  BY <1>1, <1>2, <1>3 DEF HttpInv, Shape, TypeOK
<1>5. ASSUME NEW d \in Connections PROVE Owned(d)'
  <2>1. /\ Owned(d) /\ Owned(c) /\ None \notin Connections
        /\ pc \in [Connections -> {"none", "created", "request", "header",
               "postHeader", "body", "answer", "closing", "done", "gone"}]
        /\ table \in [Fds -> Connections \cup {None}]
    BY HttpAssumption DEF HttpInv, Shape, TypeOK
  <2>2. CASE d = c
    BY <1>1, <1>2, <2>1, <2>2 DEF Owned, Running
  <2>3. CASE d # c
    BY <1>1, <1>2, <2>1, <2>3 DEF Owned, Running
  <2> QED
    BY <2>2, <2>3
<1> QED
  BY <1>4, <1>5 DEF HttpInv

LEMMA HttpNext == HttpInv /\ [Next]_vars => HttpInv'
<1> SUFFICES ASSUME HttpInv, [Next]_vars PROVE HttpInv'
  OBVIOUS
<1>1. CASE UNCHANGED vars
  BY <1>1 DEF HttpInv, Shape, TypeOK, Owned, Running, vars, link_vars, thread_vars
<1>2. ASSUME NEW c \in Connections, msg(c) PROVE HttpInv'
  BY <1>2, BeginKeeps, ReadRequestKeeps, ReadHeaderKeeps, ReadPostHeaderKeeps,
     ReadBodyKeeps, AnswerKeeps, CloseKeeps
  DEF msg
<1> QED
  BY <1>1, <1>2, AcceptKeeps, MainKeeps DEF Next

\* Every variable keeps its kind of value, and no body is longer than announced.
THEOREM TypeCorrect == Spec => []TypeOK
<1>1. HttpInv => TypeOK
  BY DEF HttpInv, Shape
<1> QED
  BY <1>1, HttpInit, HttpNext, PTL DEF Spec

\* A thread uses the descriptor of its own connection, from its first read to
\* its close, and every open descriptor has a thread: for any number of threads.
THEOREM OwnSocketOnly == Spec => []OwnSocket
<1>1. HttpInv => OwnSocket
  BY NoneApart DEF HttpInv, Shape, TypeOK, Owned, OwnSocket, Peer
<1> QED
  BY <1>1, HttpInit, HttpNext, PTL DEF Spec

-----------------------------------------------------------------------------
(* The header is read before anything is sent. *)

\* Lines that begin with '\r' and go on are the blank ones: the streams of
\* clients that end a line with "\r\n", at least before and in a blank line.
BlanksAreBlank ==
    \A c \in Connections : \A r \in Requests[c] : \A i \in 1..(Len(r) - 1) :
        r[i] = "CR" /\ (i = 1 \/ r[i - 1] \in {"CR", "LF"}) =>
            i + 1 \in Service!Blanks(r)

\* While its client is there, a thread is at the beginning of the stream, then
\* at the beginning of a line, and behind the header once it has left the loops
\* over it.
AtLine(c) ==
    /\ link[c] = "none" => reply[c] = None /\ taken[c] = 0
    /\ up /\ link[c] = "open" =>
          /\ pc[c] \in {"created", "request"} => taken[c] = 0
          /\ pc[c] \in {"header", "postHeader"} =>
                taken[c] # 0 /\ request[c][taken[c]] \in {"CR", "LF"}
          /\ pc[c] \in {"body", "answer", "closing", "done"} \/ reply[c] # None =>
                taken[c] >= Service!HeadLength(request[c])

HeaderInv == HttpInv /\ \A c \in Connections : AtLine(c)

\* A blank line, read from the beginning of a line, is the end of the header.
LEMMA BlankLineEndsHeader ==
    ASSUME BlanksAreBlank, HttpInv, NEW c \in Connections, Running(c), up,
           taken[c] = 0 \/ request[c][taken[c]] \in {"CR", "LF"},
           NEW l \in WholeLines(Unread(c)), l.text = <<>>
    PROVE  /\ taken[c] # 0
           /\ taken[c] + l.used >= Service!HeadLength(request[c])
<1> DEFINE r == request[c]
           t == taken[c]
<1>1. /\ r \in Requests[c] /\ r \in Seq(Pieces)
      /\ t \in 0..sent[c] /\ sent[c] \in 0..Len(r)
      /\ Unread(c) \in Seq(Pieces) /\ Len(Unread(c)) = sent[c] - t
      /\ \A i \in 1..Len(Unread(c)) : Unread(c)[i] = r[t + i]
  BY UnreadStream
<1> HIDE DEF r, t
<1>2. Unread(c)[1] = "CR" /\ Len(Unread(c)) > 1 /\ l.used = Consumed(Unread(c), 1)
  BY <1>1, LineIsThere
<1>3. r[t + 1] = "CR" /\ r[t + 2] = Unread(c)[2] /\ t + 1 \in 1..(Len(r) - 1)
  BY <1>1, <1>2
<1>4. t = 0 \/ r[t] \in {"CR", "LF"}
  BY DEF r, t
<1>5. t + 2 \in Service!Blanks(r)
  BY <1>1, <1>3, <1>4 DEF BlanksAreBlank
<1>6. t # 0 /\ r[t + 2] = "LF"
  <2> DEFINE blank == <<"CR", "LF", "CR", "LF">>
  <2>1. blank[4] = "LF"
    OBVIOUS
  <2>2. t + 2 \in 4..Len(r) /\ SubSeq(r, t - 1, t + 2) = blank
    BY <1>1, <1>5 DEF Service!Blanks
  <2> HIDE DEF blank
  <2>3. SubSeq(r, t - 1, t + 2)[4] = r[t + 2]
    BY <1>1, <2>2
  <2>4. r[t + 2] = "LF"
    BY <2>1, <2>2, <2>3
  <2> QED
    BY <1>1, <2>2, <2>4
<1>7. l.used = 2
  <2>1. Unread(c)[2] = "LF" /\ 1 + 1 = 2
    BY <1>3, <1>6
  <2> QED
    BY <1>2, <2>1 DEF Consumed
<1>8. Service!HeadLength(r) <= t + 2
  <2>1. Service!Blanks(r) \in SUBSET Nat
    BY DEF Service!Blanks
  <2>2. Service!HeadLength(r) = Min(Service!Blanks(r))
    BY <1>5 DEF Service!HeadLength, Service!WellFormed, Service!Min, Min
  <2> QED
    BY <1>5, <2>1, <2>2, MinOfNaturals
<1> QED
  BY <1>6, <1>7, <1>8 DEF r, t

LEMMA HeadLengthType ==
    ASSUME NEW r \in Seq(Pieces)
    PROVE  Service!HeadLength(r) \in Nat
<1>1. Service!Blanks(r) \in SUBSET Nat
  BY DEF Service!Blanks
<1>2. CASE Service!WellFormed(r)
  <2>1. Service!HeadLength(r) = Min(Service!Blanks(r))
    BY <1>2 DEF Service!HeadLength, Service!Min, Min
  <2> QED
    BY <1>1, <1>2, <2>1, MinOfNaturals DEF Service!WellFormed
<1>3. CASE ~ Service!WellFormed(r)
  BY <1>3 DEF Service!HeadLength
<1> QED
  BY <1>2, <1>3

\* What was behind the header stays behind it when more is received.
LEMMA StaysBehind ==
    ASSUME HttpInv, NEW c \in Connections, Running(c), up,
           NEW n \in 0..Len(Unread(c)), Receive(c, n),
           taken[c] >= Service!HeadLength(request[c])
    PROVE  taken'[c] >= Service!HeadLength(request[c])
<1>1. Service!HeadLength(request[c]) \in Nat /\ Len(Unread(c)) \in Nat
  BY UnreadStream, HeadLengthType
<1>2. taken[c] \in Nat /\ taken'[c] = taken[c] + n
  BY ReceiveKeeps DEF HttpInv, Shape
<1> QED
  BY <1>1, <1>2

\* What a turn of a loop over lines makes of AtLine.
LEMMA LineRead ==
    ASSUME BlanksAreBlank, HttpInv, NEW c \in Connections, AtLine(c), up,
           pc[c] \in {"request", "header", "postHeader"},
           NEW l \in get_line(c), Receive(c, l.used), link[c] = "open"
    PROVE  /\ l.kind = "whole"
           /\ l.text = <<>> => /\ pc[c] # "request"
                               /\ taken'[c] >= Service!HeadLength(request[c])
           /\ taken'[c] # 0 /\ request[c][taken'[c]] \in {"CR", "LF"}
           /\ reply[c] # None => taken'[c] >= Service!HeadLength(request[c])
<1>1. Running(c)
  BY DEF Running
<1>2. l \in WholeLines(Unread(c))
  BY <1>1, LineFits
<1>3. /\ Unread(c) \in Seq(Pieces) /\ taken[c] \in 0..sent[c] /\ sent[c] \in Nat
      /\ \A i \in 1..Len(Unread(c)) : Unread(c)[i] = request[c][taken[c] + i]
  BY <1>1, UnreadStream
<1>4. /\ l.kind = "whole" /\ l.used \in 1..Len(Unread(c))
      /\ Unread(c)[l.used] \in {"CR", "LF"}
  BY <1>2, <1>3, LineIsThere
<1>5. taken'[c] = taken[c] + l.used
  <2>1. l.used \in 0..Len(Unread(c)) /\ c \in DOMAIN taken
    BY <1>1, LineFits DEF HttpInv, Shape
  <2> QED
    BY <1>1, <2>1, ReceiveKeeps
<1>6. taken[c] = 0 \/ request[c][taken[c]] \in {"CR", "LF"}
  BY DEF AtLine
<1>7. ASSUME l.text = <<>>
      PROVE  taken[c] # 0 /\ taken'[c] >= Service!HeadLength(request[c])
  BY <1>1, <1>2, <1>5, <1>6, <1>7, BlankLineEndsHeader
<1>8. pc[c] = "request" => taken[c] = 0
  BY DEF AtLine
<1>9. reply[c] # None => taken'[c] >= Service!HeadLength(request[c])
  BY <1>1, LineFits, StaysBehind DEF AtLine
<1> QED
  BY <1>3, <1>4, <1>5, <1>7, <1>8, <1>9

\* A thread touches nothing that is said of another connection.
LEMMA OthersStay ==
    ASSUME HttpInv, NEW c \in Connections, msg(c)
    PROVE  /\ UNCHANGED <<up, link, request>>
           /\ up /\ link[c] # "none"
           /\ \A d \in Connections : d # c =>
                 taken'[d] = taken[d] /\ reply'[d] = reply[d] /\ pc'[d] = pc[d]
<1>1. /\ UNCHANGED <<up, link, request>>
      /\ up /\ (Running(c) \/ pc[c] = "created")
  BY DEF msg, Begin, ReadRequest, ReadHeader, ReadPostHeader, ReadBody, BodyCut,
         BodyRead, Respond, Close, Thread, Running, link_vars
<1>2. link[c] # "none"
  BY <1>1 DEF HttpInv, Owned, Running
<1>3. ASSUME NEW d \in Connections, d # c
      PROVE  taken'[d] = taken[d] /\ reply'[d] = reply[d] /\ pc'[d] = pc[d]
  <2>1. CASE Begin(c)
    BY <1>3, <2>1 DEF Begin, Goto, HttpInv, Shape, TypeOK
  <2>2. CASE ~ Begin(c)
    <3>1. Peer(c) = c
      <4>1. Running(c)
        BY <2>2
        DEF msg, ReadRequest, ReadHeader, ReadPostHeader, ReadBody, BodyCut,
            BodyRead, Respond, Close, Thread, Running
      <4> QED
        BY <1>1, <4>1, UnreadStream
    <3> QED
      BY <1>3, <2>2, <3>1
      DEF msg, ReadRequest, ReadHeader, ReadPostHeader, ReadBody, BodyCut, BodyRead,
          Respond, Close, Receive, Goto, HttpInv, Shape, TypeOK, thread_vars
  <2> QED
    BY <2>1, <2>2
<1> QED
  BY <1>1, <1>2, <1>3

LEMMA ThreadReadsHeader ==
    ASSUME BlanksAreBlank, HeaderInv, NEW c \in Connections, msg(c), link[c] = "open"
    PROVE  AtLine(c)'
<1>0. /\ HttpInv /\ AtLine(c) /\ up /\ UNCHANGED <<up, link, request>>
      /\ pc \in [Connections -> {"none", "created", "request", "header", "postHeader",
                                 "body", "answer", "closing", "done", "gone"}]
      /\ taken \in [Connections -> Nat]
  BY OthersStay DEF HeaderInv, HttpInv, Shape, TypeOK
<1>1. CASE Begin(c)
  BY <1>0, <1>1 DEF Begin, Thread, Goto, AtLine
<1>2. CASE ReadRequest(c)
  <2>1. PICK l \in get_line(c) :
            /\ Receive(c, l.used)
            /\ IF l.kind = "error" \/ l.text = <<>>
               THEN Goto(c, "closing") /\ UNCHANGED answer
               ELSE /\ Goto(c, AfterRequestLine(l.text[1]))
                    /\ answer' = [answer EXCEPT ![c] = AnswerTo(l.text[1])]
    BY <1>2 DEF ReadRequest
  <2>2. pc[c] = "request" /\ reply' = reply
    BY <1>2 DEF ReadRequest, Thread
  <2>3. /\ l.kind = "whole" /\ l.text # <<>>
        /\ taken'[c] # 0 /\ request[c][taken'[c]] \in {"CR", "LF"}
        /\ reply[c] # None => taken'[c] >= Service!HeadLength(request[c])
    BY <1>0, <2>1, <2>2, LineRead
  <2>4. pc'[c] \in {"header", "postHeader"}
    BY <1>0, <2>1, <2>3 DEF Goto, AfterRequestLine
  <2> QED
    BY <1>0, <2>2, <2>3, <2>4 DEF AtLine
<1>3. CASE ReadHeader(c)
  <2>1. PICK l \in get_line(c) :
            /\ Receive(c, l.used)
            /\ IF HeaderEnds(l) THEN Goto(c, "answer") ELSE UNCHANGED pc
    BY <1>3 DEF ReadHeader
  <2>2. pc[c] = "header" /\ reply' = reply
    BY <1>3 DEF ReadHeader, Thread
  <2>3. /\ l.kind = "whole"
        /\ l.text = <<>> => taken'[c] >= Service!HeadLength(request[c])
        /\ taken'[c] # 0 /\ request[c][taken'[c]] \in {"CR", "LF"}
        /\ reply[c] # None => taken'[c] >= Service!HeadLength(request[c])
    BY <1>0, <2>1, <2>2, LineRead
  <2>4. \/ pc'[c] = "header"
        \/ pc'[c] = "answer" /\ taken'[c] >= Service!HeadLength(request[c])
    BY <1>0, <2>1, <2>2, <2>3 DEF HeaderEnds, Goto
  <2> QED
    BY <1>0, <2>2, <2>3, <2>4 DEF AtLine
<1>4. CASE ReadPostHeader(c)
  <2>1. PICK l \in get_line(c) :
            LET filled == l.text # <<>> \/ (l.kind = "eof" /\ line[c])
            IN  /\ Receive(c, l.used)
                /\ IF l.kind = "error" THEN Goto(c, "closing")
                   ELSE IF filled THEN UNCHANGED pc
                   ELSE Goto(c, "body")
    BY <1>4 DEF ReadPostHeader
  <2>2. pc[c] = "postHeader" /\ reply' = reply
    BY <1>4 DEF ReadPostHeader, Thread
  <2>3. /\ l.kind = "whole"
        /\ l.text = <<>> => taken'[c] >= Service!HeadLength(request[c])
        /\ taken'[c] # 0 /\ request[c][taken'[c]] \in {"CR", "LF"}
        /\ reply[c] # None => taken'[c] >= Service!HeadLength(request[c])
    BY <1>0, <2>1, <2>2, LineRead
  <2>4. \/ pc'[c] = "postHeader"
        \/ pc'[c] = "body" /\ taken'[c] >= Service!HeadLength(request[c])
    BY <1>0, <2>1, <2>2, <2>3 DEF Goto
  <2> QED
    BY <1>0, <2>2, <2>3, <2>4 DEF AtLine
<1>5. CASE ReadBody(c)
  <2>1. PICK n \in Portions(c) : Receive(c, n)
    BY <1>5 DEF ReadBody
  <2>2. /\ pc[c] = "body" /\ Running(c) /\ pc' = pc
        /\ n \in 0..Len(Unread(c))
    <3>1. pc[c] = "body" /\ Running(c) /\ pc' = pc
      BY <1>5 DEF ReadBody, Thread, Running
    <3>2. Len(Unread(c)) \in Nat
      BY <1>0, <3>1, UnreadStream
    <3> QED
      BY <2>1, <3>1, <3>2 DEF Portions
  <2>3. taken'[c] >= Service!HeadLength(request[c])
    BY <1>0, <2>1, <2>2, StaysBehind DEF AtLine
  <2> QED
    BY <1>0, <2>2, <2>3 DEF AtLine
<1>6. CASE BodyCut(c) \/ BodyRead(c) \/ Respond(c) \/ Close(c)
  <2>1. /\ pc[c] \in {"body", "answer", "closing"} /\ taken' = taken
        /\ pc'[c] \in {"answer", "closing", "done"}
    BY <1>0, <1>6 DEF BodyCut, BodyRead, Respond, Close, Thread, Goto, thread_vars
  <2> QED
    BY <1>0, <2>1 DEF AtLine
<1> QED
  BY <1>1, <1>2, <1>3, <1>4, <1>5, <1>6 DEF msg

LEMMA HeaderNext ==
    ASSUME BlanksAreBlank, HeaderInv, [Next]_vars
    PROVE  \A d \in Connections : AtLine(d)'
<1> SUFFICES ASSUME NEW d \in Connections PROVE AtLine(d)'
  OBVIOUS
<1>0. AtLine(d) /\ HttpInv
  BY DEF HeaderInv
<1>1. CASE UNCHANGED vars
  BY <1>0, <1>1 DEF AtLine, vars, link_vars
<1>2. CASE AcceptFails
  BY <1>0, <1>2 DEF AcceptFails, AtLine, link_vars
<1>3. ASSUME NEW c \in Connections, NEW r \in Requests[c], Accept(c, r)
      PROVE  AtLine(d)'
  <2>1. /\ UNCHANGED <<up, reply, taken>> /\ link[c] = "none"
        /\ link' = [link EXCEPT ![c] = "open"]
        /\ request' = [request EXCEPT ![c] = r]
        /\ pc' = [pc EXCEPT ![c] = "created"]
    BY <1>3 DEF Accept
  <2> QED
    BY <1>0, <2>1 DEF AtLine, HttpInv, Shape, TypeOK
<1>4. ASSUME NEW c \in Connections,
             Send(c) \/ \E how \in {"ended", "reset"} : End(c, how)
      PROVE  AtLine(d)'
  BY <1>0, <1>4 DEF Send, End, AtLine, HttpInv, Shape, TypeOK
<1>5. ASSUME NEW c \in Connections, msg(c) PROVE AtLine(d)'
  <2>1. /\ UNCHANGED <<up, link, request>> /\ link[c] # "none"
        /\ c # d => taken'[d] = taken[d] /\ reply'[d] = reply[d] /\ pc'[d] = pc[d]
    BY <1>0, <1>5, OthersStay
  <2>2. CASE c # d
    BY <1>0, <2>1, <2>2 DEF AtLine
  <2>3. CASE c = d /\ link[c] = "open"
    BY <1>5, <2>3, ThreadReadsHeader
  <2>4. CASE c = d /\ link[c] # "open"
    BY <2>1, <2>4 DEF AtLine
  <2> QED
    BY <2>2, <2>3, <2>4
<1> QED
  BY <1>1, <1>2, <1>3, <1>4, <1>5 DEF Next

\* To a client that is still there nothing is sent before the header of its
\* request is read, on any stream whose blank lines are blank.
THEOREM HeaderReadFirst == ASSUME BlanksAreBlank PROVE Spec => []ReadBeforeAnswer
<1>1. Init => HeaderInv
  BY HttpInit DEF Init, HeaderInv, AtLine
<1>2. HeaderInv /\ [Next]_vars => HeaderInv'
  BY HttpNext, HeaderNext DEF HeaderInv
<1>3. HeaderInv => ReadBeforeAnswer
  BY DEF HeaderInv, AtLine, ReadBeforeAnswer
<1> QED
  BY <1>1, <1>2, <1>3, PTL DEF Spec

-----------------------------------------------------------------------------
(* The answer is the one that a reading of the whole request calls for.     *)

Methods == {"put", "get", "getMissing", "getQuery", "post", "postMissing"}
Lengths == {"length1", "length2"}

\* What browsers say: a request begins with its method, and announces one length
\* at most, on a line of its header.
WellMade ==
    /\ BlanksAreBlank
    /\ \A c \in Connections : \A r \in Requests[c] :
          /\ r # <<>> => r[1] \in Methods
          /\ \A i \in DOMAIN r : r[i] \in Lengths =>
                i \in 2..(Service!HeadLength(r) - 1) /\ r[i - 1] \in {"CR", "LF"}
          /\ \A i, j \in DOMAIN r : r[i] \in Lengths /\ r[j] \in Lengths => r[i] = r[j]

\* A thread that reads a header is at the beginning of a line, and the blank line
\* is still in front of it, with or without the end of the line before it.
AtStart(c) ==
    /\ taken[c] = 0 \/ request[c][taken[c]] \in {"CR", "LF"}
    /\ Service!WellFormed(request[c]) =>
          taken[c] <= Service!HeadLength(request[c]) - 2
          /\ taken[c] # Service!HeadLength(request[c]) - 3

\* The length that the lines read so far have announced.
Counted(c) ==
    /\ \A i \in 1..taken[c] : /\ request[c][i] = "length1" => countlen[c] = 1
                              /\ request[c][i] = "length2" => countlen[c] = 2
    /\ (\A i \in 1..taken[c] : request[c][i] \notin Lengths) => countlen[c] = 0

\* The client has stopped short of a whole request.
Short(c) == link[c] \in {"ended", "reset"} /\ ~ Service!Sufficient(c)

\* ... and the thread has found the end of the stream.
Cut(c) == Short(c) /\ taken[c] = sent[c]

InBody(c) ==
    /\ Service!WellFormed(request[c]) /\ request[c][1] = "post"
    /\ countlen[c] = Service!Announced(request[c])
    /\ taken[c] = Service!HeadLength(request[c]) + Len(request_buf[c])
    /\ request_buf[c] = SubSeq(request[c], Service!HeadLength(request[c]) + 1, taken[c])

Decided(c) == Service!Sufficient(c) /\ answer[c] \in Service!Expected(request[c])

\* What a thread has read and made of it, at each place.
Progress(c) ==
    /\ pc[c] \in {"none", "created", "request"} => taken[c] = 0 /\ countlen[c] = 0
    /\ pc[c] = "header" =>
          /\ answer[c] \notin {"in", "refused", None}
          /\ Cut(c) \/ (AtStart(c) /\ request[c][1] \in Methods \ {"post"}
                        /\ answer[c] = AnswerTo(request[c][1]))
    /\ pc[c] = "postHeader" =>
          Cut(c) \/ (AtStart(c) /\ request[c][1] = "post" /\ Counted(c))
    /\ pc[c] = "body" => (Cut(c) /\ request_buf[c] = <<>>) \/ InBody(c)
    /\ pc[c] = "answer" =>
          link[c] = "reset" \/ Decided(c)
          \/ (Short(c) /\ answer[c] \notin {"in", "refused", None})
    /\ pc[c] = "closing" => reply[c] # None \/ link[c] \in {"ended", "reset"}
    /\ reply[c] # None => pc[c] \in {"closing", "done"}

ServiceInv == HttpInv /\ \A c \in Connections : up => Progress(c)


LEMMA LineParts ==
    ASSUME NEW s \in Seq(Pieces), NEW l \in WholeLines(s)
    PROVE  \E i \in 1..Len(s) :
              /\ s[i] \in {"CR", "LF"}
              /\ \A j \in 1..(i - 1) : s[j] \notin {"CR", "LF"}
              /\ s[i] # "LF" => i < Len(s)
              /\ l.used = Consumed(s, i)
              /\ l.text # <<>> => l.text[1] = s[1] /\ ~ (i = 1 /\ s[1] = "CR")
<1>1. PICK i \in FirstBreak(s) :
          /\ s[i] = "LF" \/ i < Len(s)
          /\ l = [kind |-> "whole",
                  text |-> SubSeq(s, 1, IF s[i] = "LF" THEN i ELSE i - 1),
                  used |-> Consumed(s, i)]
  BY DEF WholeLines
<1>2. /\ i \in 1..Len(s) /\ s[i] \in {"CR", "LF"}
      /\ \A j \in 1..(i - 1) : s[j] \notin {"CR", "LF"}
  BY DEF FirstBreak
<1>3. ASSUME l.text # <<>> PROVE l.text[1] = s[1]
  <2>1. PICK n \in 0..Len(s) : l.text = SubSeq(s, 1, n)
    <3>1. l.text = SubSeq(s, 1, IF s[i] = "LF" THEN i ELSE i - 1)
      BY <1>1
    <3>2. (IF s[i] = "LF" THEN i ELSE i - 1) \in 0..Len(s)
      BY <1>2
    <3> QED
      BY <3>1, <3>2
  <2>2. n # 0
    BY <1>3, <2>1
  <2> QED
    BY <2>1, <2>2
<1>4. l.used = Consumed(s, i)
  BY <1>1
<1>5. ASSUME i = 1, s[1] = "CR" PROVE l.text = <<>>
  <2>1. l.text = SubSeq(s, 1, 0)
    BY <1>1, <1>5
  <2> QED
    BY <2>1
<1> QED
  BY <1>1, <1>2, <1>3, <1>4, <1>5

LEMMA NoLineNoBreak ==
    ASSUME NEW s \in Seq(Pieces), WholeLines(s) = {},
           NEW k \in 1..(Len(s) - 1)
    PROVE  s[k] \notin {"CR", "LF"}
<1> SUFFICES ASSUME s[k] \in {"CR", "LF"} PROVE FALSE
  OBVIOUS
<1> DEFINE breaks == {i \in 1..Len(s) : s[i] \in {"CR", "LF"}}
<1>1. breaks \in SUBSET Nat /\ k \in breaks
  OBVIOUS
<1>2. PICK m \in breaks : \A n \in breaks : m <= n
  BY <1>1, LeastNatural
<1>3. /\ m \in 1..Len(s) /\ s[m] \in {"CR", "LF"} /\ m <= k
      /\ \A j \in 1..(m - 1) : s[j] \notin {"CR", "LF"}
  BY <1>1, <1>2
<1>4. m \in FirstBreak(s) /\ m < Len(s)
  BY <1>3 DEF FirstBreak
<1> QED
  BY <1>4 DEF WholeLines

\* The blank line at the end of a header, and where the header ends.
LEMMA HeadEnds ==
    ASSUME NEW r \in Seq(Pieces), Service!WellFormed(r)
    PROVE  /\ Service!HeadLength(r) \in 4..Len(r)
           /\ \A b \in Service!Blanks(r) : Service!HeadLength(r) <= b
           /\ r[Service!HeadLength(r) - 3] = "CR" /\ r[Service!HeadLength(r) - 2] = "LF"
           /\ r[Service!HeadLength(r) - 1] = "CR" /\ r[Service!HeadLength(r)] = "LF"
<1>1. Service!Blanks(r) \in SUBSET Nat /\ Service!Blanks(r) # {}
  BY DEF Service!Blanks, Service!WellFormed
<1>2. Service!HeadLength(r) = Min(Service!Blanks(r))
  BY DEF Service!HeadLength, Service!Min, Min
<1> DEFINE h == Service!HeadLength(r)
           blank == <<"CR", "LF", "CR", "LF">>
<1>3. h \in Service!Blanks(r) /\ \A b \in Service!Blanks(r) : h <= b
  BY <1>1, <1>2, MinOfNaturals
<1> HIDE DEF h
<1>4. h \in 4..Len(r) /\ SubSeq(r, h - 3, h) = blank
  BY <1>3 DEF Service!Blanks
<1>5. blank[1] = "CR" /\ blank[2] = "LF" /\ blank[3] = "CR" /\ blank[4] = "LF"
  OBVIOUS
<1> HIDE DEF blank
<1>6. ASSUME NEW i \in 1..4 PROVE SubSeq(r, h - 3, h)[i] = r[h - 4 + i]
  BY <1>4
<1>7. r[h - 4 + 1] = "CR" /\ r[h - 4 + 2] = "LF" /\ r[h - 4 + 3] = "CR" /\ r[h - 4 + 4] = "LF"
  BY <1>4, <1>5, <1>6
<1>8. /\ h - 4 + 1 = h - 3 /\ h - 4 + 2 = h - 2
      /\ h - 4 + 3 = h - 1 /\ h - 4 + 4 = h
  BY <1>4
<1>9. r[h - 3] = "CR" /\ r[h - 2] = "LF" /\ r[h - 1] = "CR" /\ r[h] = "LF"
  BY <1>7, <1>8
<1> QED
  BY <1>3, <1>4, <1>9 DEF h

LEMMA NeededType ==
    ASSUME NEW r \in Seq(Pieces)
    PROVE  /\ Service!Announced(r) \in 0..2
           /\ Service!Needed(r) \in Nat /\ Service!Needed(r) >= Service!HeadLength(r)
           /\ r[1] # "post" => Service!Needed(r) = Service!HeadLength(r)
<1>1. Service!HeadLength(r) \in Nat
  BY HeadLengthType
<1> QED
  BY <1>1 DEF Service!Needed, Service!Announced

\* Where the stream ends before another line does, no header has been sent.
LEMMA EndsShort ==
    ASSUME WellMade, HttpInv, NEW c \in Connections, Running(c), up, AtStart(c),
           WholeLines(Unread(c)) = {}
    PROVE  ~ Service!Sufficient(c)
<1> SUFFICES ASSUME Service!Sufficient(c) PROVE FALSE
  OBVIOUS
<1> DEFINE r == request[c]
           t == taken[c]
           h == Service!HeadLength(r)
<1>1. /\ r \in Seq(Pieces)
      /\ t \in 0..sent[c] /\ sent[c] \in 0..Len(r)
      /\ Unread(c) \in Seq(Pieces) /\ Len(Unread(c)) = sent[c] - t
      /\ \A i \in 1..Len(Unread(c)) : Unread(c)[i] = r[t + i]
  BY UnreadStream
<1>2. Service!WellFormed(r) /\ sent[c] >= Service!Needed(r)
  BY DEF Service!Sufficient
<1>3. h \in 4..Len(r) /\ r[h - 1] = "CR"
  BY <1>1, <1>2, HeadEnds
<1>4. sent[c] >= h
  BY <1>1, <1>2, <1>3, NeededType
<1>5. t <= h - 2
  BY <1>2 DEF AtStart
<1> HIDE DEF r, t, h
<1>6. h - 1 - t \in 1..(Len(Unread(c)) - 1) /\ t + (h - 1 - t) = h - 1
  BY <1>1, <1>3, <1>4, <1>5
<1>7. Unread(c)[h - 1 - t] = "CR"
  BY <1>1, <1>3, <1>6
<1> QED
  BY <1>1, <1>6, <1>7, NoLineNoBreak


\* A line in front of the header's end is read.
LEMMA LineForward ==
    ASSUME WellMade, HttpInv, NEW c \in Connections, Running(c), up, AtStart(c),
           NEW l \in WholeLines(Unread(c)), Receive(c, l.used), UNCHANGED request
    PROVE  /\ l.text = <<>> =>
                 /\ taken[c] # 0 /\ Service!WellFormed(request[c])
                 /\ taken'[c] = Service!HeadLength(request[c])
                 /\ request[c][taken[c] + 1] \notin Lengths
           /\ l.text # <<>> => AtStart(c)' /\ l.text[1] = request[c][taken[c] + 1]
           /\ \A k \in (taken[c] + 2)..taken'[c] : request[c][k] \notin Lengths
           /\ taken'[c] \in (taken[c] + 1)..Len(request[c])
<1> DEFINE r == request[c]
           t == taken[c]
           s == Unread(c)
           h == Service!HeadLength(r)
<1>1. /\ r \in Requests[c] /\ r \in Seq(Pieces)
      /\ t \in 0..sent[c] /\ sent[c] \in 0..Len(r)
      /\ s \in Seq(Pieces) /\ Len(s) = sent[c] - t
      /\ \A i \in 1..Len(s) : s[i] = r[t + i]
  BY UnreadStream
<1>2. /\ t = 0 \/ r[t] \in {"CR", "LF"}
      /\ Service!WellFormed(r) => t <= h - 2 /\ t # h - 3
  BY DEF AtStart
<1>3. PICK i \in 1..Len(s) :
          /\ s[i] \in {"CR", "LF"}
          /\ \A j \in 1..(i - 1) : s[j] \notin {"CR", "LF"}
          /\ s[i] # "LF" => i < Len(s)
          /\ l.used = Consumed(s, i)
          /\ l.text # <<>> => l.text[1] = s[1] /\ ~ (i = 1 /\ s[1] = "CR")
  BY <1>1, LineParts
<1>4. l.used \in 1..Len(s) /\ s[l.used] \in {"CR", "LF"}
  BY <1>1, LineIsThere
<1>5. taken'[c] = t + l.used
  <2>1. l.used \in 0..Len(s) /\ c \in DOMAIN taken
    BY <1>1, <1>4 DEF HttpInv, Shape
  <2> QED
    BY <2>1, ReceiveKeeps
<1> HIDE DEF r, t, s, h
<1>6. /\ r[t + i] \in {"CR", "LF"} /\ t + i \in 1..Len(r)
      /\ \A k \in (t + 1)..(t + i - 1) : r[k] \notin {"CR", "LF"}
      /\ r[t + i] # "LF" => t + i < Len(r) /\ s[i + 1] = r[t + i + 1]
  <2>1. ASSUME NEW k \in (t + 1)..(t + i - 1) PROVE r[k] \notin {"CR", "LF"}
    <3>1. k - t \in 1..(i - 1) /\ t + (k - t) = k
      BY <1>1, <1>3
    <3>2. s[k - t] = r[t + (k - t)]
      BY <1>1, <1>3, <3>1
    <3> QED
      BY <1>3, <3>1, <3>2
  <2>2. s[i] = r[t + i] /\ t + i \in 1..Len(r)
    BY <1>1, <1>3
  <2>3. ASSUME r[t + i] # "LF" PROVE t + i < Len(r) /\ s[i + 1] = r[t + i + 1]
    <3>1. i + 1 \in 1..Len(s) /\ t + (i + 1) = t + i + 1
      BY <1>1, <1>3, <2>2, <2>3
    <3> QED
      BY <1>1, <3>1
  <2> QED
    BY <1>3, <2>1, <2>2, <2>3
<1>7. \/ taken'[c] = t + i /\ (r[t + i] = "CR" => r[t + i + 1] # "LF")
      \/ /\ taken'[c] = t + i + 1 /\ r[t + i] = "CR" /\ r[t + i + 1] = "LF"
         /\ t + i + 1 <= Len(r)
  <2>1. s[i] = r[t + i]
    BY <1>1, <1>3
  <2>2. CASE s[i] = "CR" /\ s[i + 1] = "LF"
    <3>1. l.used = i + 1
      BY <1>3, <2>2 DEF Consumed
    <3> QED
      BY <1>1, <1>3, <1>5, <1>6, <2>1, <2>2, <3>1
  <2>3. CASE ~ (s[i] = "CR" /\ s[i + 1] = "LF")
    <3>1. l.used = i
      BY <1>3, <2>3 DEF Consumed
    <3> QED
      BY <1>3, <1>5, <1>6, <2>1, <2>3, <3>1
  <2> QED
    BY <2>2, <2>3
<1>8. taken'[c] \in (t + 1)..Len(r) /\ r[taken'[c]] \in {"CR", "LF"}
  BY <1>1, <1>3, <1>6, <1>7
<1>9. ASSUME NEW k \in (t + 2)..taken'[c] PROVE r[k] \notin Lengths
  <2>1. CASE k = taken'[c]
    BY <1>8, <2>1 DEF Lengths
  <2>2. CASE k # taken'[c] /\ k <= t + i
    <3>1. k - 1 \in (t + 1)..(t + i - 1) /\ k \in 1..Len(r)
      BY <1>1, <1>3, <1>6, <2>2
    <3>2. r[k - 1] \notin {"CR", "LF"} /\ k \in DOMAIN r
      BY <1>1, <1>6, <3>1
    <3> QED
      BY <1>1, <3>2 DEF WellMade
  <2> QED
    BY <1>1, <1>3, <1>7, <2>1, <2>2
<1>10. ASSUME l.text = <<>>
       PROVE  /\ t # 0 /\ Service!WellFormed(r) /\ taken'[c] = h
              /\ r[t + 1] \notin Lengths
  <2>1. /\ t # 0 /\ t + l.used >= h
    BY <1>2, <1>10, BlankLineEndsHeader DEF WellMade, r, t, h, s
  <2>2. Service!WellFormed(r)
    <3>1. ~ Service!WellFormed(r) => h = Len(r) + 1
      BY DEF Service!HeadLength, h
    <3> QED
      BY <1>1, <1>5, <1>8, <2>1, <3>1
  <2>3. h \in 4..Len(r) /\ r[h - 1] = "CR" /\ r[h] = "LF"
    BY <1>1, <2>2, HeadEnds DEF h
  <2>4. s[1] = "CR" /\ l.used = Consumed(s, 1)
    BY <1>1, <1>10, LineIsThere DEF s
  <2>5. l.used <= 2
    BY <2>4 DEF Consumed
  <2>6. taken'[c] = h
    <3>1. t <= h - 2 /\ t + l.used >= h
      BY <1>2, <2>1, <2>2
    <3>2. t \in Nat /\ h \in Nat /\ l.used \in Nat
      BY <1>1, <1>4, <2>3
    <3>3. t + l.used = h
      BY <2>5, <3>1, <3>2
    <3> QED
      BY <1>5, <3>3
  <2>7. r[t + 1] \notin Lengths
    <3>1. s[1] = r[t + 1]
      BY <1>1, <1>3
    <3> QED
      BY <2>4, <3>1 DEF Lengths
  <2> QED
    BY <2>1, <2>2, <2>6, <2>7
<1>11. ASSUME l.text # <<>>, Service!WellFormed(r)
       PROVE  taken'[c] <= h - 2 /\ taken'[c] # h - 3
  <2>1. /\ h \in 4..Len(r)
        /\ r[h - 3] = "CR" /\ r[h - 2] = "LF" /\ r[h - 1] = "CR" /\ r[h] = "LF"
    BY <1>1, <1>11, HeadEnds DEF h
  <2>2. t # h - 2
    <3> SUFFICES ASSUME t = h - 2 PROVE FALSE
      OBVIOUS
    <3>1. t + 1 = h - 1
      BY <2>1
    <3>2. i = 1
      BY <1>1, <1>3, <1>6, <2>1, <3>1
    <3>3. s[1] = "CR" /\ s[i] # "LF"
      BY <1>1, <1>3, <2>1, <3>1, <3>2
    <3> QED
      BY <1>1, <1>3, <1>11, <3>2, <3>3
  <2>3. t + i <= h - 3
    <3> SUFFICES ASSUME h - 3 < t + i PROVE FALSE
      BY <1>1, <1>3, <2>1
    <3>1. h - 3 \in (t + 1)..(t + i - 1)
      BY <1>1, <1>2, <1>3, <1>11, <2>1, <2>2
    <3> QED
      BY <1>6, <2>1, <3>1
  <2> QED
    BY <1>1, <1>3, <1>7, <2>1, <2>3
<1>12. ASSUME l.text # <<>> PROVE AtStart(c)' /\ l.text[1] = r[t + 1]
  <2>1. l.text[1] = r[t + 1]
    <3>1. 1 \in 1..Len(s)
      BY <1>1, <1>3
    <3> QED
      BY <1>1, <1>3, <1>12, <3>1
  <2>2. request'[c] = r /\ request[c] = r
    BY DEF r
  <2>3. AtStart(c)'
    BY <1>8, <1>11, <1>12, <2>2 DEF AtStart, h
  <2> QED
    BY <2>1, <2>3
<1> QED
  BY <1>8, <1>9, <1>10, <1>12 DEF r, t, h


-----------------------------------------------------------------------------
(* Each step of a thread, for its own connection. *)

LEMMA LineKinds ==
    ASSUME HttpInv, NEW c \in Connections, Running(c), up, NEW l \in get_line(c),
           Receive(c, l.used)
    PROVE  \/ l \in WholeLines(Unread(c)) /\ l.kind = "whole"
           \/ /\ l.kind = "eof" /\ link[c] = "ended" /\ WholeLines(Unread(c)) = {}
              /\ taken'[c] = sent[c]
           \/ l.kind = "error" /\ link[c] = "reset" /\ taken'[c] = taken[c]
<1>1. /\ Unread(c) \in Seq(Pieces) /\ Peer(c) = c
      /\ taken[c] \in 0..sent[c] /\ sent[c] \in Nat
      /\ Len(Unread(c)) = sent[c] - taken[c]
  BY UnreadStream
<1>2. taken'[c] = taken[c] + l.used
  BY ReceiveKeeps, LineFits DEF HttpInv, Shape
<1>3. CASE l \in WholeLines(Unread(c))
  BY <1>1, <1>3, LineIsThere
<1>4. CASE /\ l.kind = "eof" /\ link[c] = "ended" /\ WholeLines(Unread(c)) = {}
           /\ l.used = Len(Unread(c))
  BY <1>1, <1>2, <1>4
<1>5. CASE l.kind = "error" /\ link[c] = "reset" /\ l.used = 0
  BY <1>1, <1>2, <1>5
<1> QED
  BY <1>1, <1>3, <1>4, <1>5 DEF get_line

\* At the end of the stream there are no more lines.
LEMMA CutGivesNothing ==
    ASSUME HttpInv, NEW c \in Connections, Running(c), up, Cut(c)
    PROVE  Len(Unread(c)) = 0 /\ WholeLines(Unread(c)) = {}
<1>1. Unread(c) \in Seq(Pieces) /\ Len(Unread(c)) = 0
  BY UnreadStream DEF Cut
<1>2. ASSUME NEW l \in WholeLines(Unread(c)) PROVE FALSE
  <2>1. l.used \in 1..Len(Unread(c))
    BY <1>1, LineIsThere
  <2> QED
    BY <1>1, <2>1
<1> QED
  BY <1>1, <1>2

LEMMA StartsAtStart ==
    ASSUME HttpInv, NEW c \in Connections, Running(c), up, taken[c] = 0
    PROVE  AtStart(c)
<1>1. request[c] \in Seq(Pieces)
  BY UnreadStream
<1> QED
  BY <1>1, HeadEnds DEF AtStart

LEMMA PlainAnswers ==
    ASSUME NEW m
    PROVE  AnswerTo(m) \notin {"in", "refused", None}
BY HttpAssumption DEF AnswerTo

\* What a call of get_line makes of a thread that is at the beginning of a line.
LEMMA Turn ==
    ASSUME WellMade, HttpInv, NEW c \in Connections, Running(c), up,
           AtStart(c) \/ Cut(c), NEW l \in get_line(c), Receive(c, l.used),
           UNCHANGED <<link, request, sent>>
    PROVE  \/ AtStart(c) /\ l \in WholeLines(Unread(c)) /\ l.kind = "whole"
           \/ l.kind = "eof" /\ link[c] = "ended" /\ Cut(c)' /\ Short(c)'
           \/ l.kind = "error" /\ link[c] = "reset" /\ (Cut(c) => Cut(c)')
<1>1. CASE l \in WholeLines(Unread(c)) /\ l.kind = "whole"
  BY <1>1, CutGivesNothing
<1>2. CASE /\ l.kind = "eof" /\ link[c] = "ended" /\ WholeLines(Unread(c)) = {}
           /\ taken'[c] = sent[c]
  <2>1. ~ Service!Sufficient(c)
    BY <1>2, EndsShort DEF Cut, Short
  <2>2. ~ (Service!Sufficient(c))'
    BY <2>1 DEF Service!Sufficient
  <2> QED
    BY <1>2, <2>2 DEF Cut, Short
<1>3. CASE l.kind = "error" /\ link[c] = "reset" /\ taken'[c] = taken[c]
  BY <1>3 DEF Cut, Short, Service!Sufficient
<1> QED
  BY <1>1, <1>2, <1>3, LineKinds

LEMMA CountGoesOn ==
    ASSUME WellMade, HttpInv, NEW c \in Connections, Running(c), up, AtStart(c),
           NEW l \in WholeLines(Unread(c)), Receive(c, l.used), UNCHANGED request,
           Counted(c), countlen'[c] = LengthIn(l.text, countlen[c])
    PROVE  Counted(c)'
<1> DEFINE r == request[c]
           t == taken[c]
<1>1. /\ t \in Nat /\ taken'[c] \in (t + 1)..Len(r) /\ r \in Requests[c]
      /\ \A k \in (t + 2)..taken'[c] : r[k] \notin Lengths
      /\ l.text = <<>> => r[t + 1] \notin Lengths
      /\ l.text # <<>> => l.text[1] = r[t + 1]
  BY LineForward, UnreadStream DEF HttpInv, Shape
<1>2. \A i \in 1..t : /\ r[i] = "length1" => countlen[c] = 1
                      /\ r[i] = "length2" => countlen[c] = 2
  BY DEF Counted
<1>3. (\A i \in 1..t : r[i] \notin Lengths) => countlen[c] = 0
  BY DEF Counted
<1>4. /\ r[t + 1] = "length1" => countlen'[c] = 1
      /\ r[t + 1] = "length2" => countlen'[c] = 2
      /\ r[t + 1] \notin Lengths => countlen'[c] = countlen[c]
  BY <1>1 DEF LengthIn, Lengths
<1>5. \A i, j \in DOMAIN r : r[i] \in Lengths /\ r[j] \in Lengths => r[i] = r[j]
  BY <1>1 DEF WellMade
<1> HIDE DEF r, t
<1>6. ASSUME NEW i \in 1..taken'[c]
      PROVE  i \in 1..t \/ i = t + 1 \/ i \in (t + 2)..taken'[c]
  BY <1>1
<1>7. ASSUME NEW i \in 1..taken'[c], r[i] \in Lengths
      PROVE  /\ r[i] = "length1" => countlen'[c] = 1
             /\ r[i] = "length2" => countlen'[c] = 2
  <2>1. i # t + 1 => i \in 1..t
    BY <1>1, <1>6, <1>7
  <2>2. i \in DOMAIN r /\ t + 1 \in DOMAIN r
    <3>1. r \in Seq(Pieces)
      BY UnreadStream DEF r
    <3> QED
      BY <1>1, <3>1
  <2>3. CASE r[t + 1] \in Lengths
    <3>1. r[i] = r[t + 1]
      BY <1>5, <1>7, <2>2, <2>3
    <3> QED
      BY <1>4, <3>1
  <2>4. CASE r[t + 1] \notin Lengths
    <3>1. i \in 1..t
      BY <1>7, <2>1, <2>4
    <3> QED
      BY <1>2, <1>4, <2>4, <3>1
  <2> QED
    BY <2>3, <2>4
<1>8. ASSUME \A i \in 1..taken'[c] : r[i] \notin Lengths
      PROVE  countlen'[c] = 0
  <2>1. t + 1 \in 1..taken'[c] /\ 1..t \subseteq 1..taken'[c]
    BY <1>1
  <2> QED
    BY <1>3, <1>4, <1>8, <2>1
<1>9. request'[c] = r
  BY DEF r
<1> QED
  BY <1>7, <1>8, <1>9 DEF Counted, Lengths

\* What has been counted when the header has been read is what was announced.
LEMMA AllCounted ==
    ASSUME WellMade, NEW c \in Connections, NEW r \in Requests[c], r \in Seq(Pieces),
           Service!WellFormed(r), NEW n,
           \A i \in 1..Service!HeadLength(r) :
               /\ r[i] = "length1" => n = 1
               /\ r[i] = "length2" => n = 2,
           (\A i \in 1..Service!HeadLength(r) : r[i] \notin Lengths) => n = 0
    PROVE  n = Service!Announced(r)
<1> DEFINE h == Service!HeadLength(r)
<1>1. h \in 4..Len(r)
  BY HeadEnds
<1>2. \A i \in DOMAIN r : r[i] \in Lengths => i \in 2..(h - 1)
  BY DEF WellMade
<1> HIDE DEF h
<1>3. \A i \in DOMAIN r : r[i] \in Lengths => i \in 1..h
  BY <1>1, <1>2
<1>4. \A i \in 1..h : i \in DOMAIN r
  BY <1>1
<1>5. CASE \E i \in DOMAIN r : r[i] = "length2"
  BY <1>3, <1>5 DEF Service!Announced, Lengths, h
<1>6. CASE /\ \A i \in DOMAIN r : r[i] # "length2"
           /\ \E i \in DOMAIN r : r[i] = "length1"
  BY <1>3, <1>6 DEF Service!Announced, Lengths, h
<1>7. CASE \A i \in DOMAIN r : r[i] \notin Lengths
  <2>1. n = 0
    BY <1>4, <1>7 DEF h
  <2> QED
    BY <1>7, <2>1 DEF Service!Announced, Lengths
<1> QED
  BY <1>5, <1>6, <1>7 DEF Lengths


LEMMA BeginProgress ==
    ASSUME HttpInv, NEW c \in Connections, Progress(c), Begin(c)
    PROVE  Progress(c)'
<1>1. /\ pc[c] = "created" /\ pc'[c] = "request"
      /\ UNCHANGED <<reply, taken, countlen>>
  BY DEF Begin, Thread, Goto, HttpInv, Shape, TypeOK
<1> QED
  BY <1>1 DEF Progress

LEMMA ReadRequestProgress ==
    ASSUME WellMade, HttpInv, NEW c \in Connections, Progress(c), ReadRequest(c)
    PROVE  Progress(c)'
<1>0. /\ Running(c) /\ up /\ UNCHANGED <<link, request, sent, countlen, reply>>
      /\ pc[c] = "request" /\ taken[c] = 0 /\ countlen[c] = 0 /\ reply[c] = None
      /\ c \in DOMAIN pc /\ c \in DOMAIN answer
  BY DEF ReadRequest, Thread, Running, link_vars, Progress, HttpInv, Shape, TypeOK
<1>1. PICK l \in get_line(c) :
          /\ Receive(c, l.used)
          /\ IF l.kind = "error" \/ l.text = <<>>
             THEN Goto(c, "closing") /\ UNCHANGED answer
             ELSE /\ Goto(c, AfterRequestLine(l.text[1]))
                  /\ answer' = [answer EXCEPT ![c] = AnswerTo(l.text[1])]
  BY DEF ReadRequest
<1>2. AtStart(c)
  BY <1>0, StartsAtStart
<1>3. CASE l \in WholeLines(Unread(c)) /\ l.kind = "whole"
  <2> DEFINE r == request[c]
  <2>1. /\ l.text # <<>> /\ AtStart(c)' /\ l.text[1] = r[1]
        /\ \A k \in 2..taken'[c] : r[k] \notin Lengths
        /\ taken'[c] \in 1..Len(r)
    BY <1>0, <1>1, <1>2, <1>3, LineForward
  <2>2. r[1] \in Methods
    <3>1. r \in Requests[c] /\ r \in Seq(Pieces)
      BY <1>0, UnreadStream
    <3>2. r # <<>>
      BY <2>1, <3>1
    <3> QED
      BY <3>1, <3>2 DEF WellMade
  <2>3. pc'[c] = AfterRequestLine(r[1]) /\ answer'[c] = AnswerTo(r[1])
    BY <1>0, <1>1, <1>3, <2>1 DEF Goto
  <2>4. CASE r[1] = "post"
    <3>1. pc'[c] = "postHeader"
      BY <2>3, <2>4 DEF AfterRequestLine
    <3>2. ASSUME NEW k \in 1..taken'[c] PROVE r[k] \notin Lengths
      <4>1. k = 1 \/ k \in 2..taken'[c]
        BY <2>1
      <4> QED
        BY <2>1, <2>4, <4>1 DEF Lengths
    <3>3. request'[c] = r /\ countlen'[c] = 0
      BY <1>0
    <3>4. Counted(c)'
      BY <3>2, <3>3 DEF Counted, Lengths
    <3> QED
      BY <1>0, <2>1, <2>4, <3>1, <3>3, <3>4 DEF Progress
  <2>5. CASE r[1] # "post"
    <3>1. pc'[c] = "header"
      BY <2>3, <2>5 DEF AfterRequestLine
    <3>2. answer'[c] \notin {"in", "refused", None}
      BY <2>3, PlainAnswers
    <3>3. request'[c] = r /\ reply'[c] = None
      BY <1>0
    <3> QED
      BY <2>1, <2>2, <2>3, <2>5, <3>1, <3>2, <3>3 DEF Progress
  <2> QED
    BY <2>4, <2>5
<1>4. CASE l.kind = "eof" /\ link[c] = "ended" /\ Cut(c)'
  <2>1. CASE l.text = <<>>
    <3>1. pc'[c] = "closing"
      BY <1>0, <1>1, <2>1 DEF Goto
    <3> QED
      BY <1>0, <1>4, <3>1 DEF Progress
  <2>2. CASE l.text # <<>>
    <3>1. /\ pc'[c] \in {"header", "postHeader"}
          /\ answer'[c] = AnswerTo(l.text[1])
      BY <1>0, <1>1, <1>4, <2>2 DEF Goto, AfterRequestLine
    <3>2. answer'[c] \notin {"in", "refused", None}
      BY <3>1, PlainAnswers
    <3> QED
      BY <1>0, <1>4, <3>1, <3>2 DEF Progress
  <2> QED
    BY <2>1, <2>2
<1>5. CASE l.kind = "error" /\ link[c] = "reset"
  <2>1. pc'[c] = "closing"
    BY <1>0, <1>1, <1>5 DEF Goto
  <2> QED
    BY <1>0, <1>5, <2>1 DEF Progress
<1> QED
  BY <1>0, <1>1, <1>2, <1>3, <1>4, <1>5, Turn

LEMMA ReadHeaderProgress ==
    ASSUME WellMade, HttpInv, NEW c \in Connections, Progress(c), ReadHeader(c)
    PROVE  Progress(c)'
<1>0. /\ Running(c) /\ up /\ UNCHANGED <<link, request, sent, reply, answer>>
      /\ pc[c] = "header" /\ reply[c] = None /\ c \in DOMAIN pc
      /\ answer[c] \notin {"in", "refused", None}
      /\ Cut(c) \/ (AtStart(c) /\ request[c][1] \in Methods \ {"post"}
                    /\ answer[c] = AnswerTo(request[c][1]))
  BY DEF ReadHeader, Thread, Running, link_vars, thread_vars, Progress, HttpInv, Shape,
         TypeOK
<1>1. PICK l \in get_line(c) :
          /\ Receive(c, l.used)
          /\ IF HeaderEnds(l) THEN Goto(c, "answer") ELSE UNCHANGED pc
  BY DEF ReadHeader
<1> DEFINE r == request[c]
<1>2. reply'[c] = None /\ answer'[c] = answer[c] /\ request'[c] = r /\ link'[c] = link[c]
  BY <1>0
<1>3. CASE AtStart(c) /\ l \in WholeLines(Unread(c)) /\ l.kind = "whole"
  <2>1. /\ l.text = <<>> =>
              Service!WellFormed(r) /\ taken'[c] = Service!HeadLength(r)
        /\ l.text # <<>> => AtStart(c)'
    BY <1>0, <1>1, <1>3, LineForward
  <2>2. ~ Cut(c)
    BY <1>0, <1>3, CutGivesNothing
  <2>3. r[1] \in Methods \ {"post"} /\ answer[c] = AnswerTo(r[1])
    BY <1>0, <2>2
  <2>4. CASE l.text # <<>>
    <3>1. pc'[c] = "header" /\ AtStart(c)'
      BY <1>0, <1>1, <1>3, <2>1, <2>4 DEF HeaderEnds
    <3> QED
      BY <1>0, <1>2, <2>3, <3>1 DEF Progress
  <2>5. CASE l.text = <<>>
    <3>1. pc'[c] = "answer"
      BY <1>0, <1>1, <2>5 DEF HeaderEnds, Goto
    <3>2. r \in Seq(Pieces) /\ sent[c] \in Nat
      BY <1>0, UnreadStream
    <3>3. taken'[c] <= sent[c]
      BY <1>0, <1>1, LineFits, ReceiveKeeps
    <3>4. Service!Needed(r) = Service!HeadLength(r)
      BY <2>3, <3>2, NeededType
    <3>5. Service!WellFormed(r) /\ sent[c] >= Service!Needed(r)
      BY <2>1, <2>5, <3>2, <3>3, <3>4
    <3>6. answer[c] \in Service!Expected(r)
      BY <2>3 DEF AnswerTo, Methods, Service!Expected
    <3>7. Decided(c)'
      BY <1>0, <1>2, <3>5, <3>6 DEF Decided, Service!Sufficient
    <3> QED
      BY <1>2, <3>1, <3>7 DEF Progress
  <2> QED
    BY <2>4, <2>5
<1>4. CASE l.kind = "eof" /\ link[c] = "ended" /\ Cut(c)' /\ Short(c)'
  <2>1. pc'[c] = "answer"
    BY <1>0, <1>1, <1>4 DEF HeaderEnds, Goto
  <2> QED
    BY <1>0, <1>2, <1>4, <2>1 DEF Progress
<1>5. CASE l.kind = "error" /\ link[c] = "reset"
  <2>1. pc'[c] = "answer"
    BY <1>0, <1>1, <1>5 DEF HeaderEnds, Goto
  <2> QED
    BY <1>0, <1>2, <1>5, <2>1 DEF Progress
<1> QED
  BY <1>0, <1>1, <1>3, <1>4, <1>5, Turn


LEMMA ReadPostHeaderProgress ==
    ASSUME WellMade, HttpInv, NEW c \in Connections, Progress(c), ReadPostHeader(c)
    PROVE  Progress(c)'
<1>0. /\ Running(c) /\ up /\ UNCHANGED <<link, request, sent, reply, request_buf>>
      /\ pc[c] = "postHeader" /\ reply[c] = None /\ request_buf[c] = <<>>
      /\ c \in DOMAIN pc /\ c \in DOMAIN countlen
      /\ Cut(c) \/ (AtStart(c) /\ request[c][1] = "post" /\ Counted(c))
  <2>1. /\ Running(c) /\ up /\ pc[c] = "postHeader"
        /\ UNCHANGED <<link, request, sent, reply, request_buf>>
    BY DEF ReadPostHeader, Thread, Running, link_vars
  <2>2. c \in DOMAIN pc /\ c \in DOMAIN countlen
    BY DEF HttpInv, Shape, TypeOK
  <2>3. request_buf[c] = <<>>
    BY <2>1 DEF HttpInv, Owned
  <2> QED
    BY <2>1, <2>2, <2>3 DEF Progress
<1>1. PICK l \in get_line(c) :
          LET filled == l.text # <<>> \/ (l.kind = "eof" /\ line[c])
          IN  /\ Receive(c, l.used)
              /\ IF l.kind = "error" THEN Goto(c, "closing")
                 ELSE IF filled THEN UNCHANGED pc
                 ELSE Goto(c, "body")
              /\ line' = [line EXCEPT ![c] = filled]
              /\ countlen' = [countlen EXCEPT ![c] = LengthIn(l.text, @)]
  BY DEF ReadPostHeader
<1> DEFINE r == request[c]
<1>2. /\ reply'[c] = None /\ request'[c] = r /\ link'[c] = link[c]
      /\ request_buf'[c] = <<>> /\ countlen'[c] = LengthIn(l.text, countlen[c])
  BY <1>0, <1>1
<1>3. CASE AtStart(c) /\ l \in WholeLines(Unread(c)) /\ l.kind = "whole"
  <2>1. /\ l.text = <<>> =>
              Service!WellFormed(r) /\ taken'[c] = Service!HeadLength(r)
        /\ l.text # <<>> => AtStart(c)'
    BY <1>0, <1>1, <1>3, LineForward
  <2>2. r[1] = "post" /\ Counted(c)
    BY <1>0, <1>3, CutGivesNothing
  <2>3. Counted(c)'
    BY <1>0, <1>1, <1>2, <1>3, <2>2, CountGoesOn
  <2>4. CASE l.text # <<>>
    <3>1. pc'[c] = "postHeader" /\ AtStart(c)'
      BY <1>0, <1>1, <1>3, <2>1, <2>4
    <3> QED
      BY <1>2, <2>2, <2>3, <3>1 DEF Progress
  <2>5. CASE l.text = <<>>
    <3>1. pc'[c] = "body"
      BY <1>0, <1>1, <1>3, <2>5 DEF Goto
    <3>2. r \in Requests[c] /\ r \in Seq(Pieces)
      BY <1>0, UnreadStream
    <3>3. Service!WellFormed(r) /\ taken'[c] = Service!HeadLength(r)
          /\ Service!HeadLength(r) \in Nat
      BY <2>1, <2>5, <3>2, HeadEnds
    <3> DEFINE n == countlen'[c]
               h == Service!HeadLength(r)
    <3>4. /\ \A i \in 1..h : /\ r[i] = "length1" => n = 1
                             /\ r[i] = "length2" => n = 2
          /\ (\A i \in 1..h : r[i] \notin Lengths) => n = 0
      BY <1>2, <2>3, <3>3 DEF Counted
    <3> HIDE DEF n, h
    <3>5. n = Service!Announced(r)
      BY <3>2, <3>3, <3>4, AllCounted DEF h
    <3>6. <<>> = SubSeq(r, h + 1, h) /\ h = h + Len(<<>>)
      BY <3>3 DEF h
    <3>7. InBody(c)'
      BY <1>2, <2>2, <3>3, <3>5, <3>6 DEF InBody, n, h
    <3> QED
      BY <1>2, <3>1, <3>7 DEF Progress
  <2> QED
    BY <2>4, <2>5
<1>4. CASE l.kind = "eof" /\ link[c] = "ended" /\ Cut(c)' /\ Short(c)'
  <2>1. pc'[c] \in {"postHeader", "body"}
    BY <1>0, <1>1, <1>4 DEF Goto
  <2> QED
    BY <1>2, <1>4, <2>1 DEF Progress
<1>5. CASE l.kind = "error" /\ link[c] = "reset"
  <2>1. pc'[c] = "closing"
    BY <1>0, <1>1, <1>5 DEF Goto
  <2> QED
    BY <1>2, <1>5, <2>1 DEF Progress
<1> QED
  BY <1>0, <1>1, <1>3, <1>4, <1>5, Turn

LEMMA Joined ==
    ASSUME NEW S, NEW a \in Seq(S), NEW b \in Seq(S)
    PROVE  /\ a \o b \in Seq(S) /\ Len(a \o b) = Len(a) + Len(b)
           /\ \A i \in 1..Len(a) : (a \o b)[i] = a[i]
           /\ \A i \in 1..Len(b) : (a \o b)[Len(a) + i] = b[i]
OBVIOUS

\* A part more of a stream that has been received up to t.
LEMMA PartsJoin ==
    ASSUME NEW S, NEW r \in Seq(S), NEW h \in Nat, NEW t \in Nat, NEW n \in Nat,
           NEW m \in Nat, h <= t, t + n <= m, m <= Len(r)
    PROVE  /\ SubSeq(r, h + 1, t) \o SubSeq(SubSeq(r, t + 1, m), 1, n)
                = SubSeq(r, h + 1, t + n)
           /\ Len(SubSeq(r, h + 1, t + n)) = t + n - h
<1> DEFINE a == SubSeq(r, h + 1, t)
           u == SubSeq(r, t + 1, m)
           b == SubSeq(u, 1, n)
           w == SubSeq(r, h + 1, t + n)
<1>1. /\ a \in Seq(S) /\ Len(a) = t - h
      /\ \A i \in 1..(t - h) : a[i] = r[h + i]
  OBVIOUS
<1>2. /\ u \in Seq(S) /\ Len(u) = m - t
      /\ \A i \in 1..(m - t) : u[i] = r[t + i]
  OBVIOUS
<1>3. /\ w \in Seq(S) /\ Len(w) = t + n - h
      /\ \A i \in 1..(t + n - h) : w[i] = r[h + i]
  OBVIOUS
<1> HIDE DEF a, u, w
<1>4. /\ b \in Seq(S) /\ Len(b) = n
      /\ \A i \in 1..n : b[i] = u[i]
  BY <1>2
<1> HIDE DEF b
<1>5. /\ a \o b \in Seq(S) /\ Len(a \o b) = Len(a) + Len(b)
      /\ \A i \in 1..Len(a) : (a \o b)[i] = a[i]
      /\ \A i \in 1..Len(b) : (a \o b)[Len(a) + i] = b[i]
  <2>1. a \in Seq(S) /\ b \in Seq(S)
    BY <1>1, <1>4
  <2> QED
    BY <2>1, Joined
<1>6. Len(a \o b) = t + n - h
  BY <1>1, <1>4, <1>5
<1>7. ASSUME NEW i \in 1..(t + n - h) PROVE (a \o b)[i] = w[i]
  <2>1. CASE i <= t - h
    <3>1. i \in 1..(t - h)
      BY <2>1
    <3> QED
      BY <1>1, <1>3, <1>5, <3>1
  <2>2. CASE i > t - h
    <3>1. PICK k \in 1..n : i = t - h + k
      <4>1. i - (t - h) \in 1..n /\ i = t - h + (i - (t - h))
        BY <2>2
      <4> QED
        BY <4>1
    <3>2. (a \o b)[i] = b[k] /\ b[k] = u[k] /\ u[k] = r[t + k]
      <4>1. k \in 1..(m - t)
        BY <3>1
      <4> QED
        BY <1>1, <1>2, <1>4, <1>5, <3>1, <4>1
    <3>3. w[i] = r[t + k]
      <4>1. h + i = t + k
        BY <3>1
      <4> QED
        BY <1>3, <4>1
    <3> QED
      BY <3>2, <3>3
  <2>3. i <= t - h \/ i > t - h
    OBVIOUS
  <2> QED
    BY <2>1, <2>2, <2>3
<1>8. a \o b = w
  <2>1. Len(a \o b) = Len(w) /\ \A i \in 1..Len(a \o b) : (a \o b)[i] = w[i]
    BY <1>3, <1>6, <1>7
  <2> QED
    BY <1>3, <1>5, <2>1, SeqEqual
<1>9. Len(w) = t + n - h
  BY <1>3
<1> QED
  BY <1>8, <1>9 DEF a, b, u, w

LEMMA ReadBodyProgress ==
    ASSUME HttpInv, NEW c \in Connections, Progress(c), ReadBody(c)
    PROVE  Progress(c)'
<1>0. /\ Running(c) /\ up /\ UNCHANGED <<link, request, sent, reply, countlen, pc>>
      /\ pc[c] = "body" /\ reply[c] = None /\ c \in DOMAIN request_buf
      /\ (Cut(c) /\ request_buf[c] = <<>>) \/ InBody(c)
  BY DEF ReadBody, Thread, Running, link_vars, Progress, HttpInv, Shape, TypeOK
<1>1. PICK n \in Portions(c) :
          /\ request_buf' = [request_buf EXCEPT ![c] = @ \o SubSeq(Unread(c), 1, n)]
          /\ Receive(c, n)
  BY DEF ReadBody
<1> DEFINE r == request[c]
           t == taken[c]
           h == Service!HeadLength(r)
<1>2. /\ r \in Seq(Pieces) /\ Unread(c) = SubSeq(r, t + 1, sent[c])
      /\ t \in Nat /\ sent[c] \in Nat /\ sent[c] <= Len(r)
      /\ Len(Unread(c)) = sent[c] - t /\ Len(Unread(c)) \in Nat
  BY <1>0, UnreadStream
<1>3. n \in 1..Len(Unread(c))
  BY <1>1 DEF Portions
<1>4. InBody(c)
  BY <1>0, <1>2, <1>3, CutGivesNothing
<1>5. taken'[c] = t + n
  <2>1. n \in 0..Len(Unread(c)) /\ c \in DOMAIN taken
    BY <1>2, <1>3 DEF HttpInv, Shape
  <2> QED
    BY <1>0, <1>1, <2>1, ReceiveKeeps
<1>6. /\ h \in Nat /\ request_buf[c] = SubSeq(r, h + 1, t)
      /\ t = h + Len(request_buf[c]) /\ Len(request_buf[c]) \in Nat
  <2>1. request_buf[c] \in Seq(Pieces)
    BY DEF HttpInv, Shape
  <2>2. Len(request_buf[c]) \in Nat
    BY <2>1
  <2>3. h \in Nat
    BY <1>2, HeadLengthType
  <2>4. request_buf[c] = SubSeq(r, h + 1, t) /\ t = h + Len(request_buf[c])
    BY <1>4 DEF InBody
  <2> QED
    BY <2>2, <2>3, <2>4
<1>7. request_buf'[c] = SubSeq(r, h + 1, t) \o SubSeq(SubSeq(r, t + 1, sent[c]), 1, n)
  BY <1>0, <1>1, <1>2, <1>6
<1> HIDE DEF r, t, h
<1>8. /\ h <= t /\ n \in Nat /\ t + n <= sent[c] /\ sent[c] <= Len(r)
  BY <1>2, <1>3, <1>6
<1>9. /\ request_buf'[c] = SubSeq(r, h + 1, t + n)
      /\ Len(request_buf'[c]) = t + n - h
  <2>1. /\ SubSeq(r, h + 1, t) \o SubSeq(SubSeq(r, t + 1, sent[c]), 1, n)
             = SubSeq(r, h + 1, t + n)
        /\ Len(SubSeq(r, h + 1, t + n)) = t + n - h
    <3>1. /\ r \in Seq(Pieces) /\ h \in Nat /\ t \in Nat /\ n \in Nat
          /\ sent[c] \in Nat /\ h <= t /\ t + n <= sent[c] /\ sent[c] <= Len(r)
      BY <1>2, <1>6, <1>8
    <3> QED
      BY <3>1, PartsJoin
  <2> QED
    BY <1>7, <2>1
<1>10. t + n = h + Len(request_buf'[c])
  BY <1>2, <1>6, <1>8, <1>9
<1>11. InBody(c)'
  <2>1. request'[c] = request[c] /\ countlen'[c] = countlen[c]
    BY <1>0
  <2> QED
    BY <1>4, <1>5, <1>9, <1>10, <2>1 DEF InBody, r, h
<1> QED
  BY <1>0, <1>11 DEF Progress


\* A login is decided by what is in the body, and nobody is let in with another
\* password than the name.
LEMMA LoginDecided ==
    ASSUME NEW body
    PROVE  parse_and_process(body) \in Service!Logins(body)
<1>1. CASE body = <<"username", "password1">>
  <2>1. DOMAIN body = 1..2 /\ body[1] = "username" /\ body[2] = "password1"
    BY <1>1
  <2>2. "username" \in Fields(body) /\ "password1" \in Fields(body)
    BY <2>1 DEF Fields
  <2>3. parse_and_process(body) = "in"
    BY <1>1, <2>2 DEF parse_and_process
  <2> QED
    BY <1>1, <2>3 DEF Service!Logins
<1>2. CASE body # <<"username", "password1">>
  BY <1>2 DEF parse_and_process, Fields, Service!Logins
<1> QED
  BY <1>1, <1>2

LEMMA EmptyLogin == parse_and_process(<<>>) = "empty"
<1>1. Fields(<<>>) = {}
  BY DEF Fields
<1> QED
  BY <1>1 DEF parse_and_process

LEMMA ExpectedAnswer ==
    ASSUME WellMade, NEW c \in Connections, NEW r \in Requests[c], r \in Seq(Pieces),
           Service!WellFormed(r), NEW a \in Service!Expected(r)
    PROVE  a \in Service!Answers /\ a # None
<1>1. r # <<>>
  BY HeadEnds
<1>2. r[1] \in Methods
  BY <1>1 DEF WellMade
<1>3. a \in {"405", "404", "page", "empty", "in", "refused"}
  BY <1>2 DEF Methods, Service!Expected, Service!Logins
<1> QED
  BY <1>3, HttpAssumption DEF Service!Answers

LEMMA HeadersAreReplies ==
    ASSUME NEW a \in Service!Pages
    PROVE  Service!HeaderOf(a) # None
BY HttpAssumption DEF Service!Pages, Service!HeaderOf

\* An answer that is sent to a client that has not reset its connection.
LEMMA AnswerIsRight ==
    ASSUME WellMade, HttpInv, NEW c \in Connections, Running(c), up, Progress(c),
           pc[c] = "answer", link[c] # "reset"
    PROVE  /\ answer[c] \in Service!Answers /\ answer[c] # None
           /\ \/ Decided(c)
              \/ Short(c) /\ answer[c] \notin {"in", "refused"}
<1>1. CASE Decided(c)
  <2>1. /\ request[c] \in Requests[c] /\ request[c] \in Seq(Pieces)
        /\ Service!WellFormed(request[c]) /\ answer[c] \in Service!Expected(request[c])
    BY <1>1, UnreadStream DEF Decided, Service!Sufficient
  <2> QED
    BY <1>1, <2>1, ExpectedAnswer
<1>2. CASE Short(c) /\ answer[c] \notin {"in", "refused", None}
  BY <1>2 DEF HttpInv, Shape, TypeOK
<1> QED
  BY <1>1, <1>2 DEF Progress

LEMMA BodyCutProgress ==
    ASSUME HttpInv, NEW c \in Connections, Progress(c), BodyCut(c)
    PROVE  Progress(c)'
<1>1. /\ pc[c] = "body" /\ up /\ Running(c) /\ pc' = [pc EXCEPT ![c] = "closing"]
      /\ UNCHANGED <<link, reply>>
  BY DEF BodyCut, Thread, Goto, Running, link_vars
<1>2. link[c] \in {"ended", "reset"}
  BY <1>1, UnreadStream DEF BodyCut
<1>3. pc'[c] = "closing" /\ reply[c] = None
  BY <1>1 DEF HttpInv, Shape, TypeOK, Progress
<1> QED
  BY <1>1, <1>2, <1>3 DEF Progress

LEMMA BodyReadProgress ==
    ASSUME HttpInv, NEW c \in Connections, Progress(c), BodyRead(c)
    PROVE  Progress(c)'
<1>0. /\ Running(c) /\ up /\ UNCHANGED <<link, request, sent, reply>>
      /\ pc[c] = "body" /\ reply[c] = None /\ Missing(c) = 0
      /\ answer'[c] = parse_and_process(request_buf[c]) /\ pc'[c] = "answer"
      /\ (Cut(c) /\ request_buf[c] = <<>>) \/ InBody(c)
  <2>1. /\ Running(c) /\ up /\ UNCHANGED <<link, request, sent, reply>>
        /\ pc[c] = "body" /\ Missing(c) = 0
        /\ answer' = [answer EXCEPT ![c] = parse_and_process(request_buf[c])]
        /\ pc' = [pc EXCEPT ![c] = "answer"]
    BY DEF BodyRead, Thread, Running, Goto, link_vars
  <2>2. c \in DOMAIN pc /\ c \in DOMAIN answer
    BY DEF HttpInv, Shape, TypeOK
  <2> QED
    BY <2>1, <2>2 DEF Progress
<1>1. CASE Cut(c) /\ request_buf[c] = <<>>
  <2>1. answer'[c] = "empty"
    BY <1>0, <1>1, EmptyLogin
  <2>2. answer'[c] \notin {"in", "refused", None}
    BY <2>1, HttpAssumption
  <2>3. Short(c)'
    BY <1>0, <1>1 DEF Cut, Short, Service!Sufficient
  <2> QED
    BY <1>0, <2>2, <2>3 DEF Progress
<1>2. CASE InBody(c)
  <2> DEFINE r == request[c]
             t == taken[c]
             h == Service!HeadLength(r)
  <2>1. /\ r \in Seq(Pieces) /\ t \in Nat /\ sent[c] \in Nat /\ t <= sent[c]
    BY <1>0, UnreadStream
  <2>2. /\ Service!WellFormed(r) /\ r[1] = "post"
        /\ t = h + Service!Announced(r)
        /\ request_buf[c] = SubSeq(r, h + 1, t)
    <3>1. request_buf[c] \in Seq(Pieces) /\ countlen[c] \in 0..2
      BY DEF HttpInv, Shape, TypeOK
    <3>2. Len(request_buf[c]) = countlen[c]
      BY <1>0, <3>1 DEF Missing
    <3> QED
      BY <1>2, <3>2 DEF InBody
  <2>3. t = Service!Needed(r)
    BY <2>2 DEF Service!Needed
  <2>4. Service!Expected(r) = Service!Logins(SubSeq(r, h + 1, Service!Needed(r)))
    BY <2>2 DEF Service!Expected, Service!Body
  <2>5. answer'[c] \in Service!Expected(r)
    BY <1>0, <2>2, <2>3, <2>4, LoginDecided
  <2>6. Service!WellFormed(r) /\ sent[c] >= Service!Needed(r)
    BY <2>1, <2>2, <2>3
  <2>7. request'[c] = r /\ sent'[c] = sent[c]
    BY <1>0
  <2> HIDE DEF r, t, h
  <2>8. Decided(c)'
    BY <2>5, <2>6, <2>7 DEF Decided, Service!Sufficient
  <2> QED
    BY <1>0, <2>8 DEF Progress
<1> QED
  BY <1>0, <1>1, <1>2

LEMMA RespondProgress ==
    ASSUME WellMade, HttpInv, NEW c \in Connections, Progress(c), Respond(c)
    PROVE  Progress(c)'
<1>1. /\ Running(c) /\ up /\ pc[c] = "answer" /\ Peer(c) = c
      /\ UNCHANGED link /\ pc'[c] = "closing" /\ c \in DOMAIN reply
  BY UnreadStream
  DEF Respond, Thread, Running, Goto, link_vars, HttpInv, Shape, TypeOK
<1>2. CASE /\ link[Peer(c)] # "reset"
           /\ reply' = [reply EXCEPT ![Peer(c)] = answer[c]]
  <2>1. answer[c] # None
    BY <1>1, <1>2, AnswerIsRight
  <2> QED
    BY <1>1, <1>2, <2>1 DEF Progress
<1>3. CASE /\ answer[c] \in Service!Pages
           /\ reply' = [reply EXCEPT ![Peer(c)] = Service!HeaderOf(answer[c])]
  <2>1. Service!HeaderOf(answer[c]) # None
    BY <1>3, HeadersAreReplies
  <2> QED
    BY <1>1, <1>3, <2>1 DEF Progress
<1>4. CASE link[Peer(c)] # "open"
  <2>1. link[c] \in {"ended", "reset"}
    BY <1>1, <1>4, UnreadStream DEF HttpInv, Shape, TypeOK
  <2> QED
    BY <1>1, <2>1 DEF Progress
<1> QED
  BY <1>2, <1>3, <1>4 DEF Respond

LEMMA CloseProgress ==
    ASSUME HttpInv, NEW c \in Connections, Progress(c), Close(c)
    PROVE  Progress(c)'
<1>1. pc'[c] = "done"
  BY DEF Close, Goto, HttpInv, Shape, TypeOK
<1> QED
  BY <1>1 DEF Progress

LEMMA ThreadProgress ==
    ASSUME WellMade, HttpInv, NEW c \in Connections, Progress(c), msg(c)
    PROVE  Progress(c)'
BY BeginProgress, ReadRequestProgress, ReadHeaderProgress, ReadPostHeaderProgress,
   ReadBodyProgress, BodyCutProgress, BodyReadProgress, RespondProgress, CloseProgress
DEF msg

-----------------------------------------------------------------------------
(* Everybody else's steps. *)

LEMMA ProgressStays ==
    ASSUME NEW d \in Connections, Progress(d),
           link'[d] = link[d], request'[d] = request[d], sent'[d] = sent[d],
           taken'[d] = taken[d], reply'[d] = reply[d], pc'[d] = pc[d],
           countlen'[d] = countlen[d], request_buf'[d] = request_buf[d],
           answer'[d] = answer[d]
    PROVE  Progress(d)'
BY DEF Progress, AtStart, Counted, Short, Cut, InBody, Decided, Service!Sufficient

LEMMA OwnOnly ==
    ASSUME HttpInv, NEW c \in Connections, msg(c), NEW d \in Connections, d # c
    PROVE  /\ sent' = sent /\ countlen'[d] = countlen[d]
           /\ request_buf'[d] = request_buf[d] /\ answer'[d] = answer[d]
<1>1. sent' = sent
  BY DEF msg, Begin, ReadRequest, ReadHeader, ReadPostHeader, ReadBody, BodyCut,
         BodyRead, Respond, Close, link_vars
<1>2. countlen'[d] = countlen[d]
  BY DEF msg, Begin, ReadRequest, ReadHeader, ReadPostHeader, ReadBody, BodyCut,
         BodyRead, Respond, Close, thread_vars, HttpInv, Shape, TypeOK
<1>3. request_buf'[d] = request_buf[d]
  BY DEF msg, Begin, ReadRequest, ReadHeader, ReadPostHeader, ReadBody, BodyCut,
         BodyRead, Respond, Close, thread_vars, HttpInv, Shape, TypeOK
<1>4. answer'[d] = answer[d]
  BY DEF msg, Begin, ReadRequest, ReadHeader, ReadPostHeader, ReadBody, BodyCut,
         BodyRead, Respond, Close, thread_vars, HttpInv, Shape, TypeOK
<1> QED
  BY <1>1, <1>2, <1>3, <1>4

LEMMA SendProgress ==
    ASSUME HttpInv, NEW c \in Connections, Progress(c), Send(c)
    PROVE  Progress(c)'
<1>1. /\ link[c] = "open" /\ sent[c] \in Nat /\ sent'[c] = sent[c] + 1
      /\ UNCHANGED <<link, request, taken, reply, pc, countlen, request_buf, answer>>
  BY DEF Send, thread_vars, HttpInv, Shape, TypeOK
<1>2. request[c] \in Seq(Pieces)
  <2>1. request[c] # None
    BY <1>1 DEF HttpInv, Owned
  <2>2. request[c] \in Requests[c]
    BY <2>1 DEF HttpInv, Shape, TypeOK
  <2> QED
    BY <2>2, RequestsAreStreams
<1>3. Service!Needed(request[c]) \in Nat
  BY <1>2, NeededType
<1>4. ~ Short(c) /\ ~ Cut(c)
  BY <1>1 DEF Short, Cut
<1>5. Decided(c) => Decided(c)'
  BY <1>1, <1>3 DEF Decided, Service!Sufficient
<1>6. /\ AtStart(c) => AtStart(c)'
      /\ Counted(c) => Counted(c)'
      /\ InBody(c) => InBody(c)'
  BY <1>1 DEF AtStart, Counted, InBody
<1> QED
  BY <1>1, <1>4, <1>5, <1>6 DEF Progress

LEMMA EndProgress ==
    ASSUME HttpInv, NEW c \in Connections, NEW how \in {"ended", "reset"},
           Progress(c), End(c, how)
    PROVE  Progress(c)'
<1>1. /\ link'[c] \in {"ended", "reset"} /\ link[c] # "reset"
      /\ UNCHANGED <<request, sent, taken, reply, pc, countlen, request_buf, answer>>
  BY DEF End, thread_vars, HttpInv, Shape, TypeOK
<1>2. /\ Short(c) => Short(c)'
      /\ Cut(c) => Cut(c)'
      /\ Decided(c) => Decided(c)'
  BY <1>1 DEF Short, Cut, Decided, Service!Sufficient
<1>3. /\ AtStart(c) => AtStart(c)'
      /\ Counted(c) => Counted(c)'
      /\ InBody(c) => InBody(c)'
  BY <1>1 DEF AtStart, Counted, InBody
<1> QED
  BY <1>1, <1>2, <1>3 DEF Progress

LEMMA AcceptProgress ==
    ASSUME HttpInv, NEW c \in Connections, NEW r \in Requests[c], Accept(c, r),
           Progress(c)
    PROVE  Progress(c)'
<1>1. /\ pc[c] = "none" /\ pc'[c] = "created" /\ UNCHANGED <<taken, countlen, reply>>
  BY DEF Accept, HttpInv, Shape, TypeOK, Owned
<1> QED
  BY <1>1 DEF Progress

LEMMA ServiceNext ==
    ASSUME WellMade, ServiceInv, [Next]_vars
    PROVE  ServiceInv'
<1>0. HttpInv'
  BY HttpNext DEF ServiceInv
<1> SUFFICES ASSUME up', NEW d \in Connections PROVE Progress(d)'
  BY <1>0 DEF ServiceInv
<1>1. CASE UNCHANGED vars
  BY <1>1, ProgressStays DEF vars, link_vars, thread_vars, ServiceInv
<1>2. CASE AcceptFails
  BY <1>2 DEF AcceptFails
<1>3. ASSUME NEW c \in Connections, NEW r \in Requests[c], Accept(c, r)
      PROVE  Progress(d)'
  <2>1. HttpInv /\ Progress(d)
    BY <1>3 DEF Accept, ServiceInv
  <2>2. CASE c = d
    BY <1>3, <2>1, <2>2, AcceptProgress
  <2>3. CASE c # d
    <3>1. /\ UNCHANGED <<sent, taken, reply, countlen, request_buf, answer>>
          /\ link'[d] = link[d] /\ request'[d] = request[d] /\ pc'[d] = pc[d]
      BY <1>3, <2>1, <2>3 DEF Accept, HttpInv, Shape, TypeOK
    <3> QED
      BY <2>1, <3>1, ProgressStays
  <2> QED
    BY <2>2, <2>3
<1>4. ASSUME NEW c \in Connections, Send(c) PROVE Progress(d)'
  <2>1. HttpInv /\ Progress(d)
    BY <1>4 DEF Send, ServiceInv
  <2>2. CASE c = d
    BY <1>4, <2>1, <2>2, SendProgress
  <2>3. CASE c # d
    <3>1. /\ UNCHANGED <<link, request, taken, reply, pc, countlen, request_buf, answer>>
          /\ sent'[d] = sent[d]
      BY <1>4, <2>1, <2>3 DEF Send, thread_vars, HttpInv, Shape
    <3> QED
      BY <2>1, <3>1, ProgressStays
  <2> QED
    BY <2>2, <2>3
<1>5. ASSUME NEW c \in Connections, NEW how \in {"ended", "reset"}, End(c, how)
      PROVE  Progress(d)'
  <2>1. HttpInv /\ Progress(d)
    BY <1>5 DEF End, ServiceInv
  <2>2. CASE c = d
    BY <1>5, <2>1, <2>2, EndProgress
  <2>3. CASE c # d
    <3>1. /\ UNCHANGED <<request, sent, taken, reply, pc, countlen, request_buf, answer>>
          /\ link'[d] = link[d]
      BY <1>5, <2>1, <2>3 DEF End, thread_vars, HttpInv, Shape, TypeOK
    <3> QED
      BY <2>1, <3>1, ProgressStays
  <2> QED
    BY <2>2, <2>3
<1>6. ASSUME NEW c \in Connections, msg(c) PROVE Progress(d)'
  <2>1. /\ HttpInv /\ Progress(c) /\ Progress(d)
        /\ UNCHANGED <<up, link, request>>
        /\ d # c => taken'[d] = taken[d] /\ reply'[d] = reply[d] /\ pc'[d] = pc[d]
    BY <1>6, OthersStay DEF ServiceInv
  <2>2. CASE c = d
    BY <1>6, <2>1, <2>2, ThreadProgress
  <2>3. CASE c # d
    <3>1. /\ sent' = sent /\ countlen'[d] = countlen[d]
          /\ request_buf'[d] = request_buf[d] /\ answer'[d] = answer[d]
      BY <1>6, <2>1, <2>3, OwnOnly
    <3> QED
      BY <2>1, <2>3, <3>1, ProgressStays
  <2> QED
    BY <2>2, <2>3
<1> QED
  BY <1>1, <1>2, <1>3, <1>4, <1>5, <1>6 DEF Next


-----------------------------------------------------------------------------
(* The refinement. *)

Stopped == [c \in Connections |-> link[c] \in {"ended", "reset"}]

LEMMA RespondRefines ==
    ASSUME WellMade, HttpInv, NEW c \in Connections, Progress(c), Respond(c)
    PROVE  Service!Answer(c) \/ UNCHANGED <<request, sent, reply, link>>
<1>1. /\ Running(c) /\ up /\ pc[c] = "answer" /\ reply[c] = None
      /\ UNCHANGED <<link, request, sent>>
  BY DEF Respond, Thread, Running, link_vars, Progress
<1>2. Peer(c) = c /\ request[c] # None
  BY <1>1, UnreadStream, RequestsAreStreams
<1>3. CASE UNCHANGED reply
  BY <1>1, <1>3
<1>4. CASE /\ link[c] # "reset"
           /\ \/ reply' = [reply EXCEPT ![c] = answer[c]]
              \/ /\ answer[c] \in Service!Pages
                 /\ reply' = [reply EXCEPT ![c] = Service!HeaderOf(answer[c])]
  <2>1. /\ answer[c] \in Service!Answers
        /\ Decided(c) \/ (Short(c) /\ answer[c] \notin {"in", "refused"})
    BY <1>1, <1>4, AnswerIsRight
  <2>2. IF Service!Sufficient(c) THEN answer[c] \in Service!Expected(request[c])
        ELSE Stopped[c] /\ answer[c] \notin {"in", "refused"}
    BY <2>1 DEF Decided, Short, Stopped
  <2>3. Stopped' = Stopped
    BY <1>1 DEF Stopped
  <2> QED
    BY <1>1, <1>2, <1>4, <2>1, <2>2, <2>3 DEF Service!Answer, Stopped
<1> QED
  BY <1>2, <1>3, <1>4 DEF Respond

LEMMA CloseRefines ==
    ASSUME HttpInv, NEW c \in Connections, Progress(c), Close(c)
    PROVE  Service!CloseUnanswered(c) \/ UNCHANGED <<request, sent, reply, link>>
<1>1. /\ Running(c) /\ up /\ pc[c] = "closing" /\ UNCHANGED <<link, request, sent>>
  BY DEF Close, Thread, Running, link_vars
<1>2. Peer(c) = c
  BY <1>1, UnreadStream
<1>3. reply' = [reply EXCEPT ![c] = IF @ = None THEN "closed" ELSE @]
  BY <1>2 DEF Close
<1>4. c \in DOMAIN reply /\ reply = [d \in Connections |-> reply[d]]
  BY DEF HttpInv, Shape, TypeOK
<1>5. CASE reply[c] # None
  BY <1>1, <1>3, <1>4, <1>5
<1>6. CASE reply[c] = None
  <2>1. Stopped[c] /\ Stopped' = Stopped
    BY <1>1, <1>6 DEF Progress, Stopped
  <2> QED
    BY <1>1, <1>3, <1>4, <1>6, <2>1 DEF Service!CloseUnanswered, Stopped
<1> QED
  BY <1>5, <1>6

LEMMA ThreadRefines ==
    ASSUME WellMade, HttpInv, NEW c \in Connections, Progress(c), msg(c)
    PROVE  \/ Service!Answer(c) \/ Service!CloseUnanswered(c)
           \/ UNCHANGED <<request, sent, reply, link>>
<1>1. CASE Respond(c)
  BY <1>1, RespondRefines
<1>2. CASE Close(c)
  BY <1>2, CloseRefines
<1>3. CASE \/ Begin(c) \/ ReadRequest(c) \/ ReadHeader(c) \/ ReadPostHeader(c)
           \/ ReadBody(c) \/ BodyCut(c) \/ BodyRead(c)
  BY <1>3 DEF Begin, ReadRequest, ReadHeader, ReadPostHeader, ReadBody, BodyCut,
              BodyRead, link_vars
<1> QED
  BY <1>1, <1>2, <1>3 DEF msg

LEMMA ClientRefines ==
    ASSUME HttpInv, NEW c \in Connections
    PROVE  /\ \A r \in Requests[c] : Accept(c, r) => Service!Connect(c, r)
           /\ Send(c) => Service!Send(c)
           /\ \A how \in {"ended", "reset"} : End(c, how) =>
                 Service!End(c) \/ UNCHANGED <<request, sent, reply, Stopped>>
<1>1. link[c] = "none" <=> request[c] = None
  BY DEF HttpInv, Owned
<1>2. link \in [Connections -> {"none", "open", "ended", "reset"}]
  BY DEF HttpInv, Shape, TypeOK
<1>3. ASSUME NEW r \in Requests[c], Accept(c, r) PROVE Service!Connect(c, r)
  <2>1. /\ link[c] = "none" /\ link' = [link EXCEPT ![c] = "open"]
        /\ request' = [request EXCEPT ![c] = r] /\ UNCHANGED <<sent, reply>>
    BY <1>3 DEF Accept
  <2>2. Stopped' = Stopped
    <3>1. \A d \in Connections :
             link'[d] \in {"ended", "reset"} <=> link[d] \in {"ended", "reset"}
      BY <1>2, <2>1
    <3> QED
      BY <3>1 DEF Stopped
  <2> QED
    BY <1>1, <2>1, <2>2 DEF Service!Connect, Stopped
<1>4. ASSUME Send(c) PROVE Service!Send(c)
  <2>1. /\ link[c] = "open" /\ link' = link /\ sent[c] < Len(request[c])
        /\ sent' = [sent EXCEPT ![c] = @ + 1] /\ UNCHANGED <<request, reply>>
    BY <1>4 DEF Send
  <2>2. ~ Stopped[c] /\ Stopped' = Stopped
    BY <2>1 DEF Stopped
  <2> QED
    BY <1>1, <2>1, <2>2 DEF Service!Send, Stopped
<1>5. ASSUME NEW how \in {"ended", "reset"}, End(c, how)
      PROVE  Service!End(c) \/ UNCHANGED <<request, sent, reply, Stopped>>
  <2>1. /\ link[c] # "none" /\ link' = [link EXCEPT ![c] = how]
        /\ UNCHANGED <<request, sent, reply>>
    BY <1>5 DEF End
  <2>2. Stopped' = [Stopped EXCEPT ![c] = TRUE]
    <3>1. link'[c] = how /\ \A d \in Connections : d # c => link'[d] = link[d]
      BY <1>2, <2>1
    <3>2. \A d \in Connections : (link'[d] \in {"ended", "reset"})
              = (IF d = c THEN TRUE ELSE link[d] \in {"ended", "reset"})
      BY <3>1
    <3> QED
      BY <3>2 DEF Stopped
  <2>3. CASE Stopped[c]
    <3>1. \A d \in Connections : Stopped'[d] = Stopped[d]
      BY <2>2, <2>3 DEF Stopped
    <3> QED
      BY <2>1, <3>1 DEF Stopped
  <2>4. CASE ~ Stopped[c]
    BY <1>1, <2>1, <2>2, <2>4 DEF Service!End, Stopped
  <2> QED
    BY <2>3, <2>4
<1> QED
  BY <1>3, <1>4, <1>5

LEMMA StepRefines ==
    ASSUME WellMade, ServiceInv, [Next]_vars
    PROVE  [Service!Next]_(Service!vars)
<1>0. HttpInv
  BY DEF ServiceInv
<1>1. CASE UNCHANGED <<request, sent, reply, link>>
  BY <1>1 DEF Service!vars
<1>2. CASE UNCHANGED <<request, sent, reply, Stopped>>
  BY <1>2 DEF Service!vars, Stopped
<1>3. CASE UNCHANGED vars \/ AcceptFails
  BY <1>1, <1>3 DEF vars, link_vars, AcceptFails
<1>4. ASSUME NEW c \in Connections, NEW r \in Requests[c], Accept(c, r)
      PROVE  Service!Next
  BY <1>0, <1>4, ClientRefines DEF Service!Next
<1>5. ASSUME NEW c \in Connections, Send(c) PROVE Service!Next
  BY <1>0, <1>5, ClientRefines DEF Service!Next
<1>6. ASSUME NEW c \in Connections, NEW how \in {"ended", "reset"}, End(c, how)
      PROVE  Service!Next \/ UNCHANGED <<request, sent, reply, Stopped>>
  BY <1>0, <1>6, ClientRefines DEF Service!Next
<1>7. ASSUME NEW c \in Connections, msg(c)
      PROVE  Service!Next \/ UNCHANGED <<request, sent, reply, link>>
  <2>1. Progress(c)
    BY <1>0, <1>7, OthersStay DEF ServiceInv
  <2> QED
    BY <1>0, <1>7, <2>1, ThreadRefines DEF Service!Next
<1> QED
  BY <1>1, <1>2, <1>3, <1>4, <1>5, <1>6, <1>7 DEF Next

\* The server implements its service: whatever way the pieces of the requests
\* arrive, each client is given at most one answer, one that its request as a
\* whole calls for or its header alone, no login is decided on a part of a body,
\* and in whatever order its fields come nobody is let in with another password.
THEOREM ServiceKept == ASSUME WellMade PROVE Spec => ImplementsService
<1>1. Init => ServiceInv
  BY HttpInit DEF Init, ServiceInv, Progress
<1>2. ServiceInv /\ [Next]_vars => ServiceInv'
  BY ServiceNext
<1>3. Init => Service!Init
  <2> SUFFICES ASSUME Init PROVE Service!Init
    OBVIOUS
  <2>1. \A c \in Connections : (link[c] \in {"ended", "reset"}) = FALSE
    BY DEF Init
  <2>2. Stopped = [c \in Connections |-> FALSE]
    BY <2>1, Zenon DEF Stopped
  <2> QED
    BY <2>2 DEF Init, Service!Init, Stopped
<1>4. ServiceInv /\ [Next]_vars => [Service!Next]_(Service!vars)
  BY StepRefines
<1> QED
  BY <1>1, <1>2, <1>3, <1>4, PTL DEF Spec, ImplementsService, Service!Spec


=============================================================================
