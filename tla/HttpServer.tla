----------------------------- MODULE HttpServer -----------------------------
(***************************************************************************)
(* The HTTP server: main accepts connections and starts a detached thread  *)
(* for each, which reads one request from its socket, line by line,        *)
(* answers it and closes the socket.                                       *)
(*                                                                         *)
(* A stream is a sequence of pieces (see HttpService).  get_line receives  *)
(* one character at a time from a stream that only its own thread reads,   *)
(* so a call is one step, taken when what it returns is determined.  The   *)
(* answer is one step too: it is sent whole, or without its page when that *)
(* cannot be opened or sent, or the client has gone.                       *)
(* Lines and bodies are shorter than their buffers, request lines name a   *)
(* version, the pages do not change, and a thread can be created.          *)
(***************************************************************************)
EXTENDS Integers, Sequences, FiniteSets, FiniteSetsExt

CONSTANTS
    Connections,
    Requests,       \* the streams the client of each connection may send
    Fds,            \* the descriptors the program may have for connections
    None

ASSUME HttpAssumption ==
    /\ Fds \subseteq Nat
    /\ DOMAIN Requests = Connections
    /\ None \notin Connections \cup Fds
    /\ None \notin {"405", "404", "page", "empty", "in", "refused",
                    "405 header", "404 header", "200 header"}
    /\ \A c \in Connections :
          /\ None \notin Requests[c]
          /\ \A r \in Requests[c] : r \in Seq({r[i] : i \in DOMAIN r})

VARIABLES
    up,             \* main has not returned
    \* connections
    link,           \* "none", "open"; "ended" or "reset" by the client
    request, sent, reply,
    taken,          \* pieces the server has received
    table,          \* the connection behind each descriptor, or None
    \* the thread of each connection
    pc,
    argv,           \* the int that main has allocated for it
    sock,           \* the descriptor it has read from there
    line,           \* whether buf[0] is not '\0' in the loop over a post's header
    countlen,
    request_buf,
    answer          \* what it is going to send

link_vars == <<link, request, sent>>
thread_vars == <<argv, sock, line, countlen, request_buf, answer>>
vars == <<up, link_vars, reply, taken, table, pc, thread_vars>>

Init ==
    /\ up = TRUE
    /\ link = [c \in Connections |-> "none"]
    /\ request = [c \in Connections |-> None]
    /\ sent = [c \in Connections |-> 0]
    /\ reply = [c \in Connections |-> None]
    /\ taken = [c \in Connections |-> 0]
    /\ table = [f \in Fds |-> None]
    /\ pc = [c \in Connections |-> "none"]
    /\ argv = [c \in Connections |-> None]
    /\ sock = [c \in Connections |-> None]
    /\ line = [c \in Connections |-> FALSE]
    /\ countlen = [c \in Connections |-> 0]
    /\ request_buf = [c \in Connections |-> <<>>]
    /\ answer = [c \in Connections |-> None]

-----------------------------------------------------------------------------
(* main and the clients. *)

Free == {f \in Fds : table[f] = None}

\* Mutant: every thread is given the address of main's one variable.
AcceptShared(c, r) ==
    /\ up /\ link[c] = "none"
    /\ Free # {}
    /\ link' = [link EXCEPT ![c] = "open"]
    /\ request' = [request EXCEPT ![c] = r]
    /\ table' = [table EXCEPT ![Min(Free)] = c]
    /\ argv' = [d \in Connections |-> Min(Free)]
    /\ pc' = [pc EXCEPT ![c] = "created"]
    /\ UNCHANGED <<up, sent, reply, taken, sock, line, countlen, request_buf, answer>>

\* A client connects, to say r, and main starts a thread with an int of its own.
Accept(c, r) ==
    /\ up /\ link[c] = "none"
    /\ Free # {}
    /\ link' = [link EXCEPT ![c] = "open"]
    /\ request' = [request EXCEPT ![c] = r]
    /\ table' = [table EXCEPT ![Min(Free)] = c]
    /\ argv' = [argv EXCEPT ![c] = Min(Free)]
    /\ pc' = [pc EXCEPT ![c] = "created"]
    /\ UNCHANGED <<up, sent, reply, taken, sock, line, countlen, request_buf, answer>>

\* accept fails, for want of a descriptor or because a client has gone: main
\* returns, and all threads are gone with the program and its memory.
AcceptFails ==
    /\ up
    /\ up' = FALSE
    /\ table' = [f \in Fds |-> None]
    /\ pc' = [c \in Connections |-> "gone"]
    /\ taken' = [c \in Connections |-> 0]
    /\ argv' = [c \in Connections |-> None]
    /\ sock' = [c \in Connections |-> None]
    /\ line' = [c \in Connections |-> FALSE]
    /\ countlen' = [c \in Connections |-> 0]
    /\ request_buf' = [c \in Connections |-> <<>>]
    /\ answer' = [c \in Connections |-> None]
    /\ UNCHANGED <<link_vars, reply>>

Send(c) ==
    /\ up /\ link[c] = "open"
    /\ sent[c] < Len(request[c])
    /\ sent' = [sent EXCEPT ![c] = @ + 1]
    /\ UNCHANGED <<up, link, request, reply, taken, table, pc, thread_vars>>

End(c, how) ==
    /\ up /\ link[c] \notin {"none", "reset", how}
    /\ link' = [link EXCEPT ![c] = how]
    /\ UNCHANGED <<up, request, sent, reply, taken, table, pc, thread_vars>>

-----------------------------------------------------------------------------
(* get_line *)

Peer(c) == table[sock[c]]

Unread(c) == SubSeq(request[Peer(c)], taken[Peer(c)] + 1, sent[Peer(c)])

FirstBreak(s) ==
    {i \in DOMAIN s : s[i] \in {"CR", "LF"}
                      /\ \A j \in 1..(i - 1) : s[j] \notin {"CR", "LF"}}

\* Mutant: the '\n' behind a '\r' is not received.
ConsumedNoPeek(s, i) == i

\* A '\r' ends a line, and the '\n' behind it goes with it.
Consumed(s, i) == IF s[i] = "CR" /\ s[i + 1] = "LF" THEN i + 1 ELSE i

\* A line whose end is there: what follows a '\r' has to be seen.  A '\n' that
\* has no '\r' before it is left in the buffer.
WholeLines(s) ==
    {[kind |-> "whole",
      text |-> SubSeq(s, 1, IF s[i] = "LF" THEN i ELSE i - 1),
      used |-> Consumed(s, i)] :
        i \in {j \in FirstBreak(s) : s[j] = "LF" \/ j < Len(s)}}

\* What a call may return.  At the end of the stream it returns 0, as it does
\* after a blank line, and leaves in the buffer what it has received.
get_line(c) ==
    LET s == Unread(c)
        eof == [kind |-> "eof",
                text |-> SelectSeq(s, LAMBDA p : p # "CR"),
                used |-> Len(s)]
        error == [kind |-> "error", text |-> <<>>, used |-> 0]
    IN  WholeLines(s)
        \cup (IF link[Peer(c)] = "ended" /\ WholeLines(s) = {} THEN {eof} ELSE {})
        \cup (IF link[Peer(c)] = "reset" THEN {error} ELSE {})

-----------------------------------------------------------------------------
(* The thread: msg, msg_handle and what that calls. *)

Thread(c, from) == up /\ pc[c] = from

Goto(c, to) == pc' = [pc EXCEPT ![c] = to]

Receive(c, n) == taken' = [taken EXCEPT ![Peer(c)] = @ + n]

Begin(c) ==
    /\ Thread(c, "created")
    /\ sock' = [sock EXCEPT ![c] = argv[c]]
    /\ Goto(c, "request")
    /\ UNCHANGED <<up, link_vars, reply, taken, table, argv, line, countlen,
                   request_buf, answer>>

\* Mutant: an error page is sent with the header unread.
AfterRequestLineUnread(method) ==
    IF method = "post" THEN "postHeader"
    ELSE IF method \in {"put", "getMissing", "postMissing"} THEN "answer"
    ELSE "header"

\* Everything but a post to a page that is there goes on with clear_header.
AfterRequestLine(method) == IF method = "post" THEN "postHeader" ELSE "header"

AnswerTo(method) ==
    CASE method = "put" -> "405"
      [] method \in {"getMissing", "postMissing"} -> "404"
      [] method = "get" -> "page"
      [] OTHER -> "empty"

ReadRequest(c) ==
    /\ Thread(c, "request")
    /\ \E l \in get_line(c) :
          /\ Receive(c, l.used)
          /\ IF l.kind = "error" \/ l.text = <<>>
             THEN Goto(c, "closing") /\ UNCHANGED answer
             ELSE /\ Goto(c, AfterRequestLine(l.text[1]))
                  /\ answer' = [answer EXCEPT ![c] = AnswerTo(l.text[1])]
    /\ UNCHANGED <<up, link_vars, reply, table, argv, sock, line, countlen, request_buf>>

\* Mutant: the end of the stream is no end of the header.
HeaderEndsAtBlank(l) == l.kind = "error" \/ (l.kind = "whole" /\ l.text = <<>>)

\* get_line has returned 0, for either reason, or -1.
HeaderEnds(l) == l.kind # "whole" \/ l.text = <<>>

\* A turn of clear_header.  Its result is used by none of its callers.
ReadHeader(c) ==
    /\ Thread(c, "header")
    /\ \E l \in get_line(c) :
          /\ Receive(c, l.used)
          /\ IF HeaderEnds(l) THEN Goto(c, "answer") ELSE UNCHANGED pc
    /\ UNCHANGED <<up, link_vars, reply, table, thread_vars>>

LengthIn(text, before) ==
    IF text = <<>> THEN before
    ELSE CASE text[1] = "length1" -> 1
           [] text[1] = "length2" -> 2
           [] OTHER -> before

\* A turn of the loop over a post's header, which looks at the buffer and not
\* at a returned 0: at the end of the stream it is left only if no line has been
\* read, and goes on for ever if one has.
ReadPostHeader(c) ==
    /\ Thread(c, "postHeader")
    /\ \E l \in get_line(c) :
          LET filled == l.text # <<>> \/ (l.kind = "eof" /\ line[c])
          IN  /\ Receive(c, l.used)
              /\ IF l.kind = "error" THEN Goto(c, "closing")
                 ELSE IF filled THEN UNCHANGED pc
                 ELSE Goto(c, "body")
              /\ line' = [line EXCEPT ![c] = filled]
              /\ countlen' = [countlen EXCEPT ![c] = LengthIn(l.text, @)]
    /\ UNCHANGED <<up, link_vars, reply, table, argv, sock, request_buf, answer>>

Missing(c) == countlen[c] - Len(request_buf[c])

\* Mutant: what is there is received, not what is missing.
PortionsOfAll(c) == 1..Len(Unread(c))

\* recv gives some of what is there, and no more than is missing.
Portions(c) == {n \in 1..Len(Unread(c)) : n <= Missing(c)}

ReadBody(c) ==
    /\ Thread(c, "body")
    /\ Missing(c) > 0
    /\ \E n \in Portions(c) :
          /\ request_buf' = [request_buf EXCEPT ![c] = @ \o SubSeq(Unread(c), 1, n)]
          /\ Receive(c, n)
    /\ UNCHANGED <<up, link_vars, reply, table, pc, argv, sock, line, countlen, answer>>

\* The stream ends, or recv fails, before the body does: no answer.
BodyCut(c) ==
    /\ Thread(c, "body")
    /\ Missing(c) > 0
    /\ \/ link[Peer(c)] = "ended" /\ Unread(c) = <<>>
       \/ link[Peer(c)] = "reset"
    /\ Goto(c, "closing")
    /\ UNCHANGED <<up, link_vars, reply, taken, table, thread_vars>>

Fields(body) == {body[i] : i \in DOMAIN body}

\* parse_and_process and handle_login, for a body of two pieces at most: the
\* name is cut off where the password's field begins, and compared with what
\* follows.  A password that comes first is compared with its own field and the
\* name's behind it (and the '\0' is written in front of the buffer).
parse_and_process(body) ==
    IF "username" \notin Fields(body) \/ Fields(body) \cap {"password1", "password2"} = {}
    THEN "empty"
    ELSE IF body = <<"username", "password1">> THEN "in" ELSE "refused"

BodyRead(c) ==
    /\ Thread(c, "body")
    /\ Missing(c) = 0
    /\ answer' = [answer EXCEPT ![c] = parse_and_process(request_buf[c])]
    /\ Goto(c, "answer")
    /\ UNCHANGED <<up, link_vars, reply, taken, table, argv, sock, line, countlen,
                   request_buf>>

Service == INSTANCE HttpService WITH
    ended <- [c \in Connections |-> link[c] \in {"ended", "reset"}]

\* The answer is sent; a send may fail when the client has gone, and to any
\* client open or sendfile may fail when the header has been sent.
Respond(c) ==
    /\ Thread(c, "answer")
    /\ \/ /\ link[Peer(c)] # "reset"
          /\ reply' = [reply EXCEPT ![Peer(c)] = answer[c]]
       \/ /\ link[Peer(c)] # "reset" /\ answer[c] \in Service!Pages
          /\ reply' = [reply EXCEPT ![Peer(c)] = Service!HeaderOf(answer[c])]
       \/ /\ link[Peer(c)] # "open"
          /\ UNCHANGED reply
    /\ Goto(c, "closing")
    /\ UNCHANGED <<up, link_vars, taken, table, thread_vars>>

\* close(sock); the thread deletes its int and returns.
Close(c) ==
    /\ Thread(c, "closing")
    /\ reply' = [reply EXCEPT ![Peer(c)] = IF @ = None THEN "closed" ELSE @]
    /\ table' = [table EXCEPT ![sock[c]] = None]
    /\ Goto(c, "done")
    /\ UNCHANGED <<up, link_vars, taken, thread_vars>>

-----------------------------------------------------------------------------
msg(c) ==
    \/ Begin(c) \/ ReadRequest(c) \/ ReadHeader(c) \/ ReadPostHeader(c)
    \/ ReadBody(c) \/ BodyCut(c) \/ BodyRead(c) \/ Respond(c) \/ Close(c)

Next ==
    \/ AcceptFails
    \/ \E c \in Connections :
          \/ \E r \in Requests[c] : Accept(c, r)
          \/ Send(c)
          \/ \E how \in {"ended", "reset"} : End(c, how)
          \/ msg(c)

Spec == Init /\ [][Next]_vars

\* The threads are scheduled, and what a client has sent arrives.
FairSpec == Spec /\ \A c \in Connections : WF_vars(msg(c))

-----------------------------------------------------------------------------
(* Properties. *)

Running(c) == pc[c] \notin {"none", "created", "done", "gone"}

\* Every variable keeps its kind of value, and a body never holds more than was
\* announced (recv asks for countlen - total, line 266).
TypeOK ==
    /\ up \in BOOLEAN
    /\ link \in [Connections -> {"none", "open", "ended", "reset"}]
    /\ \A c \in Connections : request[c] \in Requests[c] \cup {None}
    /\ reply \in [Connections -> Service!Replies \cup {"closed", None}]
    /\ table \in [Fds -> Connections \cup {None}]
    /\ pc \in [Connections -> {"none", "created", "request", "header", "postHeader",
                               "body", "answer", "closing", "done", "gone"}]
    /\ argv \in [Connections -> Fds \cup {None}]
    /\ sock \in [Connections -> Fds \cup {None}]
    /\ line \in [Connections -> BOOLEAN]
    /\ countlen \in [Connections -> 0..2]
    /\ answer \in [Connections -> Service!Answers \cup {None}]
    /\ \A c \in Connections :
          /\ taken[c] \in 0..sent[c]
          /\ request[c] = None => sent[c] = 0
          /\ request[c] # None => sent[c] \in 0..Len(request[c])
          /\ Len(request_buf[c]) <= countlen[c]

\* A thread serves the connection it was started for and no other, from its
\* first read to its close, while descriptors are closed and given out again
\* under it (main.cpp 40-46: an address for each thread); and a descriptor that
\* is open has a thread that will close it.
OwnSocket ==
    \A c \in Connections :
        /\ Running(c) => sock[c] # None /\ Peer(c) = c
        /\ \A f \in Fds : table[f] = c => Running(c) \/ pc[c] = "created"

\* Before anything is sent to a client that is still there, the message in front
\* is read to the end of its header, error pages not excepted (summary.md: the
\* message buffered before is to be read before data is sent to the browser).
ReadBeforeAnswer ==
    \A c \in Connections :
        up /\ reply[c] # None /\ link[c] = "open" =>
            taken[c] >= Service!HeadLength(request[c])

\* The server implements its service: reading line by line, it gives a well
\* formed request an answer that a reading of the whole calls for, with the body
\* found where it begins; it decides no login on a part of a body, and lets
\* nobody in with another password, in whatever order the fields come; it
\* answers once, with the right status if the page itself cannot be sent; and it
\* closes without an answer only on a client that has ended.
ImplementsService == Service!Spec

\* A post whose header was cut by the end of the stream, after a line of it.
Spins(c) ==
    /\ pc[c] = "postHeader" /\ line[c]
    /\ link[c] = "ended" /\ taken[c] = sent[c]

\* A thread comes to its end, with its descriptor closed, when its client has
\* ended its side or has sent all of a well formed request; unless the program
\* has ended or the thread is in the loop of lines 244-258, which never ends.
HandlersReturn ==
    \A c \in Connections :
        (link[c] \in {"ended", "reset"}
         \/ (link[c] # "none" /\ Service!Sufficient(c)))
        ~> (~ up \/ pc[c] = "done" \/ Spins(c))

=============================================================================
