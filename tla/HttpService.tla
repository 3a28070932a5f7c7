---------------------------- MODULE HttpService ----------------------------
(***************************************************************************)
(* What the HTTP server promises a client, one request on one connection:  *)
(* at most one answer; to a request that is well formed, the answer that   *)
(* the standard's reading of it calls for, and not before all of it that   *)
(* counts has been sent; to one that ends early an answer that decides     *)
(* nothing, or none; and no client that stays is turned away unanswered.   *)
(* Of an answer that is a page the page may be missing, never its status.  *)
(*                                                                         *)
(* A request is a sequence of pieces: a request line, header lines, the    *)
(* characters that end lines, and parts of a body.                         *)
(***************************************************************************)
EXTENDS Naturals, Sequences, FiniteSets, FiniteSetsExt

CONSTANTS
    Connections,
    Requests,       \* the requests of each connection
    None

VARIABLES
    request,        \* what the client of each connection has to say
    sent,           \* how many of its pieces it has sent
    ended,          \* whether it has shut its side, or reset the connection
    reply           \* the answer; "closed" if closed without; or None

vars == <<request, sent, ended, reply>>

Answers == {"405", "404", "page", "empty", "in", "refused"}

Pages == {"405", "404", "page"}

\* What there is of a page's answer when the page is not sent to its end.
HeaderOf(a) ==
    CASE a = "405" -> "405 header"
      [] a = "404" -> "404 header"
      [] a = "page" -> "200 header"

Replies == Answers \cup {HeaderOf(a) : a \in Pages}

\* The places where a blank line ends; a request without one has none.
Blanks(r) == {i \in 4..Len(r) : SubSeq(r, i - 3, i) = <<"CR", "LF", "CR", "LF">>}

WellFormed(r) == Blanks(r) # {}

HeadLength(r) == IF WellFormed(r) THEN Min(Blanks(r)) ELSE Len(r) + 1

Announced(r) ==
    IF "length2" \in {r[i] : i \in DOMAIN r} THEN 2
    ELSE IF "length1" \in {r[i] : i \in DOMAIN r} THEN 1 ELSE 0

\* A body counts for a post to a page that is there, and as far as announced.
Needed(r) == HeadLength(r) + (IF r[1] = "post" THEN Announced(r) ELSE 0)

\* A login succeeds only with a password equal to the name, and always if it
\* comes as the form of login.html gives it: the name, then the password.
Logins(body) ==
    LET parts == {body[i] : i \in DOMAIN body}
    IN  IF body = <<"username", "password1">> THEN {"in"}
        ELSE IF {"username", "password1"} \subseteq parts THEN {"in", "refused"}
        ELSE IF {"username", "password2"} \subseteq parts THEN {"refused"}
        ELSE {"empty"}

Body(r) == SubSeq(r, HeadLength(r) + 1, Needed(r))

\* The answers that a request may be given.
Expected(r) ==
    CASE r[1] = "put" -> {"405"}
      [] r[1] \in {"getMissing", "postMissing"} -> {"404"}
      [] r[1] = "get" -> {"page"}
      [] r[1] = "getQuery" -> {"empty"}
      [] r[1] = "post" -> Logins(Body(r))

-----------------------------------------------------------------------------
Init ==
    /\ request = [c \in Connections |-> None]
    /\ sent = [c \in Connections |-> 0]
    /\ ended = [c \in Connections |-> FALSE]
    /\ reply = [c \in Connections |-> None]

Connect(c, r) ==
    /\ request[c] = None
    /\ request' = [request EXCEPT ![c] = r]
    /\ UNCHANGED <<sent, reply, ended>>

Send(c) ==
    /\ request[c] # None /\ ~ ended[c]
    /\ sent[c] < Len(request[c])
    /\ sent' = [sent EXCEPT ![c] = @ + 1]
    /\ UNCHANGED <<request, reply, ended>>

End(c) ==
    /\ request[c] # None /\ ~ ended[c]
    /\ ended' = [ended EXCEPT ![c] = TRUE]
    /\ UNCHANGED <<request, sent, reply>>

Sufficient(c) == WellFormed(request[c]) /\ sent[c] >= Needed(request[c])

Answer(c) ==
    /\ request[c] # None /\ reply[c] = None
    /\ \E a \in Answers :
          /\ IF Sufficient(c) THEN a \in Expected(request[c])
                              ELSE ended[c] /\ a \notin {"in", "refused"}
          /\ \/ reply' = [reply EXCEPT ![c] = a]
             \/ a \in Pages /\ reply' = [reply EXCEPT ![c] = HeaderOf(a)]
    /\ UNCHANGED <<request, sent, ended>>

CloseUnanswered(c) ==
    /\ reply[c] = None /\ ended[c]
    /\ reply' = [reply EXCEPT ![c] = "closed"]
    /\ UNCHANGED <<request, sent, ended>>

Next ==
    \E c \in Connections :
        \/ \E r \in Requests[c] : Connect(c, r)
        \/ Send(c) \/ End(c)
        \/ Answer(c) \/ CloseUnanswered(c)

Spec == Init /\ [][Next]_vars

=============================================================================
