---------------------------- MODULE MCHttpServer ----------------------------
(* An instance of HttpServer for TLC. *)
EXTENDS HttpServer

CONSTANTS c1, c2

Row(piece) == <<piece, "CR", "LF">>
Blank == <<"CR", "LF">>

Streams == {
    Row("get") \o Blank,
    Row("put") \o Blank,
    Row("getQuery") \o Blank,
    Row("post") \o Row("length2") \o Blank \o <<"username", "password1">>,
    Row("post") \o Row("length2") \o Blank \o <<"username", "password2">>,
    Row("post") \o Row("length2") \o Blank \o <<"password1", "username">>,
    \* more of a body than is announced
    Row("post") \o Row("length1") \o Blank \o <<"username", "password1">>,
    Row("postMissing") \o Row("length1") \o Blank,
    \* lines ended by '\n': no header ends
    <<"get", "LF", "LF">> }

\* Connections meet in the table of descriptors only: one of the two has any
\* stream and the other one whose lines end in '\r', answered when it ends.
AnyAndOne ==
    [c \in Connections |->
        IF c = c1 THEN Streams ELSE {<<"get", "CR">>}]

=============================================================================
