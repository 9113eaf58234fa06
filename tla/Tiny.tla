--------------------------------- MODULE Tiny ---------------------------------
(***************************************************************************)
(* The iterative web server (os_course_code/code/netp/tiny/tiny.c) and   *)
(* the CGI programs it forks.  What a request asks for is one of Kinds;  *)
(* a response is the parts that rio_writen() sends.                      *)
(***************************************************************************)
EXTENDS Integers, Sequences, SequencesExt, FiniteSets

CONSTANTS Browsers,     \* one connection each
          MaxHeaders    \* bound: header lines of a request

ASSUME TinyAssumption == MaxHeaders \in Nat

NoBrowser == [is |-> "none"]
\* What doit() finds out of the request line, and stat() of the file.
Kinds == {"post", "missing", "unreadable", "static", "notexecutable", "cgi"}

VARIABLES
  asked,     \* of a browser: what it asks for, and the header lines it is going to send
  arrived,   \* lines that are in the socket, the blank one with them
  link,      \* "closed" or "open" as the server has it; "waiting" to be accepted
  there,     \* the browser has not gone away
  reply,     \* the parts that were sent
  serving, phase,  \* whom the server serves, and where in doit() it is
  toSend,    \* the parts it has still to send
  cgi,       \* the child: "none", "running", or "zombie"
  silent     \* history: the browsers whose CGI program has written nothing

tinyVars == <<asked, arrived, link, there, reply, serving, phase, toSend, cgi, silent>>

TinyInit ==
  /\ \E k \in [Browsers -> Kinds], h \in 0..MaxHeaders :
       asked = [b \in Browsers |-> [kind |-> k[b], lines |-> h + 2]]
  /\ arrived = [b \in Browsers |-> 0] /\ link = [b \in Browsers |-> "none"]
  /\ there = [b \in Browsers |-> TRUE] /\ reply = [b \in Browsers |-> <<>>]
  /\ serving = NoBrowser /\ phase = "accept" /\ toSend = <<>> /\ cgi = "none"
  /\ silent = {}

Step1(a, b) == phase = a /\ phase' = b
Server == <<serving, phase, toSend, cgi>>
Browser == <<asked, arrived, link, there, silent>>

-----------------------------------------------------------------------------
(* The browser sends the request line, its headers and a blank line. *)

Calls(b) ==
  /\ link[b] = "none" /\ link' = [link EXCEPT ![b] = "waiting"]
  /\ UNCHANGED <<asked, arrived, there, reply, Server, silent>>

SendsLine(b) ==
  /\ link[b] # "none" /\ there[b] /\ asked[b].lines > 0
  /\ asked' = [asked EXCEPT ![b].lines = @ - 1]
  /\ arrived' = [arrived EXCEPT ![b] = @ + 1]
  /\ UNCHANGED <<link, there, reply, Server, silent>>

GoesAway(b) ==
  /\ link[b] # "none" /\ there[b] /\ there' = [there EXCEPT ![b] = FALSE]
  /\ UNCHANGED <<asked, arrived, link, reply, Server, silent>>

-----------------------------------------------------------------------------
TinyAccept ==
  /\ Step1("accept", "request")
  /\ \E b \in Browsers : /\ link[b] = "waiting" /\ serving' = b
                         /\ link' = [link EXCEPT ![b] = "open"]
  /\ UNCHANGED <<asked, arrived, there, reply, toSend, cgi, silent>>

ErrorReply(k) == <<"status " \o k, "type", "length", "body">>
ReplyTo(kind) ==
  CASE kind = "post"                            -> ErrorReply("501")
    [] kind = "missing"                         -> ErrorReply("404")
    [] kind \in {"unreadable", "notexecutable"} -> ErrorReply("403")
    [] kind = "static"                          -> <<"status 200", "body">>
    [] kind = "cgi"                             -> <<"status 200", "server">>

Takes(b) == arrived' = [arrived EXCEPT ![b] = @ - 1]

\* The request line.  What is not GET is refused at once.
RequestLine ==
  LET b == serving IN
  /\ phase = "request" /\ arrived[b] > 0 /\ Takes(b)
  /\ IF asked[b].kind = "post"
     THEN phase' = "send" /\ toSend' = ReplyTo("post")
     ELSE phase' = "firstheader" /\ UNCHANGED toSend
  /\ UNCHANGED <<asked, link, there, reply, serving, cgi, silent>>

\* At the end of file rio_readlineb() leaves buf as it is, here uninitialised: it may
\* look like any request of an earlier connection, or like none that is known.
RequestEof ==
  LET b == serving IN
  /\ phase = "request" /\ arrived[b] = 0 /\ ~there[b]
  /\ \E k \in Kinds : /\ asked' = [asked EXCEPT ![b].kind = k]
                      /\ IF k = "post"
                         THEN phase' = "send" /\ toSend' = ReplyTo(k)
                         ELSE phase' = "firstheader" /\ UNCHANGED toSend
  /\ UNCHANGED <<arrived, link, there, reply, serving, cgi, silent>>

Reading1 == phase \in {"firstheader", "headers"}
Replies == phase' = "send" /\ toSend' = ReplyTo(asked[serving].kind)

\* read_requesthdrs(): up to the blank line.
HeaderLine ==
  LET b == serving IN
  /\ Reading1 /\ arrived[b] > 0 /\ Takes(b)
  /\ IF asked[b].lines = 0 /\ arrived[b] = 1 THEN Replies
     ELSE phase' = "headers" /\ UNCHANGED toSend
  /\ UNCHANGED <<asked, link, there, reply, serving, cgi, silent>>

\* The blank line never comes: the loop reads the end of file again and again, unless
\* there was no header at all and buf, uninitialised, happens to hold a blank line.
HeadersEof ==
  /\ Reading1 /\ arrived[serving] = 0 /\ ~there[serving]
  /\ \/ phase' = "spins" /\ UNCHANGED toSend
     \/ phase = "firstheader" /\ Replies
  /\ UNCHANGED <<Browser, reply, serving, cgi>>

AfterPart == IF Len(toSend) > 1 THEN "send"
             ELSE IF asked[serving].kind = "cgi" THEN "fork" ELSE "close"

\* rio_writen() of the next part.
SendPart ==
  /\ phase = "send" /\ there[serving]
  /\ reply' = [reply EXCEPT ![serving] = Append(@, Head(toSend))]
  /\ toSend' = Tail(toSend)
  /\ phase' = AfterPart
  /\ UNCHANGED <<Browser, serving, cgi>>

\* Nobody is there to read: the write succeeds into the socket's buffer, or SIGPIPE
\* or unix_error() ends the server.
SendFails ==
  /\ phase = "send" /\ ~there[serving]
  /\ \/ phase' = "dead" /\ UNCHANGED toSend
     \/ toSend' = Tail(toSend) /\ phase' = AfterPart
  /\ UNCHANGED <<Browser, reply, serving, cgi>>

\* serve_static() has sent the header; Open() or Mmap(), which fails for an empty file,
\* ends the server.
MapFails ==
  /\ phase = "send" /\ toSend = <<"body">> /\ asked[serving].kind = "static"
  /\ phase' = "dead"
  /\ UNCHANGED <<Browser, reply, serving, toSend, cgi>>

-----------------------------------------------------------------------------
\* Fork() and wait() of serve_dynamic(); Fork() may fail, which ends the server.
ForkCgi ==
  /\ phase = "fork"
  /\ \/ phase' = "wait" /\ cgi' = "running"
     \/ phase' = "dead" /\ UNCHANGED cgi
  /\ UNCHANGED <<Browser, reply, serving, toSend>>

\* The CGI program writes to the descriptor that it has as its standard output, and
\* ends;
CgiWrites ==
  /\ cgi = "running"
  /\ reply' = IF there[serving] THEN [reply EXCEPT ![serving] = Append(@, "cgi")] ELSE reply
  /\ cgi' = "zombie"
  /\ UNCHANGED <<Browser, serving, phase, toSend>>

\* or it writes nothing, or Execve() fails and the child exits.
CgiSilent ==
  /\ cgi = "running"
  /\ silent' = silent \cup {serving}
  /\ cgi' = "zombie"
  /\ UNCHANGED <<asked, arrived, link, there, reply, serving, phase, toSend>>

\* Mutant of WaitCgi: the server does not wait.
WaitCgiNot ==
  /\ Step1("wait", "close")
  /\ UNCHANGED <<Browser, reply, serving, toSend, cgi>>

WaitCgi ==
  /\ cgi = "zombie" /\ Step1("wait", "close") /\ cgi' = "none"
  /\ UNCHANGED <<Browser, reply, serving, toSend>>

TinyClose ==
  /\ Step1("close", "accept")
  /\ link' = [link EXCEPT ![serving] = "closed"]
  /\ serving' = NoBrowser
  /\ UNCHANGED <<asked, arrived, there, reply, toSend, cgi, silent>>

TinyNext ==
  \/ \E b \in Browsers : Calls(b) \/ SendsLine(b) \/ GoesAway(b)
  \/ TinyAccept \/ RequestLine \/ RequestEof \/ HeaderLine \/ HeadersEof
  \/ SendPart \/ SendFails \/ MapFails \/ ForkCgi \/ CgiWrites \/ CgiSilent
  \/ WaitCgi \/ TinyClose

TinySpec == TinyInit /\ [][TinyNext]_tinyVars

-----------------------------------------------------------------------------
WholeReply(b) ==
  ReplyTo(asked[b].kind) \o (IF asked[b].kind = "cgi" /\ b \notin silent THEN <<"cgi">> ELSE <<>>)

\* A browser that stays gets the answer to what it asked, all of it before its
\* connection is closed, what its CGI program writes included, and nothing of another
\* one's; no CGI program outlives its connection.
TinySound ==
  /\ \A b \in Browsers : there[b] =>
       /\ IsPrefix(reply[b], WholeReply(b))
       /\ link[b] = "closed" => reply[b] = WholeReply(b)
       /\ link[b] \in {"none", "waiting"} => reply[b] = <<>>
  /\ cgi # "none" => serving # NoBrowser /\ link[serving] = "open"
  /\ {b \in Browsers : link[b] = "open"} = (IF serving = NoBrowser THEN {} ELSE {serving})
  /\ phase = "spins" => ~there[serving]
=============================================================================
