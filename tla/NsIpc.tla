-------------------------------- MODULE NsIpc -------------------------------
(***************************************************************************)
(* lib/nsipc.c: an environment calls the network server.  A call writes    *)
(* its request into the page nsipcbuf, sends the page with ipc_send, so    *)
(* that the server shares it, and takes the next message that ipc_recv     *)
(* gives it as the reply; accept and recv take a page with it at REQVA.    *)
(*                                                                         *)
(* The server and the two system calls are external: a send and a receive  *)
(* meet; the server reads a page it was sent at a time of its own, answers *)
(* each request once, in any order, with an error or with what was asked   *)
(* for; any other environment may send a message too.                      *)
(*                                                                         *)
(* A request is abstracted to the number of the call, its operation and    *)
(* the size that it is given; a page of data to the number and operation   *)
(* of the call it answers.  What a copy past the end of the request page   *)
(* overwrites is not modelled: the call goes on, or the program stops.     *)
(***************************************************************************)
EXTENDS FiniteSets, Integers

CONSTANTS
  LIMIT,      \* the most bytes of a packet and one, 1600 in the code
  ROOM,       \* the bytes for a name or a packet in the request page
  MaxSize,    \* bound: sizes
  MaxCalls,   \* bound: calls
  MaxStrays   \* bound: messages from others

ASSUME NsIpcAssumption ==
  /\ LIMIT \in Nat \ {0} /\ ROOM \in Nat /\ LIMIT <= ROOM
  /\ MaxSize \in Nat /\ MaxCalls \in Nat /\ MaxStrays \in Nat

DataPage(n, op) == [n |-> n, op |-> op]

Stray == 0
NoPage == DataPage(-1, "none")

VARIABLES
  pc,         \* "caller", "ipc_send", "ipc_recv", or "dead"
  call,       \* the call that runs, or the last: what it asks and its number
  nsipcbuf,   \* the request in the page
  reqva,      \* the data in the page mapped at REQVA, or NoPage
  mem,        \* the data copied to the caller by this call, or NoPage
  reply,      \* the message taken as the reply: its value and its page, and
              \* (history) the call that it answers
  served,     \* the requests that the server has to answer
  strays      \* history: how many messages from others were taken

client == <<pc, call, nsipcbuf, reqva, mem, reply>>
vars == <<client, served, strays>>

Request(op, n, size) == [op |-> op, n |-> n, size |-> size]
Message(from, r, page) == [from |-> from, r |-> r, page |-> page]

Init ==
  /\ pc = "caller"
  /\ call = Request("none", 0, 0) /\ nsipcbuf = call
  /\ reqva = NoPage /\ mem = NoPage
  /\ reply = Message(Stray, 0, NoPage)
  /\ served = {} /\ strays = 0
-----------------------------------------------------------------------------
(* The calls.                                                              *)
begins(op, size) ==
  /\ pc = "caller"
  /\ call.n < MaxCalls
  /\ call' = Request(op, call.n + 1, size)
  /\ mem' = NoPage
  /\ UNCHANGED <<reqva, reply, served, strays>>

request(op, size) ==
  /\ begins(op, size)
  /\ nsipcbuf' = call'
  /\ pc' = "ipc_send"

\* The program stops before it sends; what it has written of the request is in
\* the page.
stops(op, size) ==
  /\ begins(op, size)
  /\ nsipcbuf' \in {nsipcbuf, call'}
  /\ pc' = "dead"

\* The call copies size bytes of its caller into the page.  A negative size is
\* a size_t without end; past the end of the page the copy may fault or not.
copies(op, size) ==
  \/ size >= 0 /\ request(op, size)
  \/ size \notin 0 .. ROOM /\ stops(op, size)

nsipc_accept == request("accept", 0)
nsipc_bind(namelen) == copies("bind", namelen)
nsipc_shutdown == request("shutdown", 0)
nsipc_close == request("close", 0)
nsipc_connect(namelen) == copies("connect", namelen)
nsipc_listen == request("listen", 0)
nsipc_recv(len) == request("recv", len)
nsipc_socket == request("socket", 0)

\* Too much to send fails the assertion, which a negative size passes.
nsipc_send(size) ==
  \/ size < LIMIT /\ copies("send", size)
  \/ size >= LIMIT /\ stops("send", size)
-----------------------------------------------------------------------------
(* nsipc.                                                                  *)

\* Mutant: the answer to a close is not waited for.
send_close ==
  /\ pc = "ipc_send"
  /\ served' = served \cup {[n |-> call.n, read |-> FALSE, page |-> nsipcbuf]}
  /\ pc' = IF call.op = "close" THEN "caller" ELSE "ipc_recv"
  /\ UNCHANGED <<call, nsipcbuf, reqva, mem, reply, strays>>

ipc_send ==
  /\ pc = "ipc_send"
  /\ served' = served \cup {[n |-> call.n, read |-> FALSE, page |-> nsipcbuf]}
  /\ pc' = "ipc_recv"
  /\ UNCHANGED <<call, nsipcbuf, reqva, mem, reply, strays>>

TakesPage == call.op \in {"accept", "recv"}

\* Mutant: a page is mapped at REQVA only once.
Mapped_once(m) == IF TakesPage /\ reqva = NoPage THEN m.page ELSE reqva

\* The page at REQVA after the message m: an earlier one stays there.
Mapped(m) == IF TakesPage /\ m.page # NoPage THEN m.page ELSE reqva

\* Mutant: recv refuses a packet that fills the caller's memory.
overflow_full(r) == r >= LIMIT \/ r >= call.size

overflow(r) == r >= LIMIT \/ r > call.size

\* Whether bytes of the page are copied to the caller: by accept whatever r
\* is; by recv r of them.
Copies(r) == call.op = "accept" \/ (call.op = "recv" /\ r # 0)

\* recv fails its assertion, or passes it with an r that as a size_t has no
\* end; or the copy is from a page that is not there.
Kills(r, page) ==
  \/ call.op = "recv" /\ (overflow(r) \/ r < 0)
  \/ Copies(r) /\ page = NoPage

\* accept takes the length of its copy from the page, where a packet or a
\* message of others has any bytes.
AnyLength(page) == call.op = "accept" /\ page.op # "accept"

\* ipc_recv, and what the call does with the message before it returns.
returns(m) ==
  /\ pc = "ipc_recv"
  /\ reply' = m
  /\ reqva' = Mapped(m)
  /\ \/ /\ Kills(m.r, Mapped(m)) \/ AnyLength(Mapped(m))
        /\ pc' = "dead" /\ UNCHANGED mem
     \/ /\ ~Kills(m.r, Mapped(m))
        /\ pc' = "caller"
        /\ mem' = IF Copies(m.r) THEN Mapped(m) ELSE NoPage
  /\ UNCHANGED <<call, nsipcbuf>>
-----------------------------------------------------------------------------
(* The server, and the others.                                             *)
reads(q) ==
  /\ ~q.read
  /\ served' = (served \ {q}) \cup {[q EXCEPT !.read = TRUE, !.page = nsipcbuf]}
  /\ UNCHANGED <<client, strays>>

answers(q) ==
  /\ q.read
  /\ \/ returns(Message(q.n, -1, NoPage))
     \/ /\ q.page.op \in {"accept", "recv"}
        /\ \E r \in 0 .. LIMIT - 1 :
             /\ r <= q.page.size \/ q.page.size < 0
             /\ returns(Message(q.n, r, DataPage(q.n, q.page.op)))
     \/ /\ q.page.op \notin {"accept", "recv"}
        /\ returns(Message(q.n, 0, NoPage))
  /\ served' = served \ {q}
  /\ UNCHANGED strays

stray(r, page) ==
  /\ strays < MaxStrays
  /\ returns(Message(Stray, r, page))
  /\ strays' = strays + 1
  /\ UNCHANGED served

Next ==
  \/ nsipc_accept \/ nsipc_shutdown \/ nsipc_close \/ nsipc_listen \/ nsipc_socket
  \/ \E size \in -1 .. MaxSize :
       nsipc_bind(size) \/ nsipc_connect(size) \/ nsipc_recv(size) \/ nsipc_send(size)
  \/ ipc_send
  \/ \E q \in served : reads(q) \/ answers(q)
  \/ \E r \in -1 .. LIMIT, page \in {DataPage(Stray, "other"), NoPage} : stray(r, page)

Spec == Init /\ [][Next]_vars
-----------------------------------------------------------------------------
(* Properties.                                                             *)

\* The identity of the sender is thrown away (line 27), so a message from
\* another environment ends the call, and its answer is left for a later one:
\* the server owes one answer more for every such message, for good.
OneAnswerOwed ==
  Cardinality(served) = strays + (IF pc = "ipc_recv" THEN 1 ELSE 0)

\* While no other environment sends, the server reads in the shared page the
\* request it was sent, a call returns the answer to that request, and what it
\* copies to the caller came with it, or, with an error, with an earlier one.
OwnReply ==
  strays = 0 =>
    /\ \A q \in served : q.read => q.page.n = q.n
    /\ pc = "caller" =>
         /\ reply.from = call.n
         /\ mem # NoPage => mem.n = call.n \/ (reply.r < 0 /\ mem.n < call.n)

\* What a call may be given: the assertions check a part of it only.
InBounds(q) ==
  /\ q.op \in {"bind", "connect"} => q.size \in 0 .. ROOM
  /\ q.op = "send" => q.size \in 0 .. LIMIT - 1
  /\ q.op = "recv" => q.size >= 0

\* While no other environment sends, a call whose sizes are in bounds stops the
\* program only for an error that the server answered to it: recv has it for
\* the size of a copy, and accept copies from a page that is not there, or
\* takes the packet of an earlier recv for an address and its length (lines
\* 43 and 126).
DiesForErrorsOnly ==
  pc = "dead" /\ strays = 0 /\ InBounds(call) =>
    /\ reply.from = call.n /\ reply.r < 0
    /\ call.op = "recv" \/ (call.op = "accept" /\ reqva.op # "accept")
=============================================================================
