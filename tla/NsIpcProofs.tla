---------------------------- MODULE NsIpcProofs ----------------------------
(***************************************************************************)
(* Two invariants of NsIpc.  IInv is what a call relies on while no other  *)
(* environment sends: the server owes one answer at most, the one to the   *)
(* request that is in the page.  OInv counts the answers that are owed     *)
(* whoever sends.                                                          *)
(***************************************************************************)
EXTENDS NsIpc, FiniteSetTheorems, TLAPS

Ops == {"none", "accept", "bind", "shutdown", "close", "connect", "listen", "recv",
        "send", "socket"}
Requests == [op : Ops, n : Nat, size : Int]

\* A page at REQVA is that of an earlier call, or of this one once it is over.
PagesAreOld ==
  /\ reqva.n \in Int /\ reqva.n <= call.n
  /\ pc \in {"ipc_send", "ipc_recv"} => reqva.n < call.n

\* The request in the page is that of the call, and the only one to answer.
OneRequest ==
  /\ pc \in {"ipc_send", "ipc_recv"} => nsipcbuf = call
  /\ pc # "ipc_recv" => served = {}
  /\ pc = "ipc_recv" =>
       \E q \in [n : Nat, read : BOOLEAN, page : Requests] :
         served = {q} /\ q.n = call.n /\ q.page = call

Typed ==
  /\ pc \in {"caller", "ipc_send", "ipc_recv", "dead"}
  /\ call \in Requests
  /\ strays \in Nat

\* The inductive invariant.
IInv ==
  /\ Typed
  /\ strays = 0 => PagesAreOld /\ OneRequest /\ OwnReply /\ DiesForErrorsOnly
-----------------------------------------------------------------------------
\* The start of a call, with its request in the page.
LEMMA RequestStep ==
  ASSUME IInv, NEW op \in Ops, NEW size \in Int, request(op, size)
  PROVE  IInv'
<1> USE NsIpcAssumption DEF Request, NoPage
<1>1. Typed'
  BY DEF IInv, Typed, Requests, request, begins
<1>2. ASSUME strays' = 0
      PROVE  (PagesAreOld /\ OneRequest /\ OwnReply /\ DiesForErrorsOnly)'
  <2>1. strays = 0 /\ call.n \in Nat /\ call'.n = call.n + 1
    BY <1>2 DEF IInv, Typed, Requests, request, begins
  <2>2. PagesAreOld'
    BY <2>1 DEF IInv, PagesAreOld, request, begins
  <2>3. OneRequest' /\ OwnReply' /\ DiesForErrorsOnly'
    BY <2>1 DEF IInv, OneRequest, OwnReply, DiesForErrorsOnly, request, begins
  <2> QED  BY <2>2, <2>3
<1> QED  BY <1>1, <1>2 DEF IInv

\* The program stops before anything is sent, for a size out of bounds.
LEMMA StopStep ==
  ASSUME IInv, NEW op \in Ops, NEW size \in Int, stops(op, size),
         ~InBounds(Request(op, call.n + 1, size))
  PROVE  IInv'
<1> USE NsIpcAssumption DEF Request, NoPage
<1>1. Typed'
  <2>1. call.n + 1 \in Nat
    BY DEF IInv, Typed, Requests
  <2>2. call' \in Requests
    BY <2>1 DEF stops, begins, Requests
  <2> QED  BY <2>2 DEF IInv, Typed, stops, begins
<1>2. ASSUME strays' = 0
      PROVE  (PagesAreOld /\ OneRequest /\ OwnReply /\ DiesForErrorsOnly)'
  <2>1. /\ strays = 0 /\ call.n \in Nat /\ call' = Request(op, call.n + 1, size)
        /\ pc = "caller" /\ pc' = "dead" /\ UNCHANGED reqva
    BY <1>2 DEF IInv, Typed, Requests, stops, begins
  <2>2. PagesAreOld'
    BY <2>1 DEF IInv, PagesAreOld
  <2>3. served' = {}
    BY <2>1 DEF IInv, OneRequest, stops, begins
  <2>4. OneRequest' /\ OwnReply'
    BY <2>1, <2>3 DEF OneRequest, OwnReply
  <2>5. DiesForErrorsOnly'
    BY <2>1 DEF DiesForErrorsOnly, InBounds
  <2> QED  BY <2>2, <2>4, <2>5
<1> QED  BY <1>1, <1>2 DEF IInv

\* The request reaches the server, which has no other.
LEMMA SendStep ==
  ASSUME IInv, ipc_send
  PROVE  IInv'
<1> USE NsIpcAssumption DEF NoPage
<1>1. Typed'
  BY DEF IInv, Typed, ipc_send
<1>2. ASSUME strays' = 0
      PROVE  (PagesAreOld /\ OneRequest /\ OwnReply /\ DiesForErrorsOnly)'
  <2> DEFINE q == [n |-> call.n, read |-> FALSE, page |-> nsipcbuf]
  <2>1. strays = 0 /\ call \in Requests /\ call.n \in Nat /\ nsipcbuf = call
    BY <1>2 DEF IInv, Typed, Requests, OneRequest, ipc_send
  <2>2. served' = {q}
    BY <2>1 DEF IInv, OneRequest, ipc_send
  <2>3. PagesAreOld'
    BY <2>1 DEF IInv, PagesAreOld, ipc_send
  <2>4. q \in [n : Nat, read : BOOLEAN, page : Requests] /\ q.n = call.n /\ q.page = call
    BY <2>1
  <2>5. OneRequest'
    BY <2>1, <2>2, <2>4 DEF OneRequest, ipc_send
  <2>6. OwnReply' /\ DiesForErrorsOnly'
    BY <2>1, <2>2 DEF OwnReply, DiesForErrorsOnly, ipc_send
  <2> QED  BY <2>3, <2>5, <2>6
<1> QED  BY <1>1, <1>2 DEF IInv

\* The server reads the page.
LEMMA ReadStep ==
  ASSUME IInv, NEW q \in served, reads(q)
  PROVE  IInv'
<1>1. Typed'
  BY DEF IInv, Typed, reads, client
<1>2. ASSUME strays' = 0
      PROVE  (PagesAreOld /\ OneRequest /\ OwnReply /\ DiesForErrorsOnly)'
  <2> DEFINE p == [q EXCEPT !.read = TRUE, !.page = nsipcbuf]
  <2>1. strays = 0 /\ call \in Requests /\ pc = "ipc_recv"
    BY <1>2 DEF IInv, Typed, OneRequest, reads, client
  <2>2. /\ served = {q} /\ q \in [n : Nat, read : BOOLEAN, page : Requests]
        /\ q.n = call.n /\ nsipcbuf = call
    BY <2>1 DEF IInv, OneRequest
  <2>3. p \in [n : Nat, read : BOOLEAN, page : Requests] /\ p.n = call.n /\ p.page = call
    BY <2>1, <2>2
  <2>4. served' = {p}
    BY <2>2 DEF reads
  <2>5. UNCHANGED <<pc, call, nsipcbuf, reqva, mem, reply, strays>>
    BY DEF reads, client
  <2>6. PagesAreOld' /\ DiesForErrorsOnly'
    BY <2>1, <2>5 DEF IInv, PagesAreOld, DiesForErrorsOnly
  <2>7. OneRequest' /\ OwnReply'
    BY <2>1, <2>2, <2>3, <2>4, <2>5 DEF OneRequest, OwnReply
  <2> QED  BY <2>6, <2>7
<1> QED  BY <1>1, <1>2 DEF IInv

\* The answer: of a call that asks for a page, with the page or an error.
LEMMA AnswerStep ==
  ASSUME IInv, NEW q \in served, answers(q)
  PROVE  IInv'
<1> USE NsIpcAssumption DEF NoPage, Message
<1>1. pc = "ipc_recv" /\ UNCHANGED <<call, nsipcbuf, strays>> /\ pc' \in {"caller", "dead"}
      /\ served' = served \ {q}
  BY DEF answers, returns
<1>2. Typed'
  BY <1>1 DEF IInv, Typed
<1>3. ASSUME strays' = 0
      PROVE  (PagesAreOld /\ OneRequest /\ OwnReply /\ DiesForErrorsOnly)'
  <2>1. /\ strays = 0 /\ served' = {} /\ q.n = call.n /\ q.page = call
        /\ call.n \in Nat /\ call.size \in Int
        /\ reqva.n \in Int /\ reqva.n < call.n
    BY <1>1, <1>3 DEF IInv, Typed, Requests, OneRequest, PagesAreOld
  <2>2. OneRequest'
    BY <1>1, <2>1 DEF OneRequest
  <2>3. ASSUME returns(Message(q.n, -1, NoPage))
        PROVE  (PagesAreOld /\ OwnReply /\ DiesForErrorsOnly)'
    <3>1. reqva' = reqva
      BY <2>3 DEF returns, Mapped
    <3>2. reply'.from = call'.n /\ reply'.r < 0
      BY <1>1, <2>1, <2>3 DEF returns
    <3>3. mem' # NoPage /\ pc' = "caller" => mem' = reqva
      BY <2>3 DEF returns, Mapped
    <3>4. pc' = "dead" => call.op = "recv" \/ (call.op = "accept" /\ reqva.op # "accept")
      BY <2>3 DEF returns, Mapped, Kills, Copies, AnyLength, DataPage
    <3>5. DiesForErrorsOnly'
      BY <1>1, <3>1, <3>2, <3>4 DEF DiesForErrorsOnly
    <3> QED  BY <1>1, <2>1, <3>1, <3>2, <3>3, <3>5 DEF PagesAreOld, OwnReply
  <2>4. ASSUME NEW r \in 0 .. LIMIT - 1, r <= call.size \/ call.size < 0, TakesPage,
               returns(Message(q.n, r, DataPage(q.n, call.op)))
        PROVE  (PagesAreOld /\ OwnReply /\ DiesForErrorsOnly)'
    <3> DEFINE page == DataPage(call.n, call.op)
    <3>1. page.n = call.n /\ page.op = call.op /\ page # NoPage
      BY <2>1 DEF DataPage
    <3>2. Mapped(Message(q.n, r, DataPage(q.n, call.op))) = page
      BY <2>1, <2>4, <3>1 DEF Mapped
    <3> HIDE DEF page
    <3>3. reqva' = page /\ reply'.from = call'.n
      BY <1>1, <2>1, <2>4, <3>2 DEF returns
    <3>4. pc' = "caller" => mem' \in {page, NoPage}
      BY <2>4, <3>2 DEF returns
    <3>5. pc' = "dead" => call.op = "recv" /\ call.size < 0
      BY <2>1, <2>4, <3>1, <3>2 DEF returns, Kills, AnyLength, overflow
    <3>6. DiesForErrorsOnly'
      BY <1>1, <2>1, <3>5 DEF DiesForErrorsOnly, InBounds
    <3> QED  BY <1>1, <2>1, <3>1, <3>3, <3>4, <3>6 DEF PagesAreOld, OwnReply
  <2>5. ASSUME ~TakesPage, returns(Message(q.n, 0, NoPage))
        PROVE  (PagesAreOld /\ OwnReply /\ DiesForErrorsOnly)'
    <3>1. reqva' = reqva /\ pc' = "caller" /\ mem' = NoPage
      BY <2>5 DEF returns, Mapped, TakesPage, Kills, Copies, AnyLength
    <3>2. reply'.from = call'.n
      BY <1>1, <2>1, <2>5 DEF returns
    <3> QED  BY <1>1, <2>1, <3>1, <3>2 DEF PagesAreOld, OwnReply, DiesForErrorsOnly
  <2> QED  BY <2>1, <2>2, <2>3, <2>4, <2>5 DEF answers, TakesPage
<1> QED  BY <1>2, <1>3 DEF IInv

\* A message from elsewhere ends what is promised.
LEMMA StrayStep ==
  ASSUME IInv, NEW r, NEW page, stray(r, page)
  PROVE  IInv'
<1>1. Typed' /\ strays' # 0
  BY DEF IInv, Typed, stray, returns
<1> QED  BY <1>1 DEF IInv
-----------------------------------------------------------------------------
\* The invariant holds in every state.
LEMMA Invariance == Spec => []IInv
<1>1. Init => IInv
  <2> SUFFICES ASSUME Init PROVE IInv
    OBVIOUS
  <2>1. "none" \in Ops /\ 0 \in Nat
    BY DEF Ops
  <2>2. call \in Requests /\ call.n = 0
    BY <2>1 DEF Init, Request, Requests
  <2>3. reply.from = 0
    BY DEF Init, Message, Stray
  <2>4. PagesAreOld /\ OneRequest /\ OwnReply /\ DiesForErrorsOnly
    BY <2>2, <2>3 DEF Init, NoPage, DataPage, PagesAreOld, OneRequest, OwnReply, DiesForErrorsOnly
  <2> QED  BY <2>2, <2>4 DEF IInv, Init, Typed
<1>2. IInv /\ [Next]_vars => IInv'
  <2> SUFFICES ASSUME IInv, [Next]_vars PROVE IInv'
    OBVIOUS
  <2>1. ASSUME NEW op \in Ops, NEW size \in Int, request(op, size) PROVE IInv'
    BY <2>1, RequestStep
  <2>2. ASSUME NEW op \in Ops, NEW size \in Int, stops(op, size),
               ~InBounds(Request(op, call.n + 1, size))
        PROVE  IInv'
    BY <2>2, StopStep
  <2>3. CASE \/ nsipc_accept \/ nsipc_shutdown \/ nsipc_close \/ nsipc_listen
             \/ nsipc_socket
    BY <2>1, <2>3
    DEF Ops, nsipc_accept, nsipc_shutdown, nsipc_close, nsipc_listen, nsipc_socket
  <2>4. ASSUME NEW size \in -1 .. MaxSize,
               \/ nsipc_bind(size) \/ nsipc_connect(size)
               \/ nsipc_recv(size) \/ nsipc_send(size)
        PROVE  IInv'
    <3>1. size \in Int /\ {"bind", "connect", "recv", "send"} \subseteq Ops
      BY DEF Ops
    <3>2. ASSUME NEW op \in {"bind", "connect", "send"}, copies(op, size)
          PROVE  IInv'
      <4>1. size \notin 0 .. ROOM => ~InBounds(Request(op, call.n + 1, size))
        BY <3>1, NsIpcAssumption DEF InBounds, Request
      <4> QED  BY <2>1, <2>2, <3>1, <3>2, <4>1 DEF copies
    <3>3. ASSUME size >= LIMIT, stops("send", size)
          PROVE  IInv'
      <4>1. ~InBounds(Request("send", call.n + 1, size))
        BY <3>1, <3>3, NsIpcAssumption DEF InBounds, Request
      <4> QED  BY <2>2, <3>1, <3>3, <4>1
    <3> QED  BY <2>1, <2>4, <3>1, <3>2, <3>3
             DEF nsipc_bind, nsipc_connect, nsipc_recv, nsipc_send
  <2>5. CASE ipc_send  BY <2>5, SendStep
  <2>6. ASSUME NEW q \in served, reads(q) \/ answers(q) PROVE IInv'
    BY <2>6, ReadStep, AnswerStep
  <2>7. ASSUME NEW r, NEW page, stray(r, page) PROVE IInv'
    BY <2>7, StrayStep
  <2>8. CASE UNCHANGED vars
    BY <2>8
    DEF vars, client, IInv, Typed, PagesAreOld, OneRequest, OwnReply, DiesForErrorsOnly
  <2> QED  BY <2>3, <2>4, <2>5, <2>6, <2>7, <2>8 DEF Next
<1> QED  BY <1>1, <1>2, PTL DEF Spec

\* A call returns the answer to its own request, with the page that came with
\* it, whatever is called and however late the server reads and answers, as
\* long as no other environment sends (lib/nsipc.c).
THEOREM CallsAreAnswered == Spec => []OwnReply
<1>1. IInv => OwnReply
  BY DEF IInv, OwnReply
<1> QED  BY <1>1, Invariance, PTL

\* A call whose sizes are in bounds stops the program only for an error that
\* the server answered to it: recv, or accept with no page or a packet at REQVA,
\* as long as no other environment sends (lib/nsipc.c:43 and 126).
THEOREM CallsDieForErrors == Spec => []DiesForErrorsOnly
<1>1. IInv => DiesForErrorsOnly
  BY DEF IInv, DiesForErrorsOnly
<1> QED  BY <1>1, Invariance, PTL
-----------------------------------------------------------------------------
(* The answers owed, whoever sends.                                        *)

Owed == [n : Nat, read : BOOLEAN, page : Requests]

\* At most one answer is owed for a call, and none yet for a call that has not
\* sent its request.
OnePerCall ==
  /\ served \subseteq Owed
  /\ \A p, q \in served : p.n = q.n => p = q
  /\ \A q \in served : q.n <= call.n /\ (pc = "ipc_send" => q.n < call.n)

\* The inductive invariant.
OInv ==
  /\ Typed /\ nsipcbuf \in Requests
  /\ IsFiniteSet(served)
  /\ OnePerCall
  /\ OneAnswerOwed

\* A step of the caller that leaves the server alone, the new call included.
LEMMA BeginStep ==
  ASSUME OInv, NEW op \in Ops, NEW size \in Int, begins(op, size),
         \/ pc' = "ipc_send" /\ nsipcbuf' = call'
         \/ pc' = "dead" /\ nsipcbuf' \in {nsipcbuf, call'}
  PROVE  OInv'
<1>1. /\ call' = [op |-> op, n |-> call.n + 1, size |-> size]
      /\ pc = "caller" /\ UNCHANGED <<served, strays>> /\ call.n \in Nat
  BY DEF OInv, Typed, Requests, begins, Request
<1>2. call' \in Requests
  BY <1>1 DEF Requests
<1>3. Typed' /\ (nsipcbuf \in Requests)' /\ IsFiniteSet(served)'
  BY <1>1, <1>2 DEF OInv, Typed
<1>4. OnePerCall'
  <2>1. \A q \in served : q.n \in Nat /\ q.n <= call.n
    BY DEF OInv, OnePerCall, Owed
  <2>2. \A q \in served' : q.n <= call'.n /\ q.n < call'.n
    BY <1>1, <2>1
  <2> QED  BY <1>1, <2>2 DEF OInv, OnePerCall
<1>5. OneAnswerOwed'
  BY <1>1 DEF OInv, OneAnswerOwed
<1> QED  BY <1>3, <1>4, <1>5 DEF OInv

\* The request that is sent is owed one answer more.
LEMMA SendOwes ==
  ASSUME OInv, ipc_send
  PROVE  OInv'
<1> DEFINE q == [n |-> call.n, read |-> FALSE, page |-> nsipcbuf]
<1>1. /\ pc = "ipc_send" /\ pc' = "ipc_recv" /\ served' = served \cup {q}
      /\ UNCHANGED <<call, nsipcbuf, strays>>
  BY DEF ipc_send
<1>2. q \in Owed /\ q.n = call.n /\ call.n \in Nat
  BY DEF OInv, Typed, Requests, Owed
<1>3. \A p \in served : p.n \in Nat /\ p.n < call.n
  BY <1>1 DEF OInv, OnePerCall, Owed
<1>4. q \notin served
  BY <1>2, <1>3
<1>5. IsFiniteSet(served') /\ Cardinality(served') = Cardinality(served) + 1
  BY <1>1, <1>4, FS_AddElement DEF OInv
<1>6. OnePerCall'
  <2>1. served' \subseteq Owed
    BY <1>1, <1>2 DEF OInv, OnePerCall
  <2>2. \A p, r \in served' : p.n = r.n => p = r
    <3>1. \A p, r \in served : p.n = r.n => p = r
      BY DEF OInv, OnePerCall
    <3>2. \A p \in served : p.n # q.n
      BY <1>2, <1>3
    <3> HIDE DEF q
    <3> QED  BY <1>1, <3>1, <3>2
  <2>3. \A p \in served' : p.n <= call.n
    BY <1>1, <1>2, <1>3
  <2> QED  BY <1>1, <2>1, <2>2, <2>3 DEF OnePerCall
<1>7. OneAnswerOwed'
  BY <1>1, <1>5 DEF OInv, OneAnswerOwed, Typed
<1>8. Typed' /\ (nsipcbuf \in Requests)'
  BY <1>1 DEF OInv, Typed
<1> QED  BY <1>5, <1>6, <1>7, <1>8 DEF OInv

\* A request that is read stays one request.
LEMMA ReadOwes ==
  ASSUME OInv, NEW q \in served, reads(q)
  PROVE  OInv'
<1> DEFINE p == [q EXCEPT !.read = TRUE, !.page = nsipcbuf]
<1>1. served' = (served \ {q}) \cup {p} /\ UNCHANGED <<pc, call, nsipcbuf, strays>>
  BY DEF reads, client
<1>2. q \in Owed /\ p \in Owed /\ p.n = q.n
  BY DEF OInv, OnePerCall, Owed
<1>3. p \notin served \ {q}
  BY <1>2 DEF OInv, OnePerCall
<1>4. /\ IsFiniteSet(served \ {q})
      /\ Cardinality(served \ {q}) = Cardinality(served) - 1
      /\ Cardinality(served) \in Nat
  BY FS_RemoveElement, FS_CardinalityType DEF OInv
<1>5. IsFiniteSet(served') /\ Cardinality(served') = Cardinality(served \ {q}) + 1
  BY <1>1, <1>3, <1>4, FS_AddElement
<1>6. Cardinality(served') = Cardinality(served)
  BY <1>4, <1>5
<1>7. OnePerCall'
  BY <1>1, <1>2 DEF OInv, OnePerCall
<1>8. OneAnswerOwed'
  BY <1>1, <1>6 DEF OInv, OneAnswerOwed
<1>9. Typed' /\ (nsipcbuf \in Requests)'
  BY <1>1 DEF OInv, Typed
<1> QED  BY <1>5, <1>7, <1>8, <1>9 DEF OInv

\* The answer that a call takes is owed no more, be it to another call.
LEMMA AnswerOwes ==
  ASSUME OInv, NEW q \in served, answers(q)
  PROVE  OInv'
<1>1. /\ pc = "ipc_recv" /\ UNCHANGED <<call, nsipcbuf, strays>> /\ pc' \in {"caller", "dead"}
      /\ served' = served \ {q}
  BY DEF answers, returns
<1>2. /\ IsFiniteSet(served') /\ Cardinality(served') = Cardinality(served) - 1
      /\ Cardinality(served) \in Nat
  BY <1>1, FS_RemoveElement, FS_CardinalityType DEF OInv
<1>3. OnePerCall'
  BY <1>1 DEF OInv, OnePerCall
<1>4. OneAnswerOwed'
  BY <1>1, <1>2 DEF OInv, OneAnswerOwed, Typed
<1>5. Typed' /\ (nsipcbuf \in Requests)'
  BY <1>1 DEF OInv, Typed
<1> QED  BY <1>2, <1>3, <1>4, <1>5 DEF OInv

\* A message from elsewhere ends the call and leaves its answer owed.
LEMMA StrayOwes ==
  ASSUME OInv, NEW r, NEW page, stray(r, page)
  PROVE  OInv'
<1>1. /\ pc = "ipc_recv" /\ UNCHANGED <<call, nsipcbuf, served>>
      /\ pc' \in {"caller", "dead"} /\ strays' = strays + 1
  BY DEF stray, returns
<1>2. OnePerCall' /\ OneAnswerOwed'
  BY <1>1 DEF OInv, OnePerCall, OneAnswerOwed, Typed
<1>3. Typed' /\ (nsipcbuf \in Requests)' /\ IsFiniteSet(served)'
  BY <1>1 DEF OInv, Typed
<1> QED  BY <1>2, <1>3 DEF OInv

\* The server owes an answer for every message from elsewhere that a call took
\* for its own, for ever, and one to the call that waits (lib/nsipc.c:27).
THEOREM AnswersStayOwed == Spec => []OneAnswerOwed
<1>1. Init => OInv
  <2> SUFFICES ASSUME Init PROVE OInv
    OBVIOUS
  <2>1. "none" \in Ops /\ 0 \in Nat
    BY DEF Ops
  <2>2. call \in Requests /\ nsipcbuf = call
    BY <2>1 DEF Init, Request, Requests
  <2>3. IsFiniteSet(served) /\ Cardinality(served) = 0 /\ served = {}
    BY FS_EmptySet DEF Init
  <2> QED  BY <2>2, <2>3 DEF OInv, Init, Typed, OnePerCall, OneAnswerOwed
<1>2. OInv /\ [Next]_vars => OInv'
  <2> SUFFICES ASSUME OInv, [Next]_vars PROVE OInv'
    OBVIOUS
  <2>1. ASSUME NEW op \in Ops, NEW size \in Int, request(op, size) PROVE OInv'
    BY <2>1, BeginStep DEF request
  <2>2. ASSUME NEW op \in Ops, NEW size \in Int, stops(op, size)
        PROVE  OInv'
    BY <2>2, BeginStep DEF stops
  <2>3. CASE \/ nsipc_accept \/ nsipc_shutdown \/ nsipc_close \/ nsipc_listen
             \/ nsipc_socket
    BY <2>1, <2>3
    DEF Ops, nsipc_accept, nsipc_shutdown, nsipc_close, nsipc_listen, nsipc_socket
  <2>4. ASSUME NEW size \in -1 .. MaxSize,
               \/ nsipc_bind(size) \/ nsipc_connect(size)
               \/ nsipc_recv(size) \/ nsipc_send(size)
        PROVE  OInv'
    <3>1. size \in Int /\ {"bind", "connect", "recv", "send"} \subseteq Ops
      BY DEF Ops
    <3> QED  BY <2>1, <2>2, <2>4, <3>1
             DEF nsipc_bind, nsipc_connect, nsipc_recv, nsipc_send, copies
  <2>5. CASE ipc_send  BY <2>5, SendOwes
  <2>6. ASSUME NEW q \in served, reads(q) \/ answers(q) PROVE OInv'
    BY <2>6, ReadOwes, AnswerOwes
  <2>7. ASSUME NEW r, NEW page, stray(r, page) PROVE OInv'
    BY <2>7, StrayOwes
  <2>8. CASE UNCHANGED vars
    BY <2>8 DEF vars, client, OInv, Typed, OnePerCall, OneAnswerOwed
  <2> QED  BY <2>3, <2>4, <2>5, <2>6, <2>7, <2>8 DEF Next
<1>3. OInv => OneAnswerOwed
  BY DEF OInv
<1> QED  BY <1>1, <1>2, <1>3, PTL DEF Spec
=============================================================================
