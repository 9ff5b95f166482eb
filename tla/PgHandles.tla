------------------------------ MODULE PgHandles ------------------------------
(***************************************************************************)
(* The handles of crates/calisto-pg: who owns each PGconn and PGresult of  *)
(* libpq, and which file descriptor a connection talks through.            *)
(*                                                                         *)
(* A PG::Connection or PG::Result owns a box (struct Conn, struct Res)     *)
(* with a raw pointer, null when closed or cleared.  A PGresult does not   *)
(* depend on its PGconn, so the two are given back in any order: by        *)
(* close, clear, a second initialize, or the collector's free functions.   *)
(* A result that is not handed to the program (a fatal error, every        *)
(* prepare) is cleared by the call that received it.                       *)
(*                                                                         *)
(* libpq reaches the server through a descriptor whose number it keeps.    *)
(* socket_io gives the program an IO over that same number, and an IO      *)
(* closes its descriptor when it is closed or collected: the number may    *)
(* then lead elsewhere while libpq still uses it.  desc says where each    *)
(* number leads.                                                           *)
(*                                                                         *)
(* Ruby runs one native method at a time, and a method is one step, except *)
(* those that read their pointer and then convert their arguments: a       *)
(* to_str or a to_s runs Ruby code, which may close the connection and may *)
(* let other threads run.  using is the pointer such a call holds (one     *)
(* call at a time per connection, a bound).  A method that finds its       *)
(* handle null, or an argument of the wrong type, raises and changes       *)
(* nothing: it is not a step.                                              *)
(***************************************************************************)

CONSTANTS
  Connections,  \* Ruby objects of class PG::Connection
  Results,      \* Ruby objects of class PG::Result
  Ios,          \* Ruby objects of class IO made by socket_io
  Conns,        \* PGconn addresses; each is handed out once (a bound)
  Rows,         \* PGresult addresses; each is handed out once (a bound)
  Fds,          \* descriptor numbers, given out again once closed
  Null,         \* the null pointer, and the invalid descriptor
  Closed, DevNull  \* where a number leads that leads to no connection;
                   \* Closed is also the descriptor of a closed IO

Objects == Connections \cup Results \cup Ios

ASSUME PgAssumption ==
  /\ Connections \cap Results = {} /\ Connections \cap Ios = {}
  /\ Results \cap Ios = {}
  /\ Null \notin Conns \cup Rows \cup Fds
  /\ Closed \notin Conns \cup Fds \cup {Null, DevNull}
  /\ DevNull \notin Conns

VARIABLES
  obj,      \* life of each Ruby object
  reach,    \* objects the program still refers to
  connPtr,  \* Conn.conn
  resPtr,   \* Res.res
  conn,     \* libpq: life of each connection
  res,      \* libpq: life of each result
  sock,     \* libpq: the descriptor of each connection
  desc,     \* kernel: where each descriptor leads
  ioFd,     \* the descriptor of each IO
  using,    \* the pointer a call of each connection holds meanwhile
  undefined, \* a freed connection was given to libpq
  exiting   \* ruby_cleanup is freeing every object

calls == <<using, undefined>>
vars == <<obj, reach, connPtr, resPtr, conn, res, sock, desc, ioFd, calls, exiting>>

TypeOK ==
  /\ obj \in [Objects -> {"unborn", "boxed", "freed"}]
  /\ reach \subseteq Objects
  /\ connPtr \in [Connections -> Conns \cup {Null}]
  /\ resPtr \in [Results -> Rows \cup {Null}]
  /\ conn \in [Conns -> {"none", "ok", "bad", "freed"}]
  /\ res \in [Rows -> {"none", "live", "freed"}]
  /\ sock \in [Conns -> Fds \cup {Null}]
  /\ desc \in [Fds -> Conns \cup {Closed, DevNull}]
  /\ ioFd \in [Ios -> Fds \cup {Closed}]
  /\ using \in [Connections -> Conns \cup {Null}]
  /\ undefined \in BOOLEAN /\ exiting \in BOOLEAN

Init ==
  /\ obj = [o \in Objects |-> "unborn"]
  /\ reach = {}
  /\ connPtr = [k \in Connections |-> Null]
  /\ resPtr = [r \in Results |-> Null]
  /\ conn = [c \in Conns |-> "none"]
  /\ res = [x \in Rows |-> "none"]
  /\ sock = [c \in Conns |-> Null]
  /\ desc = [f \in Fds |-> Closed]
  /\ ioFd = [i \in Ios |-> Closed]
  /\ using = [k \in Connections |-> Null]
  /\ undefined = FALSE /\ exiting = FALSE

-----------------------------------------------------------------------------
(* libpq and the kernel, as this crate relies on them.                      *)

Live(c) == conn[c] \in {"ok", "bad"}

\* close(2) acts on the number, wherever it leads by now.
AfterClosing(f) == [g \in Fds |-> IF g = f THEN Closed ELSE desc[g]]

\* PQfinish closes the connection's descriptor; null is nothing to finish.
Finished(c) == [e \in Conns |-> IF e = c THEN "freed" ELSE conn[e]]
Disconnected(c) == [e \in Conns |-> IF e = c THEN Null ELSE sock[e]]
SocketOf(c) == IF c = Null THEN Null ELSE sock[c]

Finish(c) ==
  /\ conn' = Finished(c)
  /\ sock' = Disconnected(c)
  /\ desc' = AfterClosing(SocketOf(c))

\* Connection c gets a socket on some number that is closed once `left` is.
Dial(c, left) ==
  \E f \in Fds :
    /\ AfterClosing(left)[f] = Closed
    /\ desc' = [AfterClosing(left) EXCEPT ![f] = c]
    /\ sock' = [Disconnected(c) EXCEPT ![c] = f]

-----------------------------------------------------------------------------
(* Methods of PG::Connection.                                               *)

Called(o) == ~exiting /\ o \in reach /\ obj[o] = "boxed"

Born(o) ==
  /\ ~exiting /\ obj[o] = "unborn"
  /\ obj' = [obj EXCEPT ![o] = "boxed"]
  /\ reach' = reach \cup {o}

\* conn_alloc, res_alloc: the box is born with a null pointer.
Alloc(o) ==
  /\ Born(o)
  /\ UNCHANGED <<connPtr, resPtr, conn, res, sock, desc, ioFd, calls, exiting>>

\* Connection#initialize that raises before it has a new connection: the old
\* one is already finished, its pointer cleared.
InitializeRaises(k) ==
  /\ Called(k)
  /\ Finish(connPtr[k])
  /\ connPtr' = [connPtr EXCEPT ![k] = Null]
  /\ UNCHANGED <<obj, reach, resPtr, res, ioFd, calls, exiting>>

\* Faulty variant: the pointer is stored once the status is known to be good.
InitializeStoresLast(k, c) ==
  /\ Called(k) /\ conn[c] = "none"
  /\ LET old == connPtr[k] IN
     \/ /\ conn' = [Finished(old) EXCEPT ![c] = "ok"]
        /\ \E f \in Fds :
             /\ AfterClosing(SocketOf(old))[f] = Closed
             /\ desc' = [AfterClosing(SocketOf(old)) EXCEPT ![f] = c]
             /\ sock' = [Disconnected(old) EXCEPT ![c] = f]
        /\ connPtr' = [connPtr EXCEPT ![k] = c]
     \/ /\ conn' = [Finished(old) EXCEPT ![c] = "bad"]
        /\ desc' = AfterClosing(SocketOf(old))
        /\ sock' = Disconnected(old)
        /\ connPtr' = [connPtr EXCEPT ![k] = Null]
  /\ UNCHANGED <<obj, reach, resPtr, res, ioFd, calls, exiting>>

\* Connection#initialize with what PQconnectdb returned.  The pointer is stored
\* before its status is looked at, so a bad connection has an owner too.
Initialize(k, c) ==
  /\ Called(k) /\ conn[c] = "none"
  /\ connPtr' = [connPtr EXCEPT ![k] = c]
  /\ LET old == connPtr[k] IN
     \/ /\ conn' = [Finished(old) EXCEPT ![c] = "ok"]
        /\ \E f \in Fds :
             /\ AfterClosing(SocketOf(old))[f] = Closed
             /\ desc' = [AfterClosing(SocketOf(old)) EXCEPT ![f] = c]
             /\ sock' = [Disconnected(old) EXCEPT ![c] = f]
     \/ /\ conn' = [Finished(old) EXCEPT ![c] = "bad"]
        /\ desc' = AfterClosing(SocketOf(old))
        /\ sock' = Disconnected(old)
  /\ UNCHANGED <<obj, reach, resPtr, res, ioFd, calls, exiting>>

\* A method called on a connection that is not closed.
CalledOpen(k) == Called(k) /\ connPtr[k] # Null

\* exec, exec_params, prepare, exec_prepared up to their arguments: the pointer
\* is read, then the arguments are converted.
Convert(k) ==
  /\ CalledOpen(k) /\ using[k] = Null
  /\ using' = [using EXCEPT ![k] = connPtr[k]]
  /\ UNCHANGED <<obj, reach, connPtr, resPtr, conn, res, sock, desc, ioFd, undefined, exiting>>

\* The arguments are converted, and libpq is given the pointer read before.
Converted(k) == ~exiting /\ using[k] # Null
Returns(k) == using' = [using EXCEPT ![k] = Null] /\ UNCHANGED <<undefined, exiting>>

\* A conversion raises (a NUL, or an exception of to_s), or libpq has no memory
\* for a result.
ConvertRaises(k) ==
  /\ Converted(k) /\ Returns(k)
  /\ UNCHANGED <<obj, reach, connPtr, resPtr, conn, res, sock, desc, ioFd>>

\* The connection was finished meanwhile: what libpq does is undefined.
UseFreed(k) ==
  /\ Converted(k) /\ ~Live(using[k])
  /\ undefined' = TRUE
  /\ UNCHANGED <<obj, reach, connPtr, resPtr, conn, res, sock, desc, ioFd, using, exiting>>

\* wrap_result: a new PG::Result owns what connection c answered.
Wrap(c, r, x) ==
  /\ Born(r)
  /\ res[x] = "none" /\ conn[c] = "ok"
  /\ res' = [res EXCEPT ![x] = "live"]
  /\ resPtr' = [resPtr EXCEPT ![r] = x]

\* exec, exec_params, exec_prepared that succeed.
Exec(k, r, x) ==
  /\ Converted(k) /\ Returns(k)
  /\ Wrap(using[k], r, x)
  /\ UNCHANGED <<connPtr, conn, sock, desc, ioFd>>

\* get_last_result, when a result is pending; it has no argument to convert.
GetLastResult(k, r, x) ==
  /\ CalledOpen(k)
  /\ Wrap(connPtr[k], r, x)
  /\ UNCHANGED <<connPtr, conn, sock, desc, ioFd, calls, exiting>>

\* A result the call clears itself before it returns or raises.
ClearedInCall(x) ==
  /\ res[x] = "none"
  /\ res' = [res EXCEPT ![x] = "freed"]

\* A fatal error, its result cleared.  If it was the connection that failed,
\* libpq has dropped it.
Fatal(c, x) ==
  /\ ClearedInCall(x)
  /\ \/ UNCHANGED <<conn, sock, desc>>
     \/ /\ conn[c] = "ok"
        /\ conn' = [conn EXCEPT ![c] = "bad"]
        /\ sock' = Disconnected(c)
        /\ desc' = AfterClosing(sock[c])
  /\ UNCHANGED <<obj, reach, connPtr, resPtr, ioFd>>

\* exec, exec_params, exec_prepared, prepare that end in a fatal error.
ExecFails(k, x) ==
  /\ Converted(k) /\ Returns(k) /\ Live(using[k])
  /\ Fatal(using[k], x)

\* get_last_result whose result is a fatal error.
GetLastResultFails(k, x) ==
  /\ CalledOpen(k)
  /\ Fatal(connPtr[k], x)
  /\ UNCHANGED <<calls, exiting>>

\* Connection#prepare that succeeds returns nil, and clears its result too.
Prepare(k, x) ==
  /\ Converted(k) /\ Returns(k)
  /\ conn[using[k]] = "ok"
  /\ ClearedInCall(x)
  /\ UNCHANGED <<obj, reach, connPtr, resPtr, conn, sock, desc, ioFd>>

\* Connection#reset: PQreset, which hangs up and dials again.  A bad status
\* raises and keeps the handle.
Reset(k) ==
  /\ CalledOpen(k)
  /\ LET c == connPtr[k] IN
     \/ /\ conn' = [conn EXCEPT ![c] = "ok"]
        /\ Dial(c, sock[c])
     \/ /\ conn' = [conn EXCEPT ![c] = "bad"]
        /\ sock' = Disconnected(c)
        /\ desc' = AfterClosing(sock[c])
  /\ UNCHANGED <<obj, reach, connPtr, resPtr, res, ioFd, calls, exiting>>

\* Faulty variant: the pointer that marks it closed is not cleared.
CloseKeepingPointer(k) ==
  /\ CalledOpen(k)
  /\ Finish(connPtr[k])
  /\ UNCHANGED <<obj, reach, connPtr, resPtr, res, ioFd, calls, exiting>>

\* Connection#close, #finish.
Close(k) ==
  /\ CalledOpen(k)
  /\ Finish(connPtr[k])
  /\ connPtr' = [connPtr EXCEPT ![k] = Null]
  /\ UNCHANGED <<obj, reach, resPtr, res, ioFd, calls, exiting>>

\* Faulty variant: the invalid descriptor of a bad connection is not refused.
SocketIoOfBad(k, i) ==
  /\ CalledOpen(k)
  /\ Born(i)
  /\ ioFd' = [ioFd EXCEPT ![i] = sock[connPtr[k]]]
  /\ UNCHANGED <<connPtr, resPtr, conn, res, sock, desc, calls, exiting>>

\* Connection#socket_io: IO.for_fd, which closes its descriptor by default.
SocketIo(k, i) ==
  /\ CalledOpen(k) /\ sock[connPtr[k]] # Null
  /\ Born(i)
  /\ ioFd' = [ioFd EXCEPT ![i] = sock[connPtr[k]]]
  /\ UNCHANGED <<connPtr, resPtr, conn, res, sock, desc, calls, exiting>>

-----------------------------------------------------------------------------
(* PG::Result, the IO, the collector and the end of the VM.                 *)

\* Result#clear.
Clear(r) ==
  /\ Called(r) /\ resPtr[r] # Null
  /\ res' = [res EXCEPT ![resPtr[r]] = "freed"]
  /\ resPtr' = [resPtr EXCEPT ![r] = Null]
  /\ UNCHANGED <<obj, reach, connPtr, conn, sock, desc, ioFd, calls, exiting>>

\* IO#reopen(IO::NULL): what ActiveRecord does to discard a connection.
IoReopen(i) ==
  /\ Called(i) /\ ioFd[i] # Closed
  /\ desc' = [desc EXCEPT ![ioFd[i]] = DevNull]
  /\ UNCHANGED <<obj, reach, connPtr, resPtr, conn, res, sock, ioFd, calls, exiting>>

\* IO#close.
IoClose(i) ==
  /\ Called(i) /\ ioFd[i] # Closed
  /\ desc' = AfterClosing(ioFd[i])
  /\ ioFd' = [ioFd EXCEPT ![i] = Closed]
  /\ UNCHANGED <<obj, reach, connPtr, resPtr, conn, res, sock, calls, exiting>>

\* The program drops its last reference to an object.
Forget(o) ==
  /\ o \in reach
  /\ reach' = reach \ {o}
  /\ UNCHANGED <<obj, connPtr, resPtr, conn, res, sock, desc, ioFd, calls, exiting>>

\* The collector (or the end of the VM) takes an object no one refers to.
Collected(o) ==
  /\ o \notin reach /\ obj[o] = "boxed"
  /\ obj' = [obj EXCEPT ![o] = "freed"]

\* conn_free; a call in progress keeps its receiver.
ConnFree(k) ==
  /\ Collected(k) /\ using[k] = Null
  /\ Finish(connPtr[k])
  /\ connPtr' = [connPtr EXCEPT ![k] = Null]
  /\ UNCHANGED <<reach, resPtr, res, ioFd, calls, exiting>>

\* res_free.
ResFree(r) ==
  /\ Collected(r)
  /\ res' = [x \in Rows |-> IF x = resPtr[r] THEN "freed" ELSE res[x]]
  /\ resPtr' = [resPtr EXCEPT ![r] = Null]
  /\ UNCHANGED <<reach, connPtr, conn, sock, desc, ioFd, calls, exiting>>

\* The free function of IO closes a descriptor that is still set.
IoFree(i) ==
  /\ Collected(i)
  /\ desc' = AfterClosing(ioFd[i])
  /\ ioFd' = [ioFd EXCEPT ![i] = Closed]
  /\ UNCHANGED <<reach, connPtr, resPtr, conn, res, sock, calls, exiting>>

\* The script is over: ruby_cleanup ends the other threads and frees every
\* object, in any order.
Exit ==
  /\ ~exiting
  /\ exiting' = TRUE
  /\ reach' = {} /\ using' = [k \in Connections |-> Null]
  /\ UNCHANGED <<obj, connPtr, resPtr, conn, res, sock, desc, ioFd, undefined>>

Next ==
  /\ ~undefined
  /\ \/ \E o \in Connections \cup Results : Alloc(o)
     \/ \E o \in Objects : Forget(o)
     \/ \E k \in Connections :
          \/ InitializeRaises(k)
          \/ \E c \in Conns : Initialize(k, c)
          \/ Convert(k) \/ ConvertRaises(k) \/ UseFreed(k)
          \/ \E r \in Results, x \in Rows : Exec(k, r, x) \/ GetLastResult(k, r, x)
          \/ \E x \in Rows : ExecFails(k, x) \/ GetLastResultFails(k, x) \/ Prepare(k, x)
          \/ Reset(k) \/ Close(k) \/ ConnFree(k)
          \/ \E i \in Ios : SocketIo(k, i)
     \/ \E r \in Results : Clear(r) \/ ResFree(r)
     \/ \E i \in Ios : IoReopen(i) \/ IoClose(i) \/ IoFree(i)
     \/ Exit

Spec == Init /\ [][Next]_vars

-----------------------------------------------------------------------------
(* Properties.                                                              *)

\* Nothing is lost: a connection or a result libpq has given out and not got
\* back is held by an object the collector has not taken, also after a failed
\* connect, a fatal result, a reset or a second initialize (lib.rs 732-734:
\* the pointer is stored before the raise so that the collector closes it).
NothingLost ==
  /\ \A c \in Conns : Live(c) =>
       \E k \in Connections : connPtr[k] = c /\ obj[k] = "boxed"
  /\ \A x \in Rows : res[x] = "live" =>
       \E r \in Results : resPtr[r] = x /\ obj[r] = "boxed"

\* A pointer that is not null is live and nobody else's: in no order of close,
\* clear, reset, second initialize and collection is a freed handle given to
\* libpq, nor one handle freed twice (lib.rs 391-406: null means closed).  The
\* exception is a call whose arguments are still converted, and then only if
\* this very connection is closed or initialized again before they are (by
\* their to_s, or by another thread): exec_params reads its pointer first
\* (lib.rs 772-774).  The collector never is the cause.
HandlesNeverDangle ==
  /\ \A k \in Connections : connPtr[k] # Null => Live(connPtr[k])
  /\ \A k, m \in Connections : connPtr[k] = connPtr[m] /\ connPtr[k] # Null => k = m
  /\ \A r \in Results : resPtr[r] # Null => res[resPtr[r]] = "live"
  /\ \A r, s \in Results : resPtr[r] = resPtr[s] /\ resPtr[r] # Null => r = s
  /\ \A k \in Connections : using[k] # Null /\ ~Live(using[k]) =>
       connPtr[k] # using[k] /\ obj[k] = "boxed"
=============================================================================
