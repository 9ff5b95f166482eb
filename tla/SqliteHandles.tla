---------------------------- MODULE SqliteHandles ----------------------------
(***************************************************************************)
(* The handles of crates/calisto-sqlite: who owns each sqlite3 connection  *)
(* and each sqlite3_stmt, and who gives it back.                           *)
(*                                                                         *)
(* A Ruby Database or Statement owns a box on the heap (struct Db, struct  *)
(* Stmt) with a raw pointer into the C library; a null pointer means       *)
(* "closed".  A pointer is given back by an explicit close, by the free    *)
(* function the garbage collector calls, or, for the statement that        *)
(* Database#execute prepares for itself, by every way out of that method.  *)
(* A Statement does not mark its Database, so the collector may free the   *)
(* two in either order, and sqlite3_close_v2 then keeps the connection as  *)
(* a "zombie" until its last statement is finalized.                       *)
(*                                                                         *)
(* Ruby runs one native method at a time, but the collector runs inside    *)
(* one whenever it allocates, and Ruby code where it converts an argument. *)
(* Database#prepare and #execute read their handle, then convert the SQL,  *)
(* whose to_str may close the very Database: these and Statement#execute   *)
(* are split there and at their allocations, the others are one step each. *)
(* A bound: the code of a to_str closes objects and calls nothing else.    *)
(* Once a freed handle is passed to the library the program's behaviour is *)
(* undefined: undefinedUse records which kind of handle it was, and no     *)
(* step follows.                                                           *)
(***************************************************************************)
EXTENDS FiniteSets

CONSTANTS
  Databases,   \* Ruby objects of class Calisto::SQLite::Database
  Statements,  \* Ruby objects of class Calisto::SQLite::Statement
  Conns,       \* sqlite3 addresses; each is handed out once (a bound)
  Stmts,       \* sqlite3_stmt addresses; each is handed out once (a bound)
  Null         \* the null pointer

Objects == Databases \cup Statements

ASSUME HandlesAssumption ==
  /\ Databases \cap Statements = {}
  /\ Null \notin Conns \cup Stmts

VARIABLES
  obj,          \* life of each Ruby object
  reach,        \* objects the Ruby program still refers to
  dbPtr,        \* Db.db
  stPtr,        \* Stmt.stmt
  stDb,         \* Stmt.db, kept for the error message
  conn,         \* library: life of each connection
  sq,           \* library: life of each statement
  sqConn,       \* library: connection a statement was prepared on
  sqErr,        \* library: the statement's last step failed, not reset since
  call,         \* the execute or prepare in progress, with its local variables
  exiting,      \* ruby_cleanup is freeing every object
  undefinedUse  \* kinds of freed handles passed to the library

vars == <<obj, reach, dbPtr, stPtr, stDb, conn, sq, sqConn, sqErr, call,
          exiting, undefinedUse>>
ruby == <<obj, reach, dbPtr, stPtr, stDb>>

Idle == [op |-> "idle", db |-> Null, stmt |-> Null, at |-> "none"]

Executing == [op : {"prepare", "db_execute", "stmt_execute"}, db : Conns,
              stmt : Stmts \cup {Null}, at : {"sql", "bind", "step"}]

TypeOK ==
  /\ obj \in [Objects -> {"unborn", "bare", "boxed", "freed"}]
  /\ reach \subseteq Objects
  /\ dbPtr \in [Databases -> Conns \cup {Null}]
  /\ stPtr \in [Statements -> Stmts \cup {Null}]
  /\ stDb \in [Statements -> Conns \cup {Null}]
  /\ conn \in [Conns -> {"none", "open", "zombie", "freed"}]
  /\ sq \in [Stmts -> {"none", "live", "freed"}]
  /\ sqConn \in [Stmts -> Conns \cup {Null}]
  /\ sqErr \in [Stmts -> BOOLEAN]
  /\ call \in Executing \cup {Idle}
  /\ exiting \in BOOLEAN
  /\ undefinedUse \subseteq {"stmt", "conn"}

Init ==
  /\ obj = [o \in Objects |-> "unborn"]
  /\ reach = {}
  /\ dbPtr = [d \in Databases |-> Null]
  /\ stPtr = [s \in Statements |-> Null]
  /\ stDb = [s \in Statements |-> Null]
  /\ conn = [c \in Conns |-> "none"]
  /\ sq = [x \in Stmts |-> "none"]
  /\ sqConn = [x \in Stmts |-> Null]
  /\ sqErr = [x \in Stmts |-> FALSE]
  /\ call = Idle
  /\ exiting = FALSE
  /\ undefinedUse = {}

-----------------------------------------------------------------------------
(* The C library, as this crate relies on it.                               *)

LiveOn(c) == {x \in Stmts : sq[x] = "live" /\ sqConn[x] = c}

\* sqlite3_close_v2: a connection with statements left becomes a zombie.
CloseV2(c) ==
  conn' = [conn EXCEPT ![c] = IF LiveOn(c) = {} THEN "freed" ELSE "zombie"]

\* sqlite3_finalize: the last statement of a zombie takes it along.
Finalize(x) ==
  /\ sq' = [sq EXCEPT ![x] = "freed"]
  /\ conn' = [c \in Conns |->
                IF conn[c] = "zombie" /\ LiveOn(c) = {x} THEN "freed"
                                                         ELSE conn[c]]

\* sqlite3_prepare_v2 of one statement on connection c.
PreparedOn(x, c) ==
  /\ sq[x] = "none"
  /\ sq' = [sq EXCEPT ![x] = "live"]
  /\ sqConn' = [sqConn EXCEPT ![x] = c]

\* A prepared statement finalized in the same step: more SQL follows it.
PreparedInVain(x, c) ==
  /\ sq[x] = "none"
  /\ sq' = [sq EXCEPT ![x] = "freed"]
  /\ sqConn' = [sqConn EXCEPT ![x] = c]

\* sqlite3_errmsg reads the connection.
ErrMsg(c) ==
  undefinedUse' = undefinedUse \cup (IF conn'[c] = "freed" THEN {"conn"} ELSE {})

-----------------------------------------------------------------------------
(* Class methods and methods of Database.                                   *)

Running == undefinedUse = {} /\ ~exiting

\* A method called by the Ruby program on an object it refers to.
Called(o) == Running /\ call = Idle /\ o \in reach /\ obj[o] = "boxed"

\* The same for the methods that the code of a to_str may call.
CalledToClose(o) ==
  Running /\ (call = Idle \/ call.at = "sql") /\ o \in reach /\ obj[o] = "boxed"

NewObject(o, how) ==
  /\ obj[o] = "unborn"
  /\ obj' = [obj EXCEPT ![o] = how]
  /\ reach' = reach \cup {o}

Born(o, how) == Running /\ call = Idle /\ NewObject(o, how)

\* Database.new, Statement.new: no box, and every method raises.
Alloc(o) ==
  /\ Born(o, "bare")
  /\ UNCHANGED <<dbPtr, stPtr, stDb, conn, sq, sqConn, sqErr, call, exiting,
                 undefinedUse>>

\* Calisto::SQLite.open, when the library opens the file.
Open(d, c) ==
  /\ Born(d, "boxed")
  /\ conn[c] = "none"
  /\ conn' = [conn EXCEPT ![c] = "open"]
  /\ dbPtr' = [dbPtr EXCEPT ![d] = c]
  /\ UNCHANGED <<stPtr, stDb, sq, sqConn, sqErr, call, exiting, undefinedUse>>

\* The failing open returns a handle too, and closes it before it raises.
OpenFails(c) ==
  /\ Running /\ call = Idle
  /\ conn[c] = "none"
  /\ conn' = [conn EXCEPT ![c] = "freed"]
  /\ UNCHANGED <<ruby, sq, sqConn, sqErr, call, exiting, undefinedUse>>

\* Database#prepare and #execute: the handle is read, then the SQL's to_str runs.
ConvertSql(d, op) ==
  /\ Called(d) /\ dbPtr[d] # Null
  /\ call' = [op |-> op, db |-> dbPtr[d], stmt |-> Null, at |-> "sql"]
  /\ UNCHANGED <<ruby, conn, sq, sqConn, sqErr, exiting, undefinedUse>>

InCall(at) == undefinedUse = {} /\ call # Idle /\ call.at = at

\* to_str raises, the SQL has a NUL or an error, or the library refuses to
\* prepare anything on a zombie.
SqlFails ==
  /\ InCall("sql")
  /\ call' = Idle
  /\ UNCHANGED <<ruby, conn, sq, sqConn, sqErr, exiting, undefinedUse>>

\* to_str closed the Database, and nothing else held the connection.
PrepareOnFreed ==
  /\ InCall("sql") /\ conn[call.db] = "freed"
  /\ undefinedUse' = undefinedUse \cup {"conn"}
  /\ UNCHANGED <<ruby, conn, sq, sqConn, sqErr, call, exiting>>

SqlIn(op) == InCall("sql") /\ call.op = op /\ conn[call.db] = "open"

\* Faulty variant: a Statement that does not remember its connection.
PrepareForgetsDb(s) ==
  /\ SqlIn("prepare")
  /\ NewObject(s, "boxed")
  /\ \/ \E x \in Stmts : /\ PreparedOn(x, call.db)
                         /\ stPtr' = [stPtr EXCEPT ![s] = x]
     \/ UNCHANGED <<sq, sqConn, stPtr>>
  /\ call' = Idle
  /\ UNCHANGED <<dbPtr, stDb, conn, sqErr, exiting, undefinedUse>>

\* Database#prepare.  SQL with nothing in it prepares no statement, and the
\* Statement is born closed.
Prepare(s) ==
  /\ SqlIn("prepare")
  /\ NewObject(s, "boxed")
  /\ stDb' = [stDb EXCEPT ![s] = call.db]
  /\ \/ \E x \in Stmts : /\ PreparedOn(x, call.db)
                         /\ stPtr' = [stPtr EXCEPT ![s] = x]
     \/ UNCHANGED <<sq, sqConn, stPtr>>
  /\ call' = Idle
  /\ UNCHANGED <<dbPtr, conn, sqErr, exiting, undefinedUse>>

\* Database#prepare and #execute given several statements: finalize, raise.
SeveralStatements(x) ==
  /\ InCall("sql") /\ conn[call.db] = "open"
  /\ PreparedInVain(x, call.db)
  /\ call' = Idle
  /\ UNCHANGED <<ruby, conn, sqErr, exiting, undefinedUse>>

\* Database#execute: its prepared statement is owned by no object.
DbExecute ==
  /\ SqlIn("db_execute")
  /\ \E x \in Stmts \cup {Null} :
       /\ IF x = Null THEN UNCHANGED <<sq, sqConn>> ELSE PreparedOn(x, call.db)
       /\ call' = [call EXCEPT !.stmt = x, !.at = "bind"]
  /\ UNCHANGED <<ruby, conn, sqErr, exiting, undefinedUse>>

\* Faulty variant: the pointer that marks it closed is not cleared.
DbCloseKeepingPointer(d) ==
  /\ CalledToClose(d) /\ dbPtr[d] # Null
  /\ CloseV2(dbPtr[d])
  /\ UNCHANGED <<ruby, sq, sqConn, sqErr, call, exiting, undefinedUse>>

\* Database#close.
DbClose(d) ==
  /\ CalledToClose(d) /\ dbPtr[d] # Null
  /\ CloseV2(dbPtr[d])
  /\ dbPtr' = [dbPtr EXCEPT ![d] = Null]
  /\ UNCHANGED <<obj, reach, stPtr, stDb, sq, sqConn, sqErr, call, exiting,
                 undefinedUse>>

-----------------------------------------------------------------------------
(* Methods of Statement.                                                    *)

\* Any use of a statement that was already finalized.
UseFinalized(s) ==
  /\ CalledToClose(s) /\ stPtr[s] # Null
  /\ sq[stPtr[s]] = "freed"
  /\ undefinedUse' = undefinedUse \cup {"stmt"}
  /\ UNCHANGED <<ruby, conn, sq, sqConn, sqErr, call, exiting>>

\* Statement#execute: reset, which forgets the last error, then bind.
StmtExecute(s) ==
  /\ Called(s) /\ stPtr[s] # Null
  /\ sq[stPtr[s]] = "live"
  /\ sqErr' = [sqErr EXCEPT ![stPtr[s]] = FALSE]
  /\ call' = [op |-> "stmt_execute", db |-> stDb[s], stmt |-> stPtr[s], at |-> "bind"]
  /\ UNCHANGED <<ruby, conn, sq, sqConn, exiting, undefinedUse>>

\* Faulty variant: a close that never clears the pointer.
StmtCloseKeepingPointer(s) ==
  /\ CalledToClose(s) /\ stPtr[s] # Null
  /\ sq[stPtr[s]] = "live"
  /\ Finalize(stPtr[s])
  /\ UNCHANGED <<ruby, sqConn, sqErr, call, exiting, undefinedUse>>

\* Faulty variant: the pointer is cleared before the raise, whose message then
\* reads a connection that may have gone with its last statement.
StmtCloseClearsFirst(s) ==
  /\ CalledToClose(s) /\ stPtr[s] # Null
  /\ sq[stPtr[s]] = "live"
  /\ Finalize(stPtr[s])
  /\ stPtr' = [stPtr EXCEPT ![s] = Null]
  /\ IF sqErr[stPtr[s]] THEN ErrMsg(stDb[s]) ELSE UNCHANGED undefinedUse
  /\ UNCHANGED <<obj, reach, dbPtr, stDb, sqConn, sqErr, call, exiting>>

\* Statement#close.  finalize reports the error of the last step again, and
\* then the method raises before it clears the pointer.
StmtClose(s) ==
  /\ CalledToClose(s) /\ stPtr[s] # Null
  /\ sq[stPtr[s]] = "live"
  /\ Finalize(stPtr[s])
  /\ IF sqErr[stPtr[s]]
     THEN ErrMsg(stDb[s]) /\ UNCHANGED stPtr
     ELSE stPtr' = [stPtr EXCEPT ![s] = Null] /\ UNCHANGED undefinedUse
  /\ UNCHANGED <<obj, reach, dbPtr, stDb, sqConn, sqErr, call, exiting>>

-----------------------------------------------------------------------------
(* The rest of an execute method, between allocations.                      *)

\* Database#execute finalizes its statement on every way out; the null
\* statement of empty SQL is nothing to finalize.
Release(x) == IF x = Null THEN UNCHANGED <<sq, conn>> ELSE Finalize(x)

LeaveCall ==
  /\ call' = Idle
  /\ IF call.op = "db_execute" THEN Release(call.stmt) ELSE UNCHANGED <<sq, conn>>

\* Faulty variant: the raise jumps over the finalize.
BindFailsAndRaises ==
  /\ InCall("bind")
  /\ call' = Idle
  /\ UNCHANGED <<ruby, conn, sq, sqConn, sqErr, exiting, undefinedUse>>

\* A parameter of the wrong type, too large, or one too many.
BindFails ==
  /\ InCall("bind")
  /\ LeaveCall
  /\ UNCHANGED <<ruby, sqConn, sqErr, exiting, undefinedUse>>

BindsDone ==
  /\ InCall("bind")
  /\ call' = [call EXCEPT !.at = "step"]
  /\ UNCHANGED <<ruby, conn, sq, sqConn, sqErr, exiting, undefinedUse>>

\* run_statement reads the message before its caller finalizes; a null
\* statement fails its step.
StepFails ==
  /\ InCall("step")
  /\ sqErr' = [x \in Stmts |-> sqErr[x] \/ x = call.stmt]
  /\ undefinedUse' = undefinedUse \cup (IF conn[call.db] = "freed" THEN {"conn"} ELSE {})
  /\ LeaveCall
  /\ UNCHANGED <<ruby, sqConn, exiting>>

\* Rows until SQLITE_DONE; the rows themselves are not modelled.
StepsDone ==
  /\ InCall("step") /\ call.stmt # Null
  /\ LeaveCall
  /\ UNCHANGED <<ruby, sqConn, sqErr, exiting, undefinedUse>>

-----------------------------------------------------------------------------
(* The program around the methods, the collector, and the end of the VM.    *)

\* The program drops its last reference to an object.
Forget(o) ==
  /\ undefinedUse = {} /\ call = Idle
  /\ o \in reach
  /\ reach' = reach \ {o}
  /\ UNCHANGED <<obj, dbPtr, stPtr, stDb, conn, sq, sqConn, sqErr, call, exiting,
                 undefinedUse>>

\* The collector (or the end of the VM) takes an object no one refers to.
Collected(o) ==
  /\ undefinedUse = {}
  /\ o \notin reach /\ obj[o] \in {"bare", "boxed"}
  /\ obj' = [obj EXCEPT ![o] = "freed"]

\* db_free: close what is still open; free functions are not called bare.
DbFree(d) ==
  /\ Collected(d)
  /\ IF dbPtr[d] # Null
     THEN CloseV2(dbPtr[d]) /\ dbPtr' = [dbPtr EXCEPT ![d] = Null]
     ELSE UNCHANGED <<conn, dbPtr>>
  /\ UNCHANGED <<reach, stPtr, stDb, sq, sqConn, sqErr, call, exiting, undefinedUse>>

\* stmt_free: finalize what is still set.
StmtFree(s) ==
  /\ Collected(s)
  /\ IF stPtr[s] = Null THEN UNCHANGED <<sq, conn, stPtr, undefinedUse>>
     ELSE IF sq[stPtr[s]] = "live"
     THEN /\ Finalize(stPtr[s])
          /\ stPtr' = [stPtr EXCEPT ![s] = Null]
          /\ UNCHANGED undefinedUse
     ELSE /\ undefinedUse' = undefinedUse \cup {"stmt"}
          /\ UNCHANGED <<sq, conn, stPtr>>
  /\ UNCHANGED <<reach, dbPtr, stDb, sqConn, sqErr, call, exiting>>

\* The script is over: ruby_cleanup frees every object, in any order.
Exit ==
  /\ undefinedUse = {} /\ ~exiting /\ call = Idle
  /\ exiting' = TRUE
  /\ reach' = {}
  /\ UNCHANGED <<obj, dbPtr, stPtr, stDb, conn, sq, sqConn, sqErr, call,
                 undefinedUse>>

Collect == (\E d \in Databases : DbFree(d)) \/ (\E s \in Statements : StmtFree(s))

Next ==
  \/ \E o \in Objects : Alloc(o) \/ Forget(o)
  \/ \E c \in Conns : OpenFails(c)
  \/ \E d \in Databases :
       \/ \E c \in Conns : Open(d, c)
       \/ \E op \in {"prepare", "db_execute"} : ConvertSql(d, op)
       \/ DbClose(d)
  \/ SqlFails \/ PrepareOnFreed \/ DbExecute
  \/ \E s \in Statements : Prepare(s)
  \/ \E x \in Stmts : SeveralStatements(x)
  \/ \E s \in Statements : StmtExecute(s) \/ StmtClose(s) \/ UseFinalized(s)
  \/ BindFails \/ BindsDone \/ StepFails \/ StepsDone
  \/ Collect
  \/ Exit

\* ruby_cleanup goes through the whole heap before the process ends.
Fairness == WF_vars(exiting /\ Collect)

Spec == Init /\ [][Next]_vars /\ Fairness

-----------------------------------------------------------------------------
(* Properties.                                                              *)

\* Nothing is lost: a live statement is held by a Statement object or by the
\* execute call that prepared it, and a connection that is open by a Database
\* (lib.rs 370-371: a raise over the finalize leaks statement and connection).
NothingLeaks ==
  /\ \A x \in Stmts : sq[x] = "live" =>
       \/ \E s \in Statements : stPtr[s] = x
       \/ call.op = "db_execute" /\ call.stmt = x
  /\ \A c \in Conns :
       /\ conn[c] = "open" => \E d \in Databases : dbPtr[d] = c
       /\ conn[c] = "zombie" => LiveOn(c) # {}

\* A Database that is not closed has an open connection of its own, so its
\* methods and its free function never touch one that is gone (lib.rs 254).
DatabasesNeverDangle ==
  /\ \A d \in Databases : dbPtr[d] # Null => conn[dbPtr[d]] = "open"
  /\ \A d, e \in Databases : dbPtr[d] = dbPtr[e] /\ dbPtr[d] # Null => d = e

\* A Statement keeps the address of a finalized statement only when its last
\* step had failed: no order of closes, of collections of the Database and of
\* the Statement, and of reuse after an error leaves one otherwise.
DanglingOnlyAfterFailedStep ==
  \A s \in Statements :
    stPtr[s] # Null /\ sq[stPtr[s]] # "live" => sqErr[stPtr[s]]

\* The library is never given a freed handle unless some Statement dangles
\* already, or an execute or prepare still holds the connection that its SQL's
\* to_str closed: error messages, executes and frees on a closed or collected
\* Database are all safe, because the zombie connection outlives its statements.
UndefinedOnlyWhenDangling ==
  undefinedUse # {} =>
    \/ \E s \in Statements : stPtr[s] # Null /\ sq[stPtr[s]] = "freed"
    \/ call # Idle /\ call.at = "sql" /\ conn[call.db] = "freed"

\* When the VM ends, every handle the library gave out is given back, unless
\* undefined behaviour came first.
ExitReclaims ==
  exiting ~> \/ undefinedUse # {}
             \/ /\ \A x \in Stmts : sq[x] # "live"
                /\ \A c \in Conns : conn[c] \notin {"open", "zombie"}

\* What lib.rs 261 says of struct Stmt: a null stmt means closed, so that a
\* statement the library has finalized is null.
ClosedMeansNull ==
  \A s \in Statements : stPtr[s] # Null => sq[stPtr[s]] # "freed"
=============================================================================
