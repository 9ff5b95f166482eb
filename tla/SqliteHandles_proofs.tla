------------------------ MODULE SqliteHandles_proofs ------------------------
(***************************************************************************)
(* Proofs about SqliteHandles, for any number of objects and handles.      *)
(* The three ownership properties need one inductive invariant, IInv: who  *)
(* holds a handle (NothingLeaks) can be kept only together with which      *)
(* connection each statement is on, which objects an execute call pins,    *)
(* and that no two owners share a handle.                                  *)
(***************************************************************************)
EXTENDS SqliteHandles, TLAPS

\* The library's statements and connections agree.
LibraryAgrees ==
  /\ \A x \in Stmts : sq[x] = "live" =>
       sqConn[x] \in Conns /\ conn[sqConn[x]] \in {"open", "zombie"}
  /\ \A c \in Conns : conn[c] = "zombie" =>
       \E x \in Stmts : sq[x] = "live" /\ sqConn[x] = c
  /\ \A c \in Conns : conn[c] = "open" => \E d \in Databases : dbPtr[d] = c

\* A Statement's pointers come from one prepare, and are its own.
StatementsOwn ==
  \A s \in Statements : stPtr[s] # Null =>
    /\ sq[stPtr[s]] # "none"
    /\ sqConn[stPtr[s]] = stDb[s] /\ stDb[s] \in Conns
    /\ \A t \in Statements : stPtr[t] = stPtr[s] => t = s

\* Objects without a box have no pointers.
PointersAreBoxed ==
  /\ \A d \in Databases : obj[d] \in {"unborn", "bare"} => dbPtr[d] = Null
  /\ \A s \in Statements : obj[s] \in {"unborn", "bare"} => stPtr[s] = Null

\* An execute past its SQL works on a live statement, and an object the
\* program still refers to keeps what it works on.  While the SQL is converted
\* that is so only as long as the connection is open.
CallHolds ==
  call # Idle =>
    /\ ~exiting
    /\ call.at = "sql" =>
         /\ call.op # "stmt_execute" /\ call.stmt = Null
         /\ conn[call.db] = "open" => \E d \in Databases : d \in reach /\ dbPtr[d] = call.db
    /\ call.op = "prepare" => call.at = "sql"
    /\ call.stmt # Null => sq[call.stmt] = "live" /\ sqConn[call.stmt] = call.db
    /\ call.op = "db_execute" /\ call.at # "sql" =>
         /\ \E d \in Databases : d \in reach /\ dbPtr[d] = call.db
         /\ call.stmt # Null => \A s \in Statements : stPtr[s] # call.stmt
    /\ call.op = "stmt_execute" =>
         /\ call.stmt # Null
         /\ \E s \in Statements : s \in reach /\ stPtr[s] = call.stmt

\* Every live statement has an owner.
LiveIsHeld ==
  \A x \in Stmts : sq[x] = "live" =>
    \/ \E s \in Statements : stPtr[s] = x
    \/ call.op = "db_execute" /\ call.stmt = x

IInv ==
  /\ LibraryAgrees /\ DatabasesNeverDangle /\ StatementsOwn /\ PointersAreBoxed
  /\ CallHolds /\ LiveIsHeld /\ DanglingOnlyAfterFailedStep

-----------------------------------------------------------------------------
\* The start is well typed.
LEMMA InitTyped == HandlesAssumption /\ Init => TypeOK
BY DEF HandlesAssumption, Init, TypeOK, Idle, Executing

\* A call in progress is a record of an execute method.
LEMMA CallTyped ==
  ASSUME TypeOK, call # Idle
  PROVE  call \in Executing
BY DEF TypeOK

\* finalize leaves the library's tables well typed.
LEMMA FinalizeTyped ==
  ASSUME TypeOK, NEW x \in Stmts, Finalize(x)
  PROVE  /\ sq' \in [Stmts -> {"none", "live", "freed"}]
         /\ conn' \in [Conns -> {"none", "open", "zombie", "freed"}]
BY DEF TypeOK, Finalize

\* Whatever a method leaves behind is well typed.
LEMMA StepTyped == HandlesAssumption /\ TypeOK /\ IInv /\ [Next]_vars => TypeOK'
<1> SUFFICES ASSUME HandlesAssumption, TypeOK, IInv, [Next]_vars PROVE TypeOK'
  OBVIOUS
<1>1. ASSUME NEW o \in Objects, Alloc(o) PROVE TypeOK'
  BY <1>1 DEF Alloc, Born, NewObject, TypeOK
<1>2. ASSUME NEW o \in Objects, Forget(o) PROVE TypeOK'
  BY <1>2 DEF Forget, TypeOK
<1>3. ASSUME NEW c \in Conns, OpenFails(c) PROVE TypeOK'
  BY <1>3 DEF OpenFails, TypeOK, ruby
<1>4. ASSUME NEW d \in Databases, NEW c \in Conns, Open(d, c) PROVE TypeOK'
  BY <1>4 DEF Open, Born, NewObject, TypeOK, Objects
<1>5. ASSUME NEW s \in Statements, Prepare(s) PROVE TypeOK'
  <2>1. call.db \in Conns
    BY <1>5, CallTyped DEF Prepare, SqlIn, InCall, Executing
  <2> QED
    BY <1>5, <2>1 DEF Prepare, NewObject, PreparedOn, TypeOK, Objects
<1>6. ASSUME NEW x \in Stmts, SeveralStatements(x) PROVE TypeOK'
  <2>1. call.db \in Conns
    BY <1>6, CallTyped DEF SeveralStatements, InCall, Executing
  <2> QED
    BY <1>6, <2>1 DEF SeveralStatements, PreparedInVain, TypeOK, ruby
<1>7. ASSUME DbExecute PROVE TypeOK'
  <2>1. call \in Executing
    BY <1>7, CallTyped DEF DbExecute, SqlIn, InCall
  <2>2. call' \in Executing
    BY <1>7, <2>1 DEF DbExecute, Executing
  <2>3. /\ sq' \in [Stmts -> {"none", "live", "freed"}]
        /\ sqConn' \in [Stmts -> Conns \cup {Null}]
    BY <1>7, <2>1 DEF DbExecute, PreparedOn, TypeOK, Executing
  <2> QED
    BY <1>7, <2>2, <2>3 DEF DbExecute, TypeOK, ruby
<1>21. ASSUME NEW d \in Databases, NEW op \in {"prepare", "db_execute"}, ConvertSql(d, op)
       PROVE  TypeOK'
  BY <1>21 DEF ConvertSql, TypeOK, ruby, Executing
<1>22. ASSUME SqlFails PROVE TypeOK'
  BY <1>22 DEF SqlFails, TypeOK, ruby
<1>23. ASSUME PrepareOnFreed PROVE TypeOK'
  BY <1>23 DEF PrepareOnFreed, TypeOK, ruby
<1>8. ASSUME NEW d \in Databases, DbClose(d) PROVE TypeOK'
  BY <1>8 DEF DbClose, CloseV2, TypeOK
<1>9. ASSUME NEW s \in Statements, StmtExecute(s) PROVE TypeOK'
  <2>1. stDb[s] \in Conns /\ stPtr[s] \in Stmts
    BY <1>9 DEF StmtExecute, IInv, StatementsOwn, TypeOK
  <2> QED
    BY <1>9, <2>1 DEF StmtExecute, TypeOK, ruby, Executing
<1>10. ASSUME NEW s \in Statements, StmtClose(s) PROVE TypeOK'
  <2>1. stPtr[s] \in Stmts
    BY <1>10 DEF StmtClose, TypeOK
  <2>2. Finalize(stPtr[s])
    BY <1>10 DEF StmtClose
  <2>3. stPtr' \in [Statements -> Stmts \cup {Null}]
    BY <1>10 DEF StmtClose, TypeOK
  <2>4. undefinedUse' \subseteq {"stmt", "conn"}
    <3>1. \E U \in SUBSET {"conn"} : undefinedUse' = undefinedUse \cup U
      BY <1>10 DEF StmtClose, ErrMsg
    <3> QED
      BY <3>1 DEF TypeOK
  <2> QED
    BY <1>10, <2>1, <2>2, <2>3, <2>4, FinalizeTyped DEF StmtClose, TypeOK
<1>11. ASSUME NEW s \in Statements, UseFinalized(s) PROVE TypeOK'
  BY <1>11 DEF UseFinalized, TypeOK, ruby
<1>12. ASSUME LeaveCall, call # Idle
       PROVE  /\ sq' \in [Stmts -> {"none", "live", "freed"}]
              /\ conn' \in [Conns -> {"none", "open", "zombie", "freed"}]
              /\ call' = Idle
  <2>1. call.stmt \in Stmts \cup {Null}
    BY <1>12, CallTyped DEF Executing
  <2> QED
    BY <1>12, <2>1, FinalizeTyped DEF LeaveCall, Release, TypeOK
<1>13. ASSUME BindFails PROVE TypeOK'
  BY <1>12, <1>13 DEF BindFails, InCall, TypeOK, ruby
<1>14. ASSUME BindsDone PROVE TypeOK'
  <2>1. call' \in Executing
    BY <1>14, CallTyped DEF BindsDone, InCall, Executing
  <2> QED
    BY <1>14, <2>1 DEF BindsDone, TypeOK, ruby
<1>15. ASSUME StepFails PROVE TypeOK'
  BY <1>12, <1>15 DEF StepFails, InCall, TypeOK, ruby
<1>16. ASSUME StepsDone PROVE TypeOK'
  BY <1>12, <1>16 DEF StepsDone, InCall, TypeOK, ruby
<1>17. ASSUME NEW d \in Databases, DbFree(d) PROVE TypeOK'
  BY <1>17 DEF DbFree, Collected, CloseV2, TypeOK
<1>18. ASSUME NEW s \in Statements, StmtFree(s) PROVE TypeOK'
  <2>1. obj' \in [Objects -> {"unborn", "bare", "boxed", "freed"}]
    BY <1>18 DEF StmtFree, Collected, TypeOK
  <2>2. stPtr[s] \in Stmts \cup {Null}
    BY DEF TypeOK
  <2>3. /\ sq' \in [Stmts -> {"none", "live", "freed"}]
        /\ conn' \in [Conns -> {"none", "open", "zombie", "freed"}]
    BY <1>18, <2>2, FinalizeTyped DEF StmtFree, TypeOK
  <2>4. stPtr' \in [Statements -> Stmts \cup {Null}]
    BY <1>18 DEF StmtFree, TypeOK
  <2>5. undefinedUse' \subseteq {"stmt", "conn"}
    BY <1>18 DEF StmtFree, TypeOK
  <2> QED
    BY <1>18, <2>1, <2>3, <2>4, <2>5 DEF StmtFree, TypeOK
<1>19. ASSUME Exit PROVE TypeOK'
  BY <1>19 DEF Exit, TypeOK
<1>20. ASSUME UNCHANGED vars PROVE TypeOK'
  BY <1>20 DEF vars, TypeOK
<1> QED
  BY <1>1, <1>2, <1>3, <1>4, <1>5, <1>6, <1>7, <1>8, <1>9, <1>10, <1>11, <1>13,
     <1>14, <1>15, <1>16, <1>17, <1>18, <1>19, <1>20, <1>21, <1>22, <1>23
  DEF Next, Collect

-----------------------------------------------------------------------------
\* An object without a box owns nothing.
LEMMA AllocKeeps ==
  ASSUME HandlesAssumption, TypeOK, TypeOK', IInv,
         NEW o \in Objects, Alloc(o)
  PROVE  IInv'
BY DEF IInv, LibraryAgrees, DatabasesNeverDangle, StatementsOwn,
   PointersAreBoxed, CallHolds, LiveIsHeld, DanglingOnlyAfterFailedStep,
   Alloc, Born, NewObject

\* Dropping a reference moves no handle; no call is in progress.
LEMMA ForgetKeeps ==
  ASSUME HandlesAssumption, TypeOK, TypeOK', IInv,
         NEW o \in Objects, Forget(o)
  PROVE  IInv'
BY DEF IInv, LibraryAgrees, DatabasesNeverDangle, StatementsOwn,
   PointersAreBoxed, CallHolds, LiveIsHeld, DanglingOnlyAfterFailedStep,
   Forget

\* The handle of a failed open is closed before anyone knows it.
LEMMA OpenFailsKeeps ==
  ASSUME HandlesAssumption, TypeOK, TypeOK', IInv,
         NEW c \in Conns, OpenFails(c)
  PROVE  IInv'
BY DEF IInv, LibraryAgrees, DatabasesNeverDangle, StatementsOwn,
   PointersAreBoxed, CallHolds, LiveIsHeld, DanglingOnlyAfterFailedStep,
   OpenFails, ruby

\* A new connection has one Database.
LEMMA OpenKeeps ==
  ASSUME HandlesAssumption, TypeOK, TypeOK', IInv,
         NEW d \in Databases, NEW c \in Conns, Open(d, c)
  PROVE  IInv'
<1>1. LibraryAgrees'
  BY DEF TypeOK, IInv, LibraryAgrees, PointersAreBoxed, Open, Born, NewObject
<1>2. DatabasesNeverDangle'
  BY DEF TypeOK, IInv, DatabasesNeverDangle, Open
<1>3. StatementsOwn'
  BY DEF HandlesAssumption, TypeOK, IInv, LibraryAgrees, DatabasesNeverDangle,
     StatementsOwn, Open
<1>4. PointersAreBoxed'
  BY DEF TypeOK, IInv, PointersAreBoxed, Open, Born, NewObject
<1>5. CallHolds'
  BY DEF HandlesAssumption, TypeOK, IInv, CallHolds, Open, Born, NewObject
<1>6. LiveIsHeld'
  BY DEF IInv, LiveIsHeld, Open
<1>7. DanglingOnlyAfterFailedStep'
  BY DEF HandlesAssumption, TypeOK, IInv, DanglingOnlyAfterFailedStep, Open
<1> QED
  BY <1>1, <1>2, <1>3, <1>4, <1>5, <1>6, <1>7 DEF IInv

\* The Database whose SQL is converted is referred to, so not yet collected.
LEMMA ConvertSqlKeeps ==
  ASSUME HandlesAssumption, TypeOK, TypeOK', IInv,
         NEW d \in Databases, NEW op \in {"prepare", "db_execute"}, ConvertSql(d, op)
  PROVE  IInv'
<1>1. CallHolds'
  BY DEF TypeOK, CallHolds, ConvertSql, Called, Running, ruby
<1>2. LiveIsHeld'
  BY DEF HandlesAssumption, TypeOK, IInv, LiveIsHeld, ConvertSql, Called, ruby, Idle
<1> QED
  BY <1>1, <1>2 DEF IInv, LibraryAgrees, DatabasesNeverDangle, StatementsOwn,
     PointersAreBoxed, DanglingOnlyAfterFailedStep, ConvertSql, ruby

\* No statement is prepared yet, so a failing conversion has nothing to give back.
LEMMA SqlFailsKeeps ==
  ASSUME HandlesAssumption, TypeOK, TypeOK', IInv, SqlFails
  PROVE  IInv'
<1>1. LiveIsHeld'
  <2>1. call.stmt = Null
    BY DEF IInv, CallHolds, SqlFails, InCall
  <2> QED
    BY <2>1 DEF HandlesAssumption, TypeOK, IInv, LiveIsHeld, SqlFails, ruby
<1> QED
  BY <1>1 DEF IInv, LibraryAgrees, DatabasesNeverDangle, StatementsOwn,
     PointersAreBoxed, CallHolds, DanglingOnlyAfterFailedStep, SqlFails, ruby

\* Nothing moves.
LEMMA PrepareOnFreedKeeps ==
  ASSUME HandlesAssumption, TypeOK, TypeOK', IInv, PrepareOnFreed
  PROVE  IInv'
BY DEF IInv, LibraryAgrees, DatabasesNeverDangle, StatementsOwn,
   PointersAreBoxed, CallHolds, LiveIsHeld, DanglingOnlyAfterFailedStep,
   PrepareOnFreed, ruby

\* A new statement has one Statement, on the connection of its Database.
LEMMA PrepareKeeps ==
  ASSUME HandlesAssumption, TypeOK, TypeOK', IInv,
         NEW s \in Statements, Prepare(s)
  PROVE  IInv'
<1>0. call.db \in Conns /\ conn[call.db] = "open" /\ call.stmt = Null /\ call' = Idle
  BY CallTyped DEF Prepare, SqlIn, InCall, Executing, IInv, CallHolds
<1>1. LibraryAgrees'
  BY <1>0 DEF TypeOK, IInv, LibraryAgrees, Prepare, PreparedOn
<1>2. DatabasesNeverDangle'
  BY DEF IInv, DatabasesNeverDangle, Prepare
<1>3. StatementsOwn'
  BY <1>0 DEF TypeOK, IInv, StatementsOwn, PointersAreBoxed, Prepare, NewObject,
     PreparedOn
<1>4. PointersAreBoxed'
  BY DEF TypeOK, IInv, PointersAreBoxed, Prepare, NewObject
<1>5. CallHolds'
  BY <1>0 DEF CallHolds
<1>6. LiveIsHeld'
  BY <1>0 DEF HandlesAssumption, TypeOK, IInv, PointersAreBoxed, LiveIsHeld, Prepare,
     NewObject, PreparedOn
<1>7. DanglingOnlyAfterFailedStep'
  BY DEF TypeOK, IInv, DanglingOnlyAfterFailedStep, Prepare, PreparedOn
<1> QED
  BY <1>1, <1>2, <1>3, <1>4, <1>5, <1>6, <1>7 DEF IInv

\* A statement finalized at once has no owner and needs none.
LEMMA SeveralStatementsKeeps ==
  ASSUME HandlesAssumption, TypeOK, TypeOK', IInv,
         NEW x \in Stmts, SeveralStatements(x)
  PROVE  IInv'
<1>0. call.stmt = Null /\ call' = Idle
  BY DEF SeveralStatements, InCall, IInv, CallHolds
<1>1. LibraryAgrees'
  BY DEF IInv, LibraryAgrees, SeveralStatements, PreparedInVain, ruby
<1>2. DatabasesNeverDangle'
  BY DEF IInv, DatabasesNeverDangle, SeveralStatements, ruby
<1>3. StatementsOwn'
  BY DEF IInv, StatementsOwn, SeveralStatements, PreparedInVain, ruby
<1>4. PointersAreBoxed'
  BY DEF IInv, PointersAreBoxed, SeveralStatements, ruby
<1>5. CallHolds'
  BY <1>0 DEF CallHolds
<1>6. LiveIsHeld'
  BY <1>0 DEF HandlesAssumption, TypeOK, IInv, LiveIsHeld, SeveralStatements,
     PreparedInVain, ruby
<1>7. DanglingOnlyAfterFailedStep'
  BY DEF IInv, DanglingOnlyAfterFailedStep, SeveralStatements, PreparedInVain,
     ruby
<1> QED
  BY <1>1, <1>2, <1>3, <1>4, <1>5, <1>6, <1>7 DEF IInv

\* The statement of an execute call is held by the call, and the call by its
\* Database, which was not closed if the connection is still open.
LEMMA DbExecuteKeeps ==
  ASSUME HandlesAssumption, TypeOK, TypeOK', IInv, DbExecute
  PROVE  IInv'
<1>0. /\ call \in Executing /\ call # Idle /\ call.at = "sql" /\ call.op = "db_execute"
      /\ conn[call.db] = "open" /\ call.stmt = Null
  BY CallTyped DEF DbExecute, SqlIn, InCall, IInv, CallHolds
<1>1. PICK x \in Stmts \cup {Null} :
         /\ IF x = Null THEN UNCHANGED <<sq, sqConn>> ELSE PreparedOn(x, call.db)
         /\ call' = [call EXCEPT !.stmt = x, !.at = "bind"]
  BY DEF DbExecute
<1>2. /\ call.db \in Conns /\ call'.stmt = x /\ call'.at = "bind"
      /\ call'.op = "db_execute" /\ call'.db = call.db
  BY <1>0, <1>1 DEF Executing
<1>3. LibraryAgrees'
  BY <1>0, <1>1, <1>2 DEF TypeOK, IInv, LibraryAgrees, DbExecute, PreparedOn, ruby
<1>4. DatabasesNeverDangle'
  BY DEF IInv, DatabasesNeverDangle, DbExecute, ruby
<1>5. StatementsOwn'
  BY <1>1 DEF TypeOK, IInv, StatementsOwn, DbExecute, PreparedOn, ruby
<1>6. PointersAreBoxed'
  BY DEF IInv, PointersAreBoxed, DbExecute, ruby
<1>7. CallHolds'
  <2>1. ~exiting' /\ \E d \in Databases : d \in reach' /\ dbPtr'[d] = call'.db
    BY <1>0, <1>2 DEF IInv, CallHolds, DbExecute, ruby
  <2>2. x # Null => /\ sq'[x] = "live" /\ sqConn'[x] = call.db
                    /\ \A s \in Statements : stPtr'[s] # x
    BY <1>1 DEF TypeOK, IInv, StatementsOwn, DbExecute, PreparedOn, ruby
  <2> QED
    BY <1>2, <2>1, <2>2 DEF CallHolds
<1>8. LiveIsHeld'
  BY <1>0, <1>1, <1>2 DEF HandlesAssumption, TypeOK, IInv, LiveIsHeld, DbExecute,
     PreparedOn, ruby
<1>9. DanglingOnlyAfterFailedStep'
  BY <1>1 DEF TypeOK, IInv, DanglingOnlyAfterFailedStep, DbExecute, PreparedOn,
     ruby
<1> QED
  BY <1>3, <1>4, <1>5, <1>6, <1>7, <1>8, <1>9 DEF IInv

\* A connection leaves its Database, as a zombie if statements are left.
LEMMA DbCloseKeeps ==
  ASSUME HandlesAssumption, TypeOK, TypeOK', IInv,
         NEW d \in Databases, DbClose(d)
  PROVE  IInv'
<1>1. LibraryAgrees'
  BY DEF TypeOK, IInv, LibraryAgrees, DbClose, CloseV2, LiveOn
<1>2. DatabasesNeverDangle'
  BY DEF TypeOK, IInv, DatabasesNeverDangle, DbClose, CloseV2
<1>3. StatementsOwn'
  BY DEF HandlesAssumption, TypeOK, IInv, LibraryAgrees, DatabasesNeverDangle,
     StatementsOwn, DbClose
<1>4. PointersAreBoxed'
  BY DEF IInv, PointersAreBoxed, DbClose
<1>5. CallHolds'
  BY DEF HandlesAssumption, TypeOK, IInv, CallHolds, DatabasesNeverDangle, DbClose, CloseV2,
     CalledToClose
<1>6. LiveIsHeld'
  BY DEF IInv, LiveIsHeld, DbClose
<1>7. DanglingOnlyAfterFailedStep'
  BY DEF HandlesAssumption, TypeOK, IInv, DanglingOnlyAfterFailedStep, DbClose
<1> QED
  BY <1>1, <1>2, <1>3, <1>4, <1>5, <1>6, <1>7 DEF IInv

\* A Statement lends its handle to the call and keeps it.
LEMMA StmtExecuteKeeps ==
  ASSUME HandlesAssumption, TypeOK, TypeOK', IInv,
         NEW s \in Statements, StmtExecute(s)
  PROVE  IInv'
BY DEF IInv, LibraryAgrees, DatabasesNeverDangle, StatementsOwn,
   PointersAreBoxed, CallHolds, LiveIsHeld, DanglingOnlyAfterFailedStep,
   StmtExecute, Called, Running, ruby, Idle

\* A finalized statement is given up, or dangles with its error; a zombie
\* may go with it.
LEMMA StmtCloseKeeps ==
  ASSUME HandlesAssumption, TypeOK, TypeOK', IInv,
         NEW s \in Statements, StmtClose(s)
  PROVE  IInv'
<1>1. LibraryAgrees'
  BY DEF TypeOK, IInv, LibraryAgrees, StmtClose, Finalize, LiveOn
<1>2. DatabasesNeverDangle'
  BY DEF TypeOK, IInv, DatabasesNeverDangle, StmtClose, Finalize
<1>3. StatementsOwn'
  BY DEF HandlesAssumption, TypeOK, IInv, LibraryAgrees, DatabasesNeverDangle,
     StatementsOwn, StmtClose, Finalize
<1>4. PointersAreBoxed'
  BY DEF TypeOK, IInv, PointersAreBoxed, StmtClose
<1>5. CallHolds'
  <2>1. call' = call /\ (call # Idle => call.at = "sql" /\ ~exiting)
    BY DEF StmtClose, CalledToClose, Running
  <2>2. call # Idle => call \in Executing /\ call.stmt = Null /\ call.op # "stmt_execute"
    BY <2>1, CallTyped DEF IInv, CallHolds
  <2>3. \A c \in Conns : conn'[c] = "open" => conn[c] = "open"
    BY DEF StmtClose, Finalize
  <2> QED
    BY <2>1, <2>2, <2>3 DEF IInv, CallHolds, StmtClose, Executing
<1>6. LiveIsHeld'
  BY DEF TypeOK, IInv, LiveIsHeld, StmtClose, Finalize
<1>7. DanglingOnlyAfterFailedStep'
  BY DEF HandlesAssumption, TypeOK, IInv, StatementsOwn,
     DanglingOnlyAfterFailedStep, StmtClose, Finalize
<1> QED
  BY <1>1, <1>2, <1>3, <1>4, <1>5, <1>6, <1>7 DEF IInv

\* Nothing moves.
LEMMA UseFinalizedKeeps ==
  ASSUME HandlesAssumption, TypeOK, TypeOK', IInv,
         NEW s \in Statements, UseFinalized(s)
  PROVE  IInv'
BY DEF IInv, LibraryAgrees, DatabasesNeverDangle, StatementsOwn,
   PointersAreBoxed, CallHolds, LiveIsHeld, DanglingOnlyAfterFailedStep,
   UseFinalized, ruby

\* Leaving the call gives back what the call holds.
LEMMA BindFailsKeeps ==
  ASSUME HandlesAssumption, TypeOK, TypeOK', IInv, BindFails
  PROVE  IInv'
<1>1. LibraryAgrees'
  BY DEF TypeOK, IInv, LibraryAgrees, BindFails, LeaveCall, Release, Finalize,
     LiveOn, ruby
<1>2. DatabasesNeverDangle'
  BY DEF TypeOK, IInv, DatabasesNeverDangle, BindFails, LeaveCall, Release,
     Finalize, ruby
<1>3. StatementsOwn'
  BY DEF TypeOK, IInv, StatementsOwn, BindFails, LeaveCall, Release, Finalize,
     ruby
<1>4. PointersAreBoxed'
  BY DEF IInv, PointersAreBoxed, BindFails, ruby
<1>5. CallHolds'
  BY DEF CallHolds, BindFails, LeaveCall
<1>6. LiveIsHeld'
  BY DEF TypeOK, IInv, LiveIsHeld, BindFails, LeaveCall, Release, Finalize,
     ruby
<1>7. DanglingOnlyAfterFailedStep'
  BY DEF TypeOK, IInv, CallHolds, DanglingOnlyAfterFailedStep, BindFails,
     InCall, LeaveCall, Release, Finalize, ruby
<1> QED
  BY <1>1, <1>2, <1>3, <1>4, <1>5, <1>6, <1>7 DEF IInv

\* Nothing moves.
LEMMA BindsDoneKeeps ==
  ASSUME HandlesAssumption, TypeOK, TypeOK', IInv, BindsDone
  PROVE  IInv'
BY DEF IInv, LibraryAgrees, DatabasesNeverDangle, StatementsOwn,
   PointersAreBoxed, CallHolds, LiveIsHeld, DanglingOnlyAfterFailedStep,
   BindsDone, InCall, ruby

\* Leaving the call gives back what the call holds; the error stays with the
\* statement.
LEMMA StepFailsKeeps ==
  ASSUME HandlesAssumption, TypeOK, TypeOK', IInv, StepFails
  PROVE  IInv'
<1>1. LibraryAgrees'
  BY DEF TypeOK, IInv, LibraryAgrees, StepFails, LeaveCall, Release, Finalize,
     LiveOn, ruby
<1>2. DatabasesNeverDangle'
  BY DEF TypeOK, IInv, DatabasesNeverDangle, StepFails, LeaveCall, Release,
     Finalize, ruby
<1>3. StatementsOwn'
  BY DEF TypeOK, IInv, StatementsOwn, StepFails, LeaveCall, Release, Finalize,
     ruby
<1>4. PointersAreBoxed'
  BY DEF IInv, PointersAreBoxed, StepFails, ruby
<1>5. CallHolds'
  BY DEF CallHolds, StepFails, LeaveCall
<1>6. LiveIsHeld'
  BY DEF TypeOK, IInv, LiveIsHeld, StepFails, LeaveCall, Release, Finalize,
     ruby
<1>7. DanglingOnlyAfterFailedStep'
  BY DEF TypeOK, IInv, CallHolds, DanglingOnlyAfterFailedStep, StepFails,
     InCall, LeaveCall, Release, Finalize, ruby
<1> QED
  BY <1>1, <1>2, <1>3, <1>4, <1>5, <1>6, <1>7 DEF IInv

\* Leaving the call gives back what the call holds.
LEMMA StepsDoneKeeps ==
  ASSUME HandlesAssumption, TypeOK, TypeOK', IInv, StepsDone
  PROVE  IInv'
<1>1. LibraryAgrees'
  BY DEF TypeOK, IInv, LibraryAgrees, StepsDone, LeaveCall, Release, Finalize,
     LiveOn, ruby
<1>2. DatabasesNeverDangle'
  BY DEF TypeOK, IInv, DatabasesNeverDangle, StepsDone, LeaveCall, Release,
     Finalize, ruby
<1>3. StatementsOwn'
  BY DEF TypeOK, IInv, StatementsOwn, StepsDone, LeaveCall, Release, Finalize,
     ruby
<1>4. PointersAreBoxed'
  BY DEF IInv, PointersAreBoxed, StepsDone, ruby
<1>5. CallHolds'
  BY DEF CallHolds, StepsDone, LeaveCall
<1>6. LiveIsHeld'
  BY DEF TypeOK, IInv, LiveIsHeld, StepsDone, LeaveCall, Release, Finalize,
     ruby
<1>7. DanglingOnlyAfterFailedStep'
  BY DEF TypeOK, IInv, CallHolds, DanglingOnlyAfterFailedStep, StepsDone,
     InCall, LeaveCall, Release, Finalize, ruby
<1> QED
  BY <1>1, <1>2, <1>3, <1>4, <1>5, <1>6, <1>7 DEF IInv

\* A collected Database is not the one the call in progress works on.
LEMMA DbFreeKeeps ==
  ASSUME HandlesAssumption, TypeOK, TypeOK', IInv,
         NEW d \in Databases, DbFree(d)
  PROVE  IInv'
<1>1. LibraryAgrees'
  BY DEF TypeOK, IInv, LibraryAgrees, DbFree, CloseV2, LiveOn
<1>2. DatabasesNeverDangle'
  BY DEF TypeOK, IInv, DatabasesNeverDangle, DbFree, CloseV2
<1>3. StatementsOwn'
  BY DEF HandlesAssumption, TypeOK, IInv, LibraryAgrees, DatabasesNeverDangle,
     StatementsOwn, DbFree
<1>4. PointersAreBoxed'
  BY DEF TypeOK, IInv, PointersAreBoxed, DbFree, Collected
<1>5. CallHolds'
  <2>1. call # Idle => call \in Executing
    BY CallTyped
  <2>2. /\ d \notin reach /\ UNCHANGED <<call, exiting, reach, stPtr, sq, sqConn>>
        /\ \A e \in Databases : e # d => dbPtr'[e] = dbPtr[e]
    BY DEF DbFree, Collected, TypeOK
  <2>3. \A c \in Conns : conn'[c] = "open" => conn[c] = "open"
    BY DEF DbFree, CloseV2, TypeOK
  <2> QED
    BY <2>1, <2>2, <2>3 DEF IInv, CallHolds, Executing
<1>6. LiveIsHeld'
  BY DEF TypeOK, IInv, LiveIsHeld, DbFree
<1>7. DanglingOnlyAfterFailedStep'
  BY DEF IInv, DanglingOnlyAfterFailedStep, DbFree
<1> QED
  BY <1>1, <1>2, <1>3, <1>4, <1>5, <1>6, <1>7 DEF IInv

\* A collected Statement is not the one the call in progress works on.
LEMMA StmtFreeKeeps ==
  ASSUME HandlesAssumption, TypeOK, TypeOK', IInv,
         NEW s \in Statements, StmtFree(s)
  PROVE  IInv'
<1>1. LibraryAgrees'
  BY DEF TypeOK, IInv, LibraryAgrees, StmtFree, Finalize, LiveOn
<1>2. DatabasesNeverDangle'
  BY DEF TypeOK, IInv, DatabasesNeverDangle, StmtFree, Finalize
<1>3. StatementsOwn'
  BY DEF HandlesAssumption, TypeOK, IInv, LibraryAgrees, DatabasesNeverDangle,
     StatementsOwn, StmtFree, Finalize
<1>4. PointersAreBoxed'
  BY DEF TypeOK, IInv, PointersAreBoxed, StmtFree, Collected
<1>5. CallHolds'
  <2>1. call # Idle /\ stPtr[s] # Null => call.stmt # stPtr[s]
    BY DEF IInv, CallHolds, StatementsOwn, StmtFree, Collected, Executing, Idle,
       TypeOK
  <2> QED
    BY <2>1, CallTyped DEF HandlesAssumption, TypeOK, IInv, CallHolds, StmtFree,
       Finalize, Collected, Objects, Executing
<1>6. LiveIsHeld'
  BY DEF TypeOK, IInv, LiveIsHeld, StmtFree, Finalize
<1>7. DanglingOnlyAfterFailedStep'
  BY DEF HandlesAssumption, TypeOK, IInv, StatementsOwn,
     DanglingOnlyAfterFailedStep, StmtFree, Finalize
<1> QED
  BY <1>1, <1>2, <1>3, <1>4, <1>5, <1>6, <1>7 DEF IInv

\* No call is in progress when the VM ends.
LEMMA ExitKeeps ==
  ASSUME HandlesAssumption, TypeOK, TypeOK', IInv, Exit
  PROVE  IInv'
BY DEF IInv, LibraryAgrees, DatabasesNeverDangle, StatementsOwn,
   PointersAreBoxed, CallHolds, LiveIsHeld, DanglingOnlyAfterFailedStep, Exit

-----------------------------------------------------------------------------
\* Nothing has an owner at the start.
LEMMA InitHolds == HandlesAssumption /\ Init => IInv
BY DEF HandlesAssumption, Init, IInv, LibraryAgrees, DatabasesNeverDangle,
   StatementsOwn, PointersAreBoxed, CallHolds, LiveIsHeld,
   DanglingOnlyAfterFailedStep

\* A stutter keeps the invariant.
LEMMA StutterKeeps == IInv /\ UNCHANGED vars => IInv'
BY DEF vars, IInv, LibraryAgrees, DatabasesNeverDangle, StatementsOwn,
   PointersAreBoxed, CallHolds, LiveIsHeld, DanglingOnlyAfterFailedStep

\* Every step keeps the invariant.
LEMMA StepKeeps == HandlesAssumption /\ TypeOK /\ IInv /\ [Next]_vars => IInv'
<1> SUFFICES ASSUME HandlesAssumption, TypeOK, IInv, [Next]_vars PROVE IInv'
  OBVIOUS
<1>1. TypeOK'
  BY StepTyped
<1>2. CASE \E o \in Objects : Alloc(o) \/ Forget(o)
  BY <1>1, <1>2, AllocKeeps, ForgetKeeps
<1>3. CASE \E c \in Conns : OpenFails(c)
  BY <1>1, <1>3, OpenFailsKeeps
<1>4. ASSUME NEW d \in Databases,
             \/ \E c \in Conns : Open(d, c)
             \/ \E op \in {"prepare", "db_execute"} : ConvertSql(d, op)
             \/ DbClose(d)
      PROVE  IInv'
  BY <1>1, <1>4, OpenKeeps, ConvertSqlKeeps, DbCloseKeeps
<1>10. CASE \/ SqlFails \/ PrepareOnFreed \/ DbExecute
            \/ \E s \in Statements : Prepare(s)
            \/ \E x \in Stmts : SeveralStatements(x)
  BY <1>1, <1>10, SqlFailsKeeps, PrepareOnFreedKeeps, DbExecuteKeeps, PrepareKeeps,
     SeveralStatementsKeeps
<1>5. CASE \E s \in Statements : StmtExecute(s) \/ StmtClose(s) \/ UseFinalized(s)
  BY <1>1, <1>5, StmtExecuteKeeps, StmtCloseKeeps, UseFinalizedKeeps
<1>6. CASE BindFails \/ BindsDone \/ StepFails \/ StepsDone
  BY <1>1, <1>6, BindFailsKeeps, BindsDoneKeeps, StepFailsKeeps, StepsDoneKeeps
<1>7. CASE Collect
  BY <1>1, <1>7, DbFreeKeeps, StmtFreeKeeps DEF Collect
<1>8. CASE Exit
  BY <1>1, <1>8, ExitKeeps
<1>9. CASE UNCHANGED vars
  BY <1>9, StutterKeeps
<1> QED
  BY <1>2, <1>3, <1>4, <1>5, <1>6, <1>7, <1>8, <1>9, <1>10 DEF Next

\* The inductive invariant holds in every behaviour: what each handle, object
\* and call of lib.rs knows of the others is consistent.
THEOREM InvariantHolds == Spec => [](TypeOK /\ IInv)
<1>1. Init => TypeOK /\ IInv
  BY InitTyped, InitHolds, HandlesAssumption
<1>2. TypeOK /\ IInv /\ [Next]_vars => (TypeOK /\ IInv)'
  BY StepTyped, StepKeeps, HandlesAssumption
<1> QED
  BY <1>1, <1>2, PTL DEF Spec

\* Type correctness; in particular an execute call always knows its connection.
THEOREM HandlesTyped == Spec => []TypeOK
BY InvariantHolds, PTL

\* No way out of open, prepare, execute or close, and no order of collections,
\* loses a statement or a connection (lib.rs 370-371, 518-519).
THEOREM NoHandleIsLost == Spec => []NothingLeaks
<1>1. IInv => NothingLeaks
  BY DEF IInv, LibraryAgrees, LiveIsHeld, NothingLeaks, LiveOn
<1> QED
  BY <1>1, InvariantHolds, PTL

\* A Database's pointer is null or an open connection of its own (lib.rs 254).
THEOREM DatabasesAreSafe == Spec => []DatabasesNeverDangle
<1>1. IInv => DatabasesNeverDangle
  BY DEF IInv
<1> QED
  BY <1>1, InvariantHolds, PTL

\* Only a close after a failed step leaves a Statement with a finalized handle
\* (lib.rs 685-689).
THEOREM DanglingHasOneCause == Spec => []DanglingOnlyAfterFailedStep
<1>1. IInv => DanglingOnlyAfterFailedStep
  BY DEF IInv
<1> QED
  BY <1>1, InvariantHolds, PTL

-----------------------------------------------------------------------------
\* Every step that gives the library a freed handle starts from, or makes, a
\* Statement that dangles.
LEMMA StepUndefined ==
  HandlesAssumption /\ TypeOK /\ IInv /\ UndefinedOnlyWhenDangling /\ [Next]_vars
    => UndefinedOnlyWhenDangling'
<1> SUFFICES ASSUME HandlesAssumption, TypeOK, IInv, UndefinedOnlyWhenDangling,
                    [Next]_vars
             PROVE  UndefinedOnlyWhenDangling'
  OBVIOUS
<1>1. ASSUME NEW s \in Statements, UseFinalized(s) PROVE UndefinedOnlyWhenDangling'
  BY <1>1 DEF UseFinalized, UndefinedOnlyWhenDangling, ruby
<1>2. ASSUME NEW s \in Statements, StmtClose(s) PROVE UndefinedOnlyWhenDangling'
  BY <1>2 DEF StmtClose, CalledToClose, Running, Finalize, UndefinedOnlyWhenDangling, TypeOK
<1>3. ASSUME StepFails PROVE UndefinedOnlyWhenDangling'
  <2>1. call \in Executing /\ undefinedUse = {}
    BY <1>3, CallTyped DEF StepFails, InCall
  <2>2. conn[call.db] # "freed"
    BY <1>3, <2>1 DEF StepFails, InCall, IInv, CallHolds, LibraryAgrees,
       DatabasesNeverDangle, HandlesAssumption, Executing
  <2> QED
    BY <1>3, <2>1, <2>2 DEF StepFails, UndefinedOnlyWhenDangling
<1>8. ASSUME PrepareOnFreed PROVE UndefinedOnlyWhenDangling'
  BY <1>8 DEF PrepareOnFreed, InCall, UndefinedOnlyWhenDangling
<1>4. ASSUME NEW s \in Statements, StmtFree(s) PROVE UndefinedOnlyWhenDangling'
  <2>1. stPtr[s] # Null /\ sq[stPtr[s]] # "live" => sq[stPtr[s]] = "freed"
    BY DEF IInv, StatementsOwn, TypeOK
  <2> QED
    BY <1>4, <2>1 DEF StmtFree, Collected, UndefinedOnlyWhenDangling
<1>5. ASSUME undefinedUse = {}, UNCHANGED undefinedUse
      PROVE  UndefinedOnlyWhenDangling'
  BY <1>5 DEF UndefinedOnlyWhenDangling
<1>6. ASSUME UNCHANGED vars PROVE UndefinedOnlyWhenDangling'
  BY <1>6 DEF vars, UndefinedOnlyWhenDangling
<1>7. ASSUME Next PROVE \/ undefinedUse = {} /\ UNCHANGED undefinedUse
                        \/ \E s \in Statements : UseFinalized(s) \/ StmtClose(s) \/ StmtFree(s)
                        \/ StepFails \/ PrepareOnFreed
  BY <1>7 DEF Next, Collect, Alloc, Forget, OpenFails, Open, Prepare,
     ConvertSql, SqlFails, SqlIn, SeveralStatements, DbExecute, DbClose, StmtExecute,
     BindFails, BindsDone, StepsDone, InCall, DbFree, Exit, Born, Called,
     CalledToClose, Running, Collected
<1> QED
  BY <1>1, <1>2, <1>3, <1>4, <1>5, <1>6, <1>7, <1>8

\* Unless a Statement dangles or a to_str closed the Database that converts its
\* SQL, no step of any object passes a freed handle to
\* the library, closed and collected Databases included (lib.rs 176-202, 254-266).
THEOREM UndefinedHasOneCause == Spec => []UndefinedOnlyWhenDangling
<1>1. Init => UndefinedOnlyWhenDangling
  BY DEF Init, UndefinedOnlyWhenDangling
<1>2. TypeOK /\ IInv /\ UndefinedOnlyWhenDangling /\ [Next]_vars
        => UndefinedOnlyWhenDangling'
  BY StepUndefined, HandlesAssumption
<1> QED
  BY <1>1, <1>2, InvariantHolds, PTL DEF Spec
=============================================================================
