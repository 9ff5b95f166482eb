----------------------------- MODULE Pg_proofs -----------------------------
(***************************************************************************)
(* Proofs about the pg crate.  Those about PgHandles hold for any number   *)
(* of objects, handles and descriptors: ownership of connections, of       *)
(* results and of the pointers that calls hold are the conjuncts of the    *)
(* inductive invariant, and the last needs the first.                      *)
(* Those about PgText are for values of any length: what conninfo_quote    *)
(* writes and what libpq reads are folds, and the two are followed side by *)
(* side, one character of the value after the other; so are the loop of    *)
(* parse_i64_raw and the number it reads, which agree up to wrapping.      *)
(***************************************************************************)
EXTENDS MCPg, SequenceFacts, TLAPS

\* A connection is live exactly while one object, not yet collected, holds it.
ConnsOwned ==
  /\ \A k \in Connections : connPtr[k] # Null =>
       /\ Live(connPtr[k]) /\ obj[k] = "boxed"
       /\ \A m \in Connections : connPtr[m] = connPtr[k] => m = k
  /\ \A c \in Conns : Live(c) => \E k \in Connections : connPtr[k] = c

\* So is a result.
ResultsOwned ==
  /\ \A r \in Results : resPtr[r] # Null =>
       /\ res[resPtr[r]] = "live" /\ obj[r] = "boxed"
       /\ \A s \in Results : resPtr[s] = resPtr[r] => s = r
  /\ \A x \in Rows : res[x] = "live" => \E r \in Results : resPtr[r] = x

\* The pointer a call holds is its receiver's, or has been finished; the
\* receiver is not collected meanwhile.
CallsOwned ==
  \A k \in Connections : using[k] # Null =>
    /\ obj[k] = "boxed"
    /\ conn[using[k]] # "none"
    /\ connPtr[k] = using[k] \/ conn[using[k]] = "freed"

IInv == ConnsOwned /\ ResultsOwned /\ CallsOwned

-----------------------------------------------------------------------------
\* The start is well typed and owns nothing.
LEMMA InitHolds == PgAssumption /\ Init => TypeOK /\ IInv
<1> SUFFICES ASSUME PgAssumption, Init PROVE TypeOK /\ IInv
  OBVIOUS
<1>1. TypeOK
  BY DEF Init, TypeOK
<1>2. ConnsOwned /\ ResultsOwned
  BY DEF Init, ConnsOwned, ResultsOwned, Live
<1>3. CallsOwned
  BY DEF Init, CallsOwned
<1> QED
  BY <1>1, <1>2, <1>3 DEF IInv

\* Finishing a connection, or null, keeps libpq's tables well typed.
LEMMA FinishTyped ==
  ASSUME TypeOK, NEW c
  PROVE  /\ Finished(c) \in [Conns -> {"none", "ok", "bad", "freed"}]
         /\ Disconnected(c) \in [Conns -> Fds \cup {Null}]
BY DEF TypeOK, Finished, Disconnected

\* So does closing a number.
LEMMA ClosingTyped ==
  ASSUME TypeOK, NEW f
  PROVE  AfterClosing(f) \in [Fds -> Conns \cup {Closed, DevNull}]
BY DEF TypeOK, AfterClosing

\* Whatever a method leaves behind is well typed.
LEMMA StepTyped == PgAssumption /\ TypeOK /\ [Next]_vars => TypeOK'
<1> SUFFICES ASSUME PgAssumption, TypeOK, [Next]_vars PROVE TypeOK'
  OBVIOUS
<1>1. ASSUME NEW o \in Connections \cup Results, Alloc(o) PROVE TypeOK'
  BY <1>1 DEF Alloc, Born, TypeOK, calls, Objects
<1>2. ASSUME NEW o \in Objects, Forget(o) PROVE TypeOK'
  BY <1>2 DEF Forget, TypeOK, calls
<1>3. ASSUME NEW k \in Connections, InitializeRaises(k) PROVE TypeOK'
  BY <1>3, FinishTyped, ClosingTyped DEF InitializeRaises, Finish, TypeOK, calls
<1>4. ASSUME NEW k \in Connections, NEW c \in Conns, Initialize(k, c) PROVE TypeOK'
  <2>1. /\ Finished(connPtr[k]) \in [Conns -> {"none", "ok", "bad", "freed"}]
        /\ Disconnected(connPtr[k]) \in [Conns -> Fds \cup {Null}]
        /\ AfterClosing(SocketOf(connPtr[k])) \in [Fds -> Conns \cup {Closed, DevNull}]
    BY FinishTyped, ClosingTyped
  <2> QED
    BY <1>4, <2>1 DEF Initialize, TypeOK, calls
<1>5. ASSUME NEW k \in Connections, NEW r \in Results, NEW x \in Rows,
             Exec(k, r, x) \/ GetLastResult(k, r, x)
      PROVE  TypeOK'
  BY <1>5 DEF Exec, GetLastResult, Returns, Wrap, Born, TypeOK, calls, Objects
<1>6. ASSUME NEW k \in Connections, NEW x \in Rows,
             ExecFails(k, x) \/ GetLastResultFails(k, x)
      PROVE  TypeOK'
  <2>1. \A c : Fatal(c, x) =>
          /\ conn' \in [Conns -> {"none", "ok", "bad", "freed"}]
          /\ sock' \in [Conns -> Fds \cup {Null}]
          /\ desc' \in [Fds -> Conns \cup {Closed, DevNull}]
    BY FinishTyped, ClosingTyped DEF Fatal, TypeOK
  <2> QED
    BY <1>6, <2>1 DEF ExecFails, GetLastResultFails, Fatal, Returns, ClearedInCall,
       TypeOK, calls
<1>7. ASSUME NEW k \in Connections, NEW x \in Rows, Prepare(k, x) PROVE TypeOK'
  BY <1>7 DEF Prepare, Returns, ClearedInCall, TypeOK, calls
<1>8. ASSUME NEW k \in Connections, Reset(k) PROVE TypeOK'
  <2>1. connPtr[k] \in Conns
    BY <1>8 DEF Reset, CalledOpen, TypeOK
  <2>2. /\ Disconnected(connPtr[k]) \in [Conns -> Fds \cup {Null}]
        /\ AfterClosing(sock[connPtr[k]]) \in [Fds -> Conns \cup {Closed, DevNull}]
    BY FinishTyped, ClosingTyped
  <2> QED
    BY <1>8, <2>1, <2>2 DEF Reset, Dial, TypeOK, calls
<1>9. ASSUME NEW k \in Connections, Close(k) PROVE TypeOK'
  BY <1>9, FinishTyped, ClosingTyped DEF Close, Finish, TypeOK, calls
<1>10. ASSUME NEW k \in Connections, ConnFree(k) PROVE TypeOK'
  BY <1>10, FinishTyped, ClosingTyped DEF ConnFree, Collected, Finish, TypeOK, calls
<1>11. ASSUME NEW k \in Connections, NEW i \in Ios, SocketIo(k, i) PROVE TypeOK'
  <2>1. sock[connPtr[k]] \in Fds
    BY <1>11 DEF SocketIo, CalledOpen, TypeOK
  <2> QED
    BY <1>11, <2>1 DEF SocketIo, Born, TypeOK, Objects, calls
<1>12. ASSUME NEW r \in Results, Clear(r) \/ ResFree(r) PROVE TypeOK'
  BY <1>12 DEF Clear, ResFree, Collected, TypeOK, calls
<1>13. ASSUME NEW i \in Ios, IoReopen(i) \/ IoClose(i) \/ IoFree(i) PROVE TypeOK'
  BY <1>13, ClosingTyped DEF IoReopen, IoClose, IoFree, Collected, TypeOK, calls
<1>14. ASSUME Exit PROVE TypeOK'
  BY <1>14 DEF Exit, TypeOK, calls
<1>15. ASSUME UNCHANGED vars PROVE TypeOK'
  BY <1>15 DEF vars, TypeOK, calls
<1>16. ASSUME NEW k \in Connections, Convert(k) \/ ConvertRaises(k) \/ UseFreed(k)
       PROVE  TypeOK'
  BY <1>16 DEF Convert, ConvertRaises, UseFreed, Returns, TypeOK
<1> QED
  BY <1>1, <1>2, <1>3, <1>4, <1>5, <1>6, <1>7, <1>8, <1>9, <1>10, <1>11, <1>12,
     <1>13, <1>14, <1>15, <1>16 DEF Next

\* Every state is well typed.
THEOREM TypeCorrect == Spec => []TypeOK
<1>1. Init => TypeOK
  BY InitHolds, PgAssumption
<1>2. TypeOK /\ [Next]_vars => TypeOK'
  BY StepTyped, PgAssumption
<1> QED
  BY <1>1, <1>2, PTL DEF Spec

-----------------------------------------------------------------------------
\* A live connection keeps its one owner.
LEMMA StepConns == PgAssumption /\ TypeOK /\ ConnsOwned /\ [Next]_vars => ConnsOwned'
<1> SUFFICES ASSUME PgAssumption, TypeOK, ConnsOwned, [Next]_vars PROVE ConnsOwned'
  OBVIOUS
<1>1. ASSUME UNCHANGED <<connPtr, conn>>,
             \A k \in Connections : connPtr[k] # Null => obj'[k] = obj[k]
      PROVE  ConnsOwned'
  BY <1>1 DEF ConnsOwned, Live
<1>2. ASSUME NEW k \in Connections, conn' = Finished(connPtr[k]),
             connPtr' = [connPtr EXCEPT ![k] = Null],
             \A m \in Connections \ {k} : obj'[m] = obj[m]
      PROVE  ConnsOwned'
  BY <1>2 DEF ConnsOwned, Live, Finished, TypeOK, PgAssumption
<1>3. ASSUME NEW k \in Connections, UNCHANGED <<connPtr, obj>>,
             NEW s \in {"ok", "bad"}, Live(connPtr[k]),
             conn' = [conn EXCEPT ![connPtr[k]] = s]
      PROVE  ConnsOwned'
  BY <1>3 DEF ConnsOwned, Live, TypeOK, PgAssumption
<1>4. ASSUME NEW o \in Connections \cup Results, Alloc(o) PROVE ConnsOwned'
  BY <1>1, <1>4 DEF Alloc, Born, TypeOK, ConnsOwned
<1>5. ASSUME NEW k \in Connections, NEW c \in Conns, Initialize(k, c) PROVE ConnsOwned'
  <2>1. connPtr' = [connPtr EXCEPT ![k] = c] /\ obj' = obj /\ obj[k] = "boxed"
    BY <1>5 DEF Initialize, Called
  <2>2. \A m \in Connections : connPtr[m] # c
    BY <1>5 DEF Initialize, ConnsOwned, Live, PgAssumption
  <2>3. PICK s \in {"ok", "bad"} : conn' = [Finished(connPtr[k]) EXCEPT ![c] = s]
    BY <1>5 DEF Initialize
  <2> QED
    BY <2>1, <2>2, <2>3 DEF ConnsOwned, Live, Finished, TypeOK, PgAssumption
<1>6. ASSUME NEW k \in Connections, InitializeRaises(k) \/ Close(k) \/ ConnFree(k)
      PROVE  ConnsOwned'
  BY <1>2, <1>6 DEF InitializeRaises, Close, ConnFree, Finish, Collected, TypeOK, Objects
<1>7. ASSUME NEW k \in Connections, NEW x \in Rows,
             ExecFails(k, x) \/ GetLastResultFails(k, x)
      PROVE  ConnsOwned'
  <2>1. ASSUME NEW c, Fatal(c, x) PROVE ConnsOwned'
    <3>1. CASE UNCHANGED conn
      BY <1>1, <2>1, <3>1 DEF Fatal
    <3>2. CASE conn[c] = "ok" /\ conn' = [conn EXCEPT ![c] = "bad"]
      BY <2>1, <3>2 DEF Fatal, ConnsOwned, Live, TypeOK, PgAssumption
    <3> QED
      BY <2>1, <3>1, <3>2 DEF Fatal
  <2> QED
    BY <1>7, <2>1 DEF ExecFails, GetLastResultFails
<1>8. ASSUME NEW k \in Connections, Reset(k) PROVE ConnsOwned'
  <2>1. Live(connPtr[k])
    BY <1>8 DEF Reset, CalledOpen, ConnsOwned
  <2> QED
    BY <1>3, <1>8, <2>1 DEF Reset
<1>9. ASSUME NEW k \in Connections, NEW r \in Results, NEW x \in Rows,
             Exec(k, r, x) \/ GetLastResult(k, r, x)
      PROVE  ConnsOwned'
  BY <1>1, <1>9 DEF Exec, GetLastResult, Wrap, Born, TypeOK, PgAssumption, Objects
<1>10. ASSUME NEW k \in Connections, NEW i \in Ios, SocketIo(k, i) PROVE ConnsOwned'
  BY <1>1, <1>10 DEF SocketIo, Born, TypeOK, PgAssumption, Objects
<1>11. ASSUME NEW r \in Results, Clear(r) \/ ResFree(r) PROVE ConnsOwned'
  BY <1>1, <1>11 DEF Clear, ResFree, Collected, TypeOK, PgAssumption, Objects
<1>12. ASSUME NEW i \in Ios, IoReopen(i) \/ IoClose(i) \/ IoFree(i) PROVE ConnsOwned'
  BY <1>1, <1>12 DEF IoReopen, IoClose, IoFree, Collected, TypeOK, PgAssumption, Objects
<1>13. ASSUME \/ UNCHANGED vars \/ Exit \/ \E o \in Objects : Forget(o)
              \/ \E k \in Connections :
                   \/ Convert(k) \/ ConvertRaises(k) \/ UseFreed(k)
                   \/ \E x \in Rows : Prepare(k, x)
       PROVE  ConnsOwned'
  BY <1>1, <1>13 DEF vars, Exit, Forget, Prepare, Convert, ConvertRaises, UseFreed
<1> QED
  BY <1>4, <1>5, <1>6, <1>7, <1>8, <1>9, <1>10, <1>11, <1>12, <1>13 DEF Next

\* A live result keeps its one owner.
LEMMA StepResults == PgAssumption /\ TypeOK /\ ResultsOwned /\ [Next]_vars => ResultsOwned'
<1> SUFFICES ASSUME PgAssumption, TypeOK, ResultsOwned, [Next]_vars PROVE ResultsOwned'
  OBVIOUS
<1>1. ASSUME UNCHANGED resPtr, \A x \in Rows : res[x] = "live" <=> res'[x] = "live",
             \A r \in Results : resPtr[r] # Null => obj'[r] = obj[r]
      PROVE  ResultsOwned'
  BY <1>1 DEF ResultsOwned, TypeOK, PgAssumption
<1>2. ASSUME NEW o \in Connections \cup Results, Alloc(o) PROVE ResultsOwned'
  BY <1>1, <1>2 DEF Alloc, Born, TypeOK, ResultsOwned
<1>3. ASSUME NEW k \in Connections, NEW r \in Results, NEW x \in Rows,
             Exec(k, r, x) \/ GetLastResult(k, r, x)
      PROVE  ResultsOwned'
  <2>1. /\ res[x] = "none" /\ obj[r] = "unborn"
        /\ res' = [res EXCEPT ![x] = "live"]
        /\ resPtr' = [resPtr EXCEPT ![r] = x]
        /\ obj' = [obj EXCEPT ![r] = "boxed"]
    BY <1>3 DEF Exec, GetLastResult, Wrap, Born
  <2>2. resPtr[r] = Null /\ \A s \in Results : resPtr[s] # x
    BY <2>1 DEF ResultsOwned, PgAssumption
  <2> QED
    BY <2>1, <2>2 DEF ResultsOwned, TypeOK, PgAssumption, Objects
<1>4. ASSUME NEW x \in Rows, ClearedInCall(x), UNCHANGED <<resPtr, obj>>
      PROVE  ResultsOwned'
  BY <1>1, <1>4 DEF ClearedInCall, TypeOK
<1>5. ASSUME NEW r \in Results, Clear(r) \/ ResFree(r) PROVE ResultsOwned'
  <2>1. /\ \A x \in Rows : res'[x] = IF x = resPtr[r] THEN "freed" ELSE res[x]
        /\ resPtr' = [resPtr EXCEPT ![r] = Null]
        /\ \A s \in Results \ {r} : obj'[s] = obj[s]
    BY <1>5 DEF Clear, ResFree, Collected, TypeOK, Objects
  <2> QED
    BY <2>1 DEF ResultsOwned, TypeOK, PgAssumption
<1>6. ASSUME NEW k \in Connections, InitializeRaises(k) \/ Close(k) \/ ConnFree(k)
      PROVE  ResultsOwned'
  BY <1>1, <1>6 DEF InitializeRaises, Close, ConnFree, Collected, TypeOK, PgAssumption, Objects
<1>7. ASSUME NEW k \in Connections, NEW i \in Ios, SocketIo(k, i) PROVE ResultsOwned'
  BY <1>1, <1>7 DEF SocketIo, Born, TypeOK, PgAssumption, Objects
<1>8. ASSUME NEW i \in Ios, IoReopen(i) \/ IoClose(i) \/ IoFree(i) PROVE ResultsOwned'
  BY <1>1, <1>8 DEF IoReopen, IoClose, IoFree, Collected, TypeOK, PgAssumption, Objects
<1>9. ASSUME \/ UNCHANGED vars \/ Exit \/ \E o \in Objects : Forget(o)
             \/ \E k \in Connections :
                  \/ Convert(k) \/ ConvertRaises(k) \/ UseFreed(k)
                  \/ Reset(k) \/ \E c \in Conns : Initialize(k, c)
      PROVE  ResultsOwned'
  BY <1>1, <1>9 DEF vars, Exit, Forget, Reset, Initialize, Convert, ConvertRaises, UseFreed
<1>10. ASSUME NEW k \in Connections, NEW x \in Rows,
              ExecFails(k, x) \/ GetLastResultFails(k, x) \/ Prepare(k, x)
       PROVE  ResultsOwned'
  BY <1>4, <1>10 DEF ExecFails, GetLastResultFails, Fatal, Prepare
<1> QED
  BY <1>2, <1>3, <1>5, <1>6, <1>7, <1>8, <1>9, <1>10 DEF Next

-----------------------------------------------------------------------------
\* A call's pointer is finished only through its receiver, which outlives it.
LEMMA StepCalls ==
  PgAssumption /\ TypeOK /\ ConnsOwned /\ CallsOwned /\ [Next]_vars => CallsOwned'
<1> SUFFICES ASSUME PgAssumption, TypeOK, ConnsOwned, CallsOwned, [Next]_vars
             PROVE  CallsOwned'
  OBVIOUS
<1>1. ASSUME UNCHANGED <<connPtr, conn>>,
             \A k \in Connections : using'[k] # Null => obj'[k] = obj[k] /\ using'[k] = using[k]
      PROVE  CallsOwned'
  BY <1>1 DEF CallsOwned
<1>2. ASSUME NEW k \in Connections, conn' = Finished(connPtr[k]), UNCHANGED using,
             connPtr' = [connPtr EXCEPT ![k] = Null],
             \A m \in Connections : using[m] # Null => obj'[m] = obj[m]
      PROVE  CallsOwned'
  BY <1>2 DEF CallsOwned, ConnsOwned, Finished, TypeOK, PgAssumption
<1>3. ASSUME NEW c \in Conns, NEW s \in {"ok", "bad"}, Live(c),
             conn' = [conn EXCEPT ![c] = s], UNCHANGED <<connPtr, obj>>,
             \A k \in Connections : using'[k] # Null => using'[k] = using[k]
      PROVE  CallsOwned'
  BY <1>3 DEF CallsOwned, Live, TypeOK
<1>4. ASSUME NEW o \in Objects, obj[o] = "unborn" \/ o \notin Connections,
             obj' = [obj EXCEPT ![o] = "boxed"] \/ obj' = [obj EXCEPT ![o] = "freed"]
      PROVE  \A k \in Connections : using[k] # Null => obj'[k] = obj[k]
  BY <1>4 DEF CallsOwned, TypeOK, Objects
<1>5. ASSUME NEW o \in Connections \cup Results, Alloc(o) PROVE CallsOwned'
  BY <1>1, <1>4, <1>5 DEF Alloc, Born, Objects, calls
<1>6. ASSUME NEW k \in Connections, InitializeRaises(k) \/ Close(k) \/ ConnFree(k)
      PROVE  CallsOwned'
  BY <1>2, <1>6 DEF InitializeRaises, Close, ConnFree, Finish, Collected, TypeOK,
     Objects, calls
<1>7. ASSUME NEW k \in Connections, NEW c \in Conns, Initialize(k, c) PROVE CallsOwned'
  <2>1. /\ conn[c] = "none" /\ UNCHANGED <<obj, using>>
        /\ connPtr' = [connPtr EXCEPT ![k] = c]
    BY <1>7 DEF Initialize, calls
  <2>2. PICK s \in {"ok", "bad"} : conn' = [Finished(connPtr[k]) EXCEPT ![c] = s]
    BY <1>7 DEF Initialize
  <2> QED
    BY <2>1, <2>2 DEF CallsOwned, ConnsOwned, Finished, TypeOK, PgAssumption
<1>8. ASSUME NEW k \in Connections, Convert(k) PROVE CallsOwned'
  BY <1>8 DEF Convert, CalledOpen, Called, CallsOwned, ConnsOwned, Live, TypeOK
<1>9. ASSUME NEW k \in Connections, Returns(k), UNCHANGED <<connPtr, conn>>,
             \A m \in Connections : using[m] # Null => obj'[m] = obj[m]
      PROVE  CallsOwned'
  BY <1>1, <1>9 DEF Returns, TypeOK
<1>10. ASSUME NEW k \in Connections, NEW r \in Results, NEW x \in Rows,
              Exec(k, r, x) \/ GetLastResult(k, r, x)
       PROVE  CallsOwned'
  <2>1. \A m \in Connections : using[m] # Null => obj'[m] = obj[m]
    BY <1>4, <1>10 DEF Exec, GetLastResult, Wrap, Born, Objects
  <2> QED
    BY <1>1, <1>9, <1>10, <2>1 DEF Exec, GetLastResult, Wrap, calls
<1>11. ASSUME NEW k \in Connections, NEW x \in Rows,
              ExecFails(k, x) \/ GetLastResultFails(k, x)
       PROVE  CallsOwned'
  <2>1. \A m \in Connections : using'[m] # Null => using'[m] = using[m]
    BY <1>11 DEF ExecFails, GetLastResultFails, Returns, TypeOK, calls
  <2>2. ASSUME NEW c \in Conns, Fatal(c, x) PROVE CallsOwned'
    <3>1. CASE UNCHANGED conn
      BY <1>1, <2>1, <2>2, <3>1 DEF Fatal
    <3>2. CASE conn[c] = "ok" /\ conn' = [conn EXCEPT ![c] = "bad"]
      BY <1>3, <2>1, <2>2, <3>2 DEF Fatal, Live
    <3> QED
      BY <2>2, <3>1, <3>2 DEF Fatal
  <2>3. using[k] # Null => using[k] \in Conns
    BY DEF TypeOK
  <2>4. connPtr[k] # Null => connPtr[k] \in Conns
    BY DEF TypeOK
  <2> QED
    BY <1>11, <2>2, <2>3, <2>4 DEF ExecFails, GetLastResultFails, Converted, CalledOpen
<1>12. ASSUME NEW k \in Connections, NEW x \in Rows, Prepare(k, x) PROVE CallsOwned'
  BY <1>9, <1>12 DEF Prepare
<1>13. ASSUME NEW k \in Connections, Reset(k) PROVE CallsOwned'
  <2>1. connPtr[k] \in Conns /\ Live(connPtr[k])
    BY <1>13 DEF Reset, CalledOpen, ConnsOwned, TypeOK
  <2> QED
    BY <1>3, <1>13, <2>1 DEF Reset, calls
<1>14. ASSUME NEW k \in Connections, NEW i \in Ios, SocketIo(k, i) PROVE CallsOwned'
  BY <1>1, <1>4, <1>14 DEF SocketIo, Born, Objects, calls
<1>15. ASSUME NEW r \in Results, Clear(r) \/ ResFree(r) PROVE CallsOwned'
  BY <1>1, <1>4, <1>15 DEF Clear, ResFree, Collected, Objects, PgAssumption, calls
<1>16. ASSUME NEW i \in Ios, IoReopen(i) \/ IoClose(i) \/ IoFree(i) PROVE CallsOwned'
  BY <1>1, <1>4, <1>16 DEF IoReopen, IoClose, IoFree, Collected, Objects, PgAssumption, calls
<1>17. ASSUME Exit PROVE CallsOwned'
  BY <1>17 DEF Exit, CallsOwned
<1>18. ASSUME \/ UNCHANGED vars
              \/ \E o \in Objects : Forget(o)
              \/ \E k \in Connections : UseFreed(k)
       PROVE  CallsOwned'
  BY <1>1, <1>18 DEF vars, Forget, UseFreed, calls
<1>19. ASSUME NEW k \in Connections, ConvertRaises(k) PROVE CallsOwned'
  BY <1>9, <1>19 DEF ConvertRaises
<1> QED
  BY <1>5, <1>6, <1>7, <1>8, <1>10, <1>11, <1>12, <1>13, <1>14, <1>15, <1>16, <1>17,
     <1>18, <1>19 DEF Next

\* The ownerships together, and their types, are an inductive invariant.
LEMMA InvariantHolds == Spec => [](TypeOK /\ IInv)
<1>1. Init => TypeOK /\ IInv
  BY InitHolds, PgAssumption
<1>2. TypeOK /\ IInv /\ [Next]_vars => (TypeOK /\ IInv)'
  BY StepTyped, StepConns, StepResults, StepCalls, PgAssumption DEF IInv
<1> QED
  BY <1>1, <1>2, PTL DEF Spec

-----------------------------------------------------------------------------
\* No order of failed connects, fatal results, resets, second initializes and
\* collections loses a connection or a result (lib.rs 732-734).
THEOREM NoHandleIsLost == Spec => []NothingLost
<1>1. TypeOK /\ IInv => NothingLost
  BY PgAssumption DEF IInv, ConnsOwned, ResultsOwned, NothingLost, TypeOK
<1> QED
  BY <1>1, InvariantHolds, PTL

\* A pointer that is not null is live and has one owner, so that no handle is
\* used or freed after it was freed (lib.rs 391-406), except by a call whose
\* own connection was closed while its arguments were converted (772-774).
THEOREM NoHandleDangles == Spec => []HandlesNeverDangle
<1>1. IInv => HandlesNeverDangle
  BY DEF IInv, ConnsOwned, ResultsOwned, CallsOwned, HandlesNeverDangle
<1> QED
  BY <1>1, InvariantHolds, PTL

-----------------------------------------------------------------------------
(* The connection string.  U is any set of characters that has those the    *)
(* crate writes itself.                                                     *)

Marks == {"'", "\\"}

\* Escape, one character after the other.
OneEscaped(out, ch) == IF ch \in Marks THEN out \o <<"\\", ch>> ELSE Append(out, ch)
Escaped(v) == Escape(v, Marks)

\* Escape is a fold.
LEMMA EscapeIsFold ==
  ASSUME NEW U, "\\" \in U
  PROVE  IsFold(Seq(U), U, <<>>, [ch \in U |-> [t \in Seq(U) |-> OneEscaped(t, ch)]],
                [v \in Seq(U) |-> Escaped(v)])
<1> DEFINE X == Seq(U)
           D == U
           b == <<>>
           op(t, ch) == OneEscaped(t, ch)
           Op == [ch \in D |-> [t \in X |-> op(t, ch)]]
           fold == [v \in Seq(D) |-> Escaped(v)]
<1>1. b \in X
    OBVIOUS
<1>2. ASSUME NEW t \in X, NEW ch \in D PROVE op(t, ch) \in X
  <2>1. t \o <<"\\", ch>> \in Seq(U) /\ Append(t, ch) \in Seq(U)
      OBVIOUS
  <2> QED BY <2>1 DEF OneEscaped
<1> HIDE DEF X, D, b, op
<1>3. Op \in [D -> [X -> X]] /\ \A ch \in D, t \in X : Op[ch][t] = op(t, ch)
    BY <1>2
<1>4. ASSUME NEW s \in Seq(D)
      PROVE  Computed(X, b, Len(s), StepsOver(Op, s), Escaped(s))
  <2> DEFINE Is(c) == c = [u \in SUBSET DOMAIN s |->
                             IF u = {} THEN b ELSE op(c[u \ {Max(u)}], s[Max(u)])]
             c == CHOOSE d : Is(d)
  <2> HIDE DEF Op
  <2>1. PICK d : FoldsOver(X, D, b, Op, s, d)
      BY <1>1, <1>3, FoldOver
  <2>2. Is(d)
      BY <1>3, <2>1 DEF FoldsOver
  <2>3. Is(c)
      BY <2>2
  <2>4. Escaped(s) = c[DOMAIN s]
      BY DEF Escaped, Escape, FoldLeft, MapThenFoldSet, Max, op, b, OneEscaped
  <2> HIDE DEF c
  <2>5. c[{}] = b /\ \A u \in SUBSET DOMAIN s :
                       u # {} => c[u] = op(c[u \ {Max(u)}], s[Max(u)])
      BY <2>3
  <2>6. \A u \in SUBSET DOMAIN s :
           u # {} /\ s[Max(u)] \in D /\ c[u \ {Max(u)}] \in X
           => c[u] = Op[s[Max(u)]][c[u \ {Max(u)}]]
      BY <1>3, <2>5
  <2>7. Computed(X, b, Len(s), StepsOver(Op, s), c[DOMAIN s])
      BY <1>1, <1>3, <2>5, <2>6, FoldOverAll
  <2> QED BY <2>4, <2>7
<1> HIDE DEF Op
<1>5. IsFold(X, D, b, Op, fold)
  <2>1. fold = [s \in Seq(D) |-> fold[s]] /\ \A s \in Seq(D) : fold[s] = Escaped(s)
      OBVIOUS
  <2> HIDE DEF fold
  <2> QED BY <1>1, <1>3, <1>4, <2>1, FoldByElement
<1> QED BY <1>5 DEF X, D, b, op, Op

\* It starts with nothing, and adds one character or two.
LEMMA EscapedFacts ==
  ASSUME NEW U, "\\" \in U
  PROVE  /\ Escaped(<<>>) = <<>>
         /\ \A v \in Seq(U) : Escaped(v) \in Seq(U)
         /\ \A v \in Seq(U), ch \in U : Escaped(Append(v, ch)) = OneEscaped(Escaped(v), ch)
<1> DEFINE X == Seq(U)
           Op == [ch \in U |-> [t \in X |-> OneEscaped(t, ch)]]
           fold == [v \in Seq(U) |-> Escaped(v)]
           none == <<>>
<1>1. IsFold(X, U, none, Op, fold)
    BY EscapeIsFold
<1>2. Escaped(<<>>) = <<>>
  <2>1. <<>> \in Seq(U)
      OBVIOUS
  <2>2. fold[<<>>] = none
      BY <1>1 DEF IsFold
  <2> QED BY <2>1, <2>2
<1> HIDE DEF none
<1>3. ASSUME NEW v \in Seq(U) PROVE Escaped(v) \in X
  <2>1. fold[v] \in X
      BY <1>1 DEF IsFold
  <2> QED BY <2>1
<1>4. ASSUME NEW v \in Seq(U), NEW ch \in U PROVE Escaped(Append(v, ch)) = OneEscaped(Escaped(v), ch)
  <2> HIDE DEF X
  <2>1. fold[Append(v, ch)] = Op[ch][fold[v]] /\ fold[v] \in X
      BY <1>1 DEF IsFold
  <2>2. fold[v] = Escaped(v) /\ fold[Append(v, ch)] = Escaped(Append(v, ch))
      BY ConcatOne
  <2> HIDE DEF fold
  <2>3. Op[ch][fold[v]] = OneEscaped(fold[v], ch)
      BY <2>1
  <2> QED BY <2>1, <2>2, <2>3
<1> QED BY <1>2, <1>3, <1>4

\* A text that goes on where another ends has its characters, and those at its
\* own positions.
LEMMA LongerHasAll ==
  ASSUME NEW U, NEW e \in Seq(U), NEW t \in Seq(U), Extended(e, t), NEW k \in 1 .. Len(t)
  PROVE  Range(e) \subseteq Range(t) /\ t[k] \in Range(t)
<1>1. \A i \in 1 .. Len(e) : i \in 1 .. Len(t) /\ e[i] = t[i]
    BY DEF Extended
<1>2. DOMAIN e = 1 .. Len(e) /\ DOMAIN t = 1 .. Len(t)
    OBVIOUS
<1> QED BY <1>1, <1>2 DEF Range

\* No character of a text is lost when it is escaped.
LEMMA EscapedKeeps ==
  ASSUME NEW U, "\\" \in U, NEW v \in Seq(U)
  PROVE  Range(v) \subseteq Range(Escaped(v))
<1> DEFINE R == {w \in Seq(U) : Range(w) \subseteq Range(Escaped(w))}
<1>1. <<>> \in R
    BY DEF Range
<1>2. ASSUME NEW w \in Seq(U), NEW ch \in U, w \in R PROVE Append(w, ch) \in R
  <2>1. PICK e : e = Escaped(w) /\ e \in Seq(U)
      BY EscapedFacts
  <2>2. Escaped(Append(w, ch)) = OneEscaped(e, ch) /\ Append(w, ch) \in Seq(U)
      BY <2>1, EscapedFacts
  <2>3. Range(Append(w, ch)) = Range(w) \cup {ch}
    <3>1. Len(Append(w, ch)) = Len(w) + 1 /\ Append(w, ch)[Len(w) + 1] = ch
          /\ \A i \in 1 .. Len(w) : Append(w, ch)[i] = w[i]
        OBVIOUS
    <3>2. 1 .. (Len(w) + 1) = 1 .. Len(w) \cup {Len(w) + 1}
        OBVIOUS
    <3> QED BY <3>1, <3>2 DEF Range
  <2>4. Range(e) \cup {ch} \subseteq Range(OneEscaped(e, ch))
    <3>1. CASE ch \in Marks
      <4>1. PICK t : t = e \o <<"\\", ch>>
          OBVIOUS
      <4>2. t \in Seq(U) /\ Len(t) = Len(e) + 2 /\ t[Len(e) + 2] = ch
            /\ \A i \in 1 .. Len(e) : t[i] = e[i]
          BY <2>1, <4>1
      <4>3. Extended(e, t) /\ Len(e) + 2 \in 1 .. Len(t)
          BY <2>1, <4>2 DEF Extended
      <4>4. Range(e) \cup {ch} \subseteq Range(t)
          BY <2>1, <4>2, <4>3, LongerHasAll
      <4> QED BY <3>1, <4>1, <4>4 DEF OneEscaped
    <3>2. CASE ch \notin Marks
      <4>1. PICK t : t = Append(e, ch)
          OBVIOUS
      <4>2. t \in Seq(U) /\ Len(t) = Len(e) + 1 /\ t[Len(e) + 1] = ch
            /\ \A i \in 1 .. Len(e) : t[i] = e[i]
          BY <2>1, <4>1
      <4>3. Extended(e, t) /\ Len(e) + 1 \in 1 .. Len(t)
          BY <2>1, <4>2 DEF Extended
      <4>4. Range(e) \cup {ch} \subseteq Range(t)
          BY <2>1, <4>2, <4>3, LongerHasAll
      <4> QED BY <3>2, <4>1, <4>4 DEF OneEscaped
    <3> QED BY <3>1, <3>2
  <2>5. Range(w) \subseteq Range(e)
      BY <1>2, <2>1
  <2> QED BY <2>2, <2>3, <2>4, <2>5
<1> HIDE DEF R
<1>3. \A w \in Seq(U), ch \in U : w \in R => Append(w, ch) \in R
    BY <1>2
<1>4. v \in R
    BY <1>1, <1>3, AppendInduction
<1> QED BY <1>4 DEF R

-----------------------------------------------------------------------------
(* libpq's reading of it.                                                   *)

\* The states of the reader, and one of them by its parts.
Parser(U) ==
  [mode : {"gap", "key", "start", "bare", "bareEsc", "quoted", "quotedEsc", "error"},
   key : U \cup {""}, val : Seq(U), out : Seq((U \cup {""}) \X Seq(U))]
ParserAt(m, k, v, o) == [mode |-> m, key |-> k, val |-> v, out |-> o]
NothingRead == [mode |-> "gap", key |-> "", val |-> <<>>, out |-> <<>>]
ReadBy(text) == FoldLeft(LibpqStep, NothingRead, text)

\* One character.
LEMMA LibpqTyped ==
  ASSUME NEW U, NEW s \in Parser(U), NEW ch \in U
  PROVE  LibpqStep(s, ch) \in Parser(U)
<1>1. /\ ch \in U \cup {""} /\ <<>> \in Seq(U) /\ Append(s.val, ch) \in Seq(U)
      /\ Append(s.out, <<s.key, s.val>>) \in Seq((U \cup {""}) \X Seq(U))
  <2>1. /\ s.val \in Seq(U) /\ s.key \in U \cup {""}
        /\ s.out \in Seq((U \cup {""}) \X Seq(U))
      BY DEF Parser
  <2>2. <<s.key, s.val>> \in (U \cup {""}) \X Seq(U)
      BY <2>1
  <2>3. \A P : \A o \in Seq(P), p \in P : Append(o, p) \in Seq(P)
      OBVIOUS
  <2>4. <<>> \in Seq(U)
      OBVIOUS
  <2> QED BY <2>1, <2>2, <2>3, <2>4
<1> DEFINE taken(m) == [[s EXCEPT !.val = Append(@, ch)] EXCEPT !.mode = m]
           stored == [s EXCEPT !.mode = "gap", !.out = Append(@, <<s.key, s.val>>)]
           begun == [s EXCEPT !.mode = "key", !.key = ch, !.val = <<>>]
           now(m) == [s EXCEPT !.mode = m]
<1>2. /\ taken("quoted") \in Parser(U) /\ taken("bare") \in Parser(U) /\ stored \in Parser(U)
      /\ begun \in Parser(U) /\ now("start") \in Parser(U) /\ now("error") \in Parser(U)
      /\ now("quoted") \in Parser(U) /\ now("bareEsc") \in Parser(U) /\ now("quotedEsc") \in Parser(U)
    BY <1>1 DEF Parser
<1>3. LibpqStep(s, ch) \in {s, stored, begun, now("start"), now("error"), now("quoted"),
                            now("bareEsc"), now("quotedEsc"), taken("quoted"), taken("bare")}
  <2>1. s.mode \in {"gap", "key", "start", "bare", "bareEsc", "quoted", "quotedEsc", "error"}
      BY DEF Parser
  <2>2. CASE s.mode = "gap"
      BY <2>2 DEF LibpqStep
  <2>3. CASE s.mode = "key"
      BY <2>3 DEF LibpqStep
  <2>4. CASE s.mode = "start"
      BY <2>4 DEF LibpqStep, Blank
  <2>5. CASE s.mode = "bare"
      BY <2>5 DEF LibpqStep, Blank
  <2>6. CASE s.mode = "bareEsc"
      BY <2>6 DEF LibpqStep
  <2>7. CASE s.mode = "quoted"
      BY <2>7 DEF LibpqStep
  <2>8. CASE s.mode = "quotedEsc"
      BY <2>8 DEF LibpqStep
  <2>9. CASE s.mode = "error"
      BY <2>9 DEF LibpqStep
  <2> QED BY <2>1, <2>2, <2>3, <2>4, <2>5, <2>6, <2>7, <2>8, <2>9
<1> HIDE DEF taken, stored, begun, now
<1> QED BY <1>2, <1>3

\* conninfo_parse folds the characters.
LEMMA LibpqIsFold ==
  ASSUME NEW U
  PROVE  IsFold(Parser(U), U, NothingRead, [ch \in U |-> [s \in Parser(U) |-> LibpqStep(s, ch)]],
                [text \in Seq(U) |-> ReadBy(text)])
<1> DEFINE X == Parser(U)
           D == U
           b == NothingRead
           op(s, ch) == LibpqStep(s, ch)
           Op == [ch \in D |-> [s \in X |-> op(s, ch)]]
           fold == [text \in Seq(D) |-> ReadBy(text)]
<1>1. b \in X
  <2>1. <<>> \in Seq((U \cup {""}) \X Seq(U)) /\ <<>> \in Seq(U) /\ "" \in U \cup {""}
      OBVIOUS
  <2> QED BY <2>1 DEF Parser, NothingRead
<1>2. ASSUME NEW s \in X, NEW ch \in D PROVE op(s, ch) \in X
    BY LibpqTyped
<1> HIDE DEF X, D, b, op
<1>3. Op \in [D -> [X -> X]] /\ \A ch \in D, s \in X : Op[ch][s] = op(s, ch)
    BY <1>2
<1>4. ASSUME NEW s \in Seq(D)
      PROVE  Computed(X, b, Len(s), StepsOver(Op, s), ReadBy(s))
  <2> DEFINE Is(c) == c = [u \in SUBSET DOMAIN s |->
                             IF u = {} THEN b ELSE op(c[u \ {Max(u)}], s[Max(u)])]
             c == CHOOSE d : Is(d)
  <2> HIDE DEF Op
  <2>1. PICK d : FoldsOver(X, D, b, Op, s, d)
      BY <1>1, <1>3, FoldOver
  <2>2. Is(d)
      BY <1>3, <2>1 DEF FoldsOver
  <2>3. Is(c)
      BY <2>2
  <2>4. ReadBy(s) = c[DOMAIN s]
      BY DEF ReadBy, FoldLeft, MapThenFoldSet, Max, op, b
  <2> HIDE DEF c
  <2>5. c[{}] = b /\ \A u \in SUBSET DOMAIN s :
                       u # {} => c[u] = op(c[u \ {Max(u)}], s[Max(u)])
      BY <2>3
  <2>6. \A u \in SUBSET DOMAIN s :
           u # {} /\ s[Max(u)] \in D /\ c[u \ {Max(u)}] \in X
           => c[u] = Op[s[Max(u)]][c[u \ {Max(u)}]]
      BY <1>3, <2>5
  <2>7. Computed(X, b, Len(s), StepsOver(Op, s), c[DOMAIN s])
      BY <1>1, <1>3, <2>5, <2>6, FoldOverAll
  <2> QED BY <2>4, <2>7
<1> HIDE DEF Op
<1>5. IsFold(X, D, b, Op, fold)
  <2>1. fold = [s \in Seq(D) |-> fold[s]] /\ \A s \in Seq(D) : fold[s] = ReadBy(s)
      OBVIOUS
  <2> HIDE DEF fold
  <2> QED BY <1>1, <1>3, <1>4, <2>1, FoldByElement
<1> QED BY <1>5 DEF X, D, b, op, Op

\* A text of characters of U after which the reader is in the state s.
ReadTo(U, text, s) == text \in Seq(U) /\ ReadBy(text) = s

\* It starts with nothing, and takes one character after the other.
LEMMA ReadFacts ==
  ASSUME NEW U
  PROVE  /\ ReadTo(U, <<>>, NothingRead)
         /\ \A text, s, ch : ReadTo(U, text, s) /\ ch \in U
                             => ReadTo(U, Append(text, ch), LibpqStep(s, ch))
<1> DEFINE X == Parser(U)
           Op == [ch \in U |-> [s \in X |-> LibpqStep(s, ch)]]
           fold == [text \in Seq(U) |-> ReadBy(text)]
<1>1. IsFold(X, U, NothingRead, Op, fold)
    BY LibpqIsFold
<1> HIDE DEF X
<1>2. ReadTo(U, <<>>, NothingRead)
  <2>1. <<>> \in Seq(U)
      OBVIOUS
  <2>2. fold[<<>>] = NothingRead
      BY <1>1 DEF IsFold
  <2> QED BY <2>1, <2>2 DEF ReadTo
<1>3. ASSUME NEW text \in Seq(U), NEW ch \in U
      PROVE  Append(text, ch) \in Seq(U) /\ ReadBy(Append(text, ch)) = LibpqStep(ReadBy(text), ch)
  <2>1. fold[Append(text, ch)] = Op[ch][fold[text]] /\ fold[text] \in X
      BY <1>1 DEF IsFold
  <2>2. fold[text] = ReadBy(text) /\ fold[Append(text, ch)] = ReadBy(Append(text, ch))
        /\ Append(text, ch) \in Seq(U)
      BY ConcatOne
  <2> HIDE DEF fold
  <2>3. Op[ch][fold[text]] = LibpqStep(fold[text], ch)
      BY <2>1
  <2> QED BY <2>1, <2>2, <2>3
<1> QED BY <1>2, <1>3 DEF ReadTo

\* The same as a step from one state to the next.
LEMMA ReadMore ==
  ASSUME NEW U, NEW text, NEW s, NEW t, NEW ch \in U, ReadTo(U, text, s), LibpqStep(s, ch) = t
  PROVE  ReadTo(U, Append(text, ch), t)
BY ReadFacts

-----------------------------------------------------------------------------
(* A key and its value.                                                     *)

\* The characters that conninfo_quote puts between quotes.
Special == {" ", "NEWLINE", "DEL", "'", "\"", "\\", "NUL"}

\* A key and its equals sign,
LEMMA KeySteps ==
  ASSUME NEW k, NEW v, NEW o, NEW ch
  PROVE  /\ LibpqStep(ParserAt("gap", k, v, o), " ") = ParserAt("gap", k, v, o)
         /\ ch \notin Blank => LibpqStep(ParserAt("gap", k, v, o), ch) = ParserAt("key", ch, <<>>, o)
         /\ LibpqStep(ParserAt("key", k, v, o), "=") = ParserAt("start", k, v, o)
BY DEF LibpqStep, ParserAt, Blank

\* a character of a bare value,
LEMMA BareSteps ==
  ASSUME NEW k, NEW v, NEW o, NEW ch, ch \notin Special
  PROVE  /\ LibpqStep(ParserAt("start", k, v, o), ch) = ParserAt("bare", k, Append(v, ch), o)
         /\ LibpqStep(ParserAt("bare", k, v, o), ch) = ParserAt("bare", k, Append(v, ch), o)
BY DEF LibpqStep, ParserAt, Blank, Special

\* the blank that ends it,
LEMMA BareEnds ==
  ASSUME NEW k, NEW v, NEW o
  PROVE  LibpqStep(ParserAt("bare", k, v, o), " ") = ParserAt("gap", k, v, Append(o, <<k, v>>))
BY DEF LibpqStep, ParserAt, Blank

\* the quote that opens a value,
LEMMA QuoteOpens ==
  ASSUME NEW k, NEW v, NEW o
  PROVE  LibpqStep(ParserAt("start", k, v, o), "'") = ParserAt("quoted", k, v, o)
BY DEF LibpqStep, ParserAt, Blank

\* and the one that closes it,
LEMMA QuoteCloses ==
  ASSUME NEW k, NEW v, NEW o
  PROVE  LibpqStep(ParserAt("quoted", k, v, o), "'") = ParserAt("gap", k, v, Append(o, <<k, v>>))
BY DEF LibpqStep, ParserAt, Blank

\* a character between quotes that is not escaped,
LEMMA QuotedPlain ==
  ASSUME NEW k, NEW v, NEW o, NEW ch, ch \notin Marks
  PROVE  LibpqStep(ParserAt("quoted", k, v, o), ch) = ParserAt("quoted", k, Append(v, ch), o)
BY DEF LibpqStep, ParserAt, Marks

\* the backslash of an escape,
LEMMA EscapeOpens ==
  ASSUME NEW k, NEW v, NEW o
  PROVE  LibpqStep(ParserAt("quoted", k, v, o), "\\") = ParserAt("quotedEsc", k, v, o)
BY DEF LibpqStep, ParserAt

\* and the character it escapes.
LEMMA EscapeTakes ==
  ASSUME NEW k, NEW v, NEW o, NEW ch
  PROVE  LibpqStep(ParserAt("quotedEsc", k, v, o), ch) = ParserAt("quoted", k, Append(v, ch), o)
BY DEF LibpqStep, ParserAt

\* A text that needs no quotes.
Bare(v) == Range(v) \cap Special = {}

\* After the equals sign: the characters of a bare value are taken one by one,
LEMMA BareRead ==
  ASSUME NEW U, NEW text, NEW k, NEW o, ReadTo(U, text, ParserAt("start", k, <<>>, o)),
         NEW v \in Seq(U), v # <<>>, Bare(v)
  PROVE  ReadTo(U, text \o v, ParserAt("bare", k, v, o))
<1> DEFINE m(w) == IF w = <<>> THEN "start" ELSE "bare"
           R == {w \in Seq(U) : Bare(w) => ReadTo(U, text \o w, ParserAt(m(w), k, w, o))}
<1>1. text \in Seq(U)
    BY DEF ReadTo
<1>2. <<>> \in R
  <2>1. text \o <<>> = text
      BY <1>1, ConcatEmpty
  <2> QED BY <2>1
<1>3. ASSUME NEW w \in Seq(U), NEW ch \in U, w \in R PROVE Append(w, ch) \in R
  <2>1. CASE ~Bare(Append(w, ch))
    <3>1. Append(w, ch) \in Seq(U)
        OBVIOUS
    <3> QED BY <2>1, <3>1
  <2>2. CASE Bare(Append(w, ch))
    <3>1. ch \notin Special /\ Bare(w)
      <4>1. PICK t : t = Append(w, ch)
          OBVIOUS
      <4>2. /\ t \in Seq(U) /\ Len(t) = Len(w) + 1 /\ t[Len(w) + 1] = ch
            /\ \A i \in 1 .. Len(w) : t[i] = w[i]
          BY <4>1
      <4>3. Extended(w, t) /\ Len(w) + 1 \in 1 .. Len(t)
          BY <4>2 DEF Extended
      <4>4. Range(w) \subseteq Range(t) /\ ch \in Range(t)
          BY <4>2, <4>3, LongerHasAll
      <4> QED BY <2>2, <4>1, <4>4 DEF Bare
    <3>2. ReadTo(U, text \o w, ParserAt(m(w), k, w, o))
        BY <1>3, <3>1
    <3>3. LibpqStep(ParserAt(m(w), k, w, o), ch) = ParserAt("bare", k, Append(w, ch), o)
        BY <3>1, BareSteps
    <3>4. ReadTo(U, Append(text \o w, ch), ParserAt("bare", k, Append(w, ch), o))
      <4> HIDE DEF m
      <4> QED BY <3>2, <3>3, ReadFacts
    <3>5. text \o Append(w, ch) = Append(text \o w, ch) /\ Append(w, ch) # <<>>
          /\ Append(w, ch) \in Seq(U)
        BY <1>1, ConcatAppend
    <3> QED BY <3>4, <3>5
  <2> QED BY <2>1, <2>2
<1> HIDE DEF R
<1>4. \A w \in Seq(U), ch \in U : w \in R => Append(w, ch) \in R
    BY <1>3
<1>5. v \in R
    BY <1>2, <1>4, AppendInduction
<1> QED BY <1>5 DEF R

\* those of a quoted one without its escapes.
LEMMA EscapedRead ==
  ASSUME NEW U, "\\" \in U, NEW text, NEW k, NEW o, ReadTo(U, text, ParserAt("quoted", k, <<>>, o)),
         NEW v \in Seq(U)
  PROVE  ReadTo(U, text \o Escaped(v), ParserAt("quoted", k, v, o))
<1> DEFINE R == {w \in Seq(U) : ReadTo(U, text \o Escaped(w), ParserAt("quoted", k, w, o))}
<1>1. text \in Seq(U)
    BY DEF ReadTo
<1>2. <<>> \in R
  <2>1. text \o Escaped(<<>>) = text
      BY <1>1, ConcatEmpty, EscapedFacts
  <2>2. ReadTo(U, text \o Escaped(<<>>), ParserAt("quoted", k, <<>>, o))
      BY <2>1
  <2>3. <<>> \in Seq(U)
      OBVIOUS
  <2> QED BY <2>2, <2>3
<1>3. ASSUME NEW w \in Seq(U), NEW ch \in U, w \in R PROVE Append(w, ch) \in R
  <2>1. PICK e \in Seq(U) : e = Escaped(w)
      BY EscapedFacts
  <2>2. ReadTo(U, text \o e, ParserAt("quoted", k, w, o)) /\ text \o e \in Seq(U)
      BY <1>3, <2>1 DEF ReadTo
  <2>3. Escaped(Append(w, ch)) = OneEscaped(e, ch) /\ Append(w, ch) \in Seq(U)
      BY <2>1, EscapedFacts
  <2>4. CASE ch \in Marks
    <3>0. /\ LibpqStep(ParserAt("quoted", k, w, o), "\\") = ParserAt("quotedEsc", k, w, o)
          /\ LibpqStep(ParserAt("quotedEsc", k, w, o), ch) = ParserAt("quoted", k, Append(w, ch), o)
        BY EscapeOpens, EscapeTakes
    <3>1. ReadTo(U, Append(text \o e, "\\"), ParserAt("quotedEsc", k, w, o))
        BY <2>2, <3>0, ReadMore
    <3>2. ReadTo(U, Append(Append(text \o e, "\\"), ch), ParserAt("quoted", k, Append(w, ch), o))
        BY <3>0, <3>1, ReadMore
    <3>3. OneEscaped(e, ch) = Append(Append(e, "\\"), ch)
      <4>1. e \o <<"\\", ch>> = Append(Append(e, "\\"), ch)
          OBVIOUS
      <4> QED BY <2>4, <4>1 DEF OneEscaped
    <3>4. text \o Append(Append(e, "\\"), ch) = Append(Append(text \o e, "\\"), ch)
      <4>1. PICK d : d = Append(e, "\\") /\ d \in Seq(U)
        <5>1. Append(e, "\\") \in Seq(U)
            OBVIOUS
        <5> QED BY <5>1
      <4>2. text \o d = Append(text \o e, "\\")
          BY <1>1, <4>1, ConcatAppend
      <4>3. text \o Append(d, ch) = Append(text \o d, ch)
          BY <1>1, <4>1, ConcatAppend
      <4> QED BY <4>1, <4>2, <4>3
    <3> QED BY <2>3, <3>2, <3>3, <3>4
  <2>5. CASE ch \notin Marks
    <3>0. LibpqStep(ParserAt("quoted", k, w, o), ch) = ParserAt("quoted", k, Append(w, ch), o)
        BY <2>5, QuotedPlain
    <3>1. ReadTo(U, Append(text \o e, ch), ParserAt("quoted", k, Append(w, ch), o))
        BY <2>2, <3>0, ReadMore
    <3>2. text \o Append(e, ch) = Append(text \o e, ch)
        BY <1>1, <2>1, ConcatAppend
    <3> QED BY <2>3, <2>5, <3>1, <3>2 DEF OneEscaped
  <2> QED BY <2>4, <2>5
<1> HIDE DEF R
<1>4. \A w \in Seq(U), ch \in U : w \in R => Append(w, ch) \in R
    BY <1>3
<1>5. v \in R
    BY <1>2, <1>4, AppendInduction
<1> QED BY <1>5 DEF R

\* The characters that are written besides those of the keys and values.
Signs == {"=", " "} \cup Marks

\* The characters of a concatenation are those of its parts.
LEMMA ConcatRange ==
  ASSUME NEW U, NEW s \in Seq(U), NEW t \in Seq(U)
  PROVE  s \o t \in Seq(U) /\ Range(s) \subseteq Range(s \o t) /\ Range(t) \subseteq Range(s \o t)
<1>1. PICK u : u = s \o t
    OBVIOUS
<1>2. /\ u \in Seq(U) /\ DOMAIN u = 1 .. (Len(s) + Len(t)) /\ DOMAIN s = 1 .. Len(s)
      /\ DOMAIN t = 1 .. Len(t) /\ Len(s) \in Nat /\ Len(t) \in Nat
      /\ \A i \in 1 .. Len(s) : u[i] = s[i]
      /\ \A i \in 1 .. Len(t) : u[Len(s) + i] = t[i]
    BY <1>1, ConcatElements
<1>3. /\ \A i \in 1 .. Len(s) : i \in DOMAIN u
      /\ \A i \in 1 .. Len(t) : Len(s) + i \in DOMAIN u
    BY <1>2
<1>4. Range(s) \subseteq Range(u)
    BY <1>2, <1>3 DEF Range
<1>5. Range(t) \subseteq Range(u)
    BY <1>2, <1>3 DEF Range
<1> QED BY <1>1, <1>2, <1>4, <1>5

\* It has no others.
LEMMA ConcatRangeOnly ==
  ASSUME NEW U, NEW s \in Seq(U), NEW t \in Seq(U)
  PROVE  Range(s \o t) \subseteq Range(s) \cup Range(t)
<1>1. PICK u : u = s \o t
    OBVIOUS
<1>2. /\ DOMAIN u = 1 .. (Len(s) + Len(t)) /\ DOMAIN s = 1 .. Len(s)
      /\ DOMAIN t = 1 .. Len(t) /\ Len(s) \in Nat /\ Len(t) \in Nat
      /\ \A i \in 1 .. Len(s) : u[i] = s[i]
      /\ \A i \in 1 .. Len(t) : u[Len(s) + i] = t[i]
    BY <1>1, ConcatElements
<1>3. Range(u) \subseteq Range(s) \cup Range(t)
  <2>1. ASSUME NEW i \in 1 .. (Len(s) + Len(t)) PROVE u[i] \in Range(s) \cup Range(t)
    <3>1. CASE i <= Len(s)
      <4>1. i \in 1 .. Len(s)
          BY <1>2, <3>1
      <4> QED BY <1>2, <4>1 DEF Range
    <3>2. CASE i > Len(s)
      <4>1. PICK j : j = i - Len(s)
          OBVIOUS
      <4>2. j \in 1 .. Len(t) /\ i = Len(s) + j
          BY <1>2, <3>2, <4>1
      <4> QED BY <1>2, <4>2 DEF Range
    <3> QED BY <1>2, <3>1, <3>2
  <2> QED BY <1>2, <2>1 DEF Range
<1> QED BY <1>1, <1>3

\* A text without a NUL is one of the other characters.
LEMMA WithoutNul ==
  ASSUME NEW U, NEW s \in Seq(U)
  PROVE  "NUL" \notin Range(s) <=> s \in Seq(U \ {"NUL"})
<1> DEFINE N == U \ {"NUL"}
<1>1. ASSUME "NUL" \notin Range(s) PROVE s \in Seq(N)
  <2>1. \A i \in 1 .. Len(s) : s[i] \in N
      BY <1>1 DEF Range
  <2>2. s = [i \in 1 .. Len(s) |-> s[i]] /\ Len(s) \in Nat
      OBVIOUS
  <2> HIDE DEF N
  <2> QED BY <2>1, <2>2
<1>2. ASSUME s \in Seq(N) PROVE "NUL" \notin Range(s)
  <2>1. \A i \in DOMAIN s : s[i] \in N
      BY <1>2
  <2> QED BY <2>1 DEF Range
<1> QED BY <1>1, <1>2

\* The pieces that are written between the values.
LEMMA Separators ==
  ASSUME NEW U, Signs \subseteq U, NEW k \in U
  PROVE  <<k, "=">> \in Seq(U) /\ <<" ">> \in Seq(U)
<1>1. PICK x \in U, y \in U : x = "=" /\ y = " "
    BY DEF Signs
<1>2. <<k, x>> \in Seq(U)
    OBVIOUS
<1>3. <<y>> \in Seq(U)
    OBVIOUS
<1> QED BY <1>1, <1>2, <1>3

\* conninfo_quote: as it is, or escaped between quotes; without a loss.
LEMMA QuoteFacts ==
  ASSUME NEW U, Marks \subseteq U, NEW v \in Seq(U)
  PROVE  /\ v # <<>> /\ Bare(v) => Quote(v) = v
         /\ ~(v # <<>> /\ Bare(v)) => Quote(v) = <<"'">> \o Escaped(v) \o <<"'">>
         /\ Quote(v) \in Seq(U)
         /\ Range(v) \subseteq Range(Quote(v))
<1>1. /\ v # <<>> /\ Bare(v) => Quote(v) = v
      /\ ~(v # <<>> /\ Bare(v)) => Quote(v) = <<"'">> \o Escaped(v) \o <<"'">>
  <2>1. ToSet(v) = Range(v)
      BY DEF ToSet, Range
  <2>2. {" ", "'", "\"", "\\"} \cup Control = Special
      BY DEF Control, Special
  <2> QED BY <2>1, <2>2 DEF Quote, Bare, Escaped, Marks
<1>2. PICK e : e = Escaped(v)
    OBVIOUS
<1>3. e \in Seq(U) /\ Range(v) \subseteq Range(e)
    BY <1>2, EscapedFacts, EscapedKeeps DEF Marks
<1>4. <<"'">> \in Seq(U)
    BY DEF Marks
<1>5. /\ <<"'">> \o e \o <<"'">> \in Seq(U)
      /\ Range(e) \subseteq Range(<<"'">> \o e \o <<"'">>)
  <2>1. PICK q \in Seq(U) : q = <<"'">>
      BY <1>4
  <2>2. PICK f \in Seq(U) : f = q \o e /\ Range(e) \subseteq Range(f)
      BY <1>3, ConcatRange
  <2>3. f \o q \in Seq(U) /\ Range(f) \subseteq Range(f \o q)
      BY ConcatRange
  <2> QED BY <2>1, <2>2, <2>3
<1> QED BY <1>1, <1>2, <1>3, <1>5

\* A pair, read where the reader is between pairs: it is stored, or it will be
\* by the blank that ends its bare value.
Stored(U, text, k, v, o) ==
  \/ ReadTo(U, text, ParserAt("gap", k, v, Append(o, <<k, v>>)))
  \/ ReadTo(U, text, ParserAt("bare", k, v, o))

\* So it is with every pair.
LEMMA PairRead ==
  ASSUME NEW U, Signs \subseteq U, NEW text, NEW k0, NEW v0, NEW o,
         ReadTo(U, text, ParserAt("gap", k0, v0, o)),
         NEW k \in U, k \notin Blank, NEW v \in Seq(U)
  PROVE  Stored(U, text \o <<k, "=">> \o Quote(v), k, v, o)
<1>1. text \in Seq(U) /\ "=" \in U /\ "'" \in U /\ "\\" \in U /\ Marks \subseteq U
    BY DEF ReadTo, Marks, Signs
<1>2. ReadTo(U, Append(text, k), ParserAt("key", k, <<>>, o))
  <2>1. LibpqStep(ParserAt("gap", k0, v0, o), k) = ParserAt("key", k, <<>>, o)
      BY DEF LibpqStep, ParserAt, Blank
  <2> QED BY <2>1, ReadMore
<1>3. ReadTo(U, Append(Append(text, k), "="), ParserAt("start", k, <<>>, o))
  <2>1. LibpqStep(ParserAt("key", k, <<>>, o), "=") = ParserAt("start", k, <<>>, o)
      BY KeySteps
  <2> QED BY <1>1, <1>2, <2>1, ReadMore
<1>4. text \o <<k, "=">> = Append(Append(text, k), "=")
    BY <1>1
<1>5. PICK t \in Seq(U) : t = text \o <<k, "=">> /\ ReadTo(U, t, ParserAt("start", k, <<>>, o))
    BY <1>3, <1>4 DEF ReadTo
<1>6. CASE v # <<>> /\ Bare(v)
  <2>1. ReadTo(U, t \o v, ParserAt("bare", k, v, o))
      BY <1>5, <1>6, BareRead
  <2>2. Quote(v) = v
      BY <1>6, <1>1, QuoteFacts
  <2> QED BY <1>5, <2>1, <2>2 DEF Stored
<1>7. CASE ~(v # <<>> /\ Bare(v))
  <2>1. PICK e \in Seq(U) : e = Escaped(v)
      BY <1>1, EscapedFacts
  <2>2. ReadTo(U, Append(t, "'"), ParserAt("quoted", k, <<>>, o))
    <3>1. LibpqStep(ParserAt("start", k, <<>>, o), "'") = ParserAt("quoted", k, <<>>, o)
        BY QuoteOpens
    <3> QED BY <1>1, <1>5, <3>1, ReadMore
  <2>3. PICK u \in Seq(U) : u = Append(t, "'") /\ ReadTo(U, u, ParserAt("quoted", k, <<>>, o))
      BY <2>2 DEF ReadTo
  <2>4. ReadTo(U, u \o e, ParserAt("quoted", k, v, o))
      BY <1>1, <2>1, <2>3, EscapedRead
  <2>5. ReadTo(U, Append(u \o e, "'"), ParserAt("gap", k, v, Append(o, <<k, v>>)))
    <3>1. LibpqStep(ParserAt("quoted", k, v, o), "'") = ParserAt("gap", k, v, Append(o, <<k, v>>))
        BY QuoteCloses
    <3> QED BY <1>1, <2>4, <3>1, ReadMore
  <2>6. t \o (<<"'">> \o e \o <<"'">>) = Append(u \o e, "'")
      BY <1>1, <2>3
  <2>7. Quote(v) = <<"'">> \o e \o <<"'">>
      BY <1>1, <1>7, <2>1, QuoteFacts DEF Marks
  <2> QED BY <1>5, <2>5, <2>6, <2>7 DEF Stored
<1> QED BY <1>6, <1>7

\* One pair more in the string.
Added(acc, p) ==
  acc \o (IF acc = <<>> THEN <<>> ELSE <<" ">>) \o <<p[1], "=">> \o Quote(p[2])
Joined(pairs) == FoldLeft(LAMBDA acc, p : Added(acc, p), <<>>, pairs)

\* conninfo_from_value folds the pairs.
LEMMA ConninfoIsFold ==
  ASSUME NEW U, Signs \subseteq U
  PROVE  IsFold(Seq(U), U \X Seq(U), <<>>,
                [p \in U \X Seq(U) |-> [t \in Seq(U) |-> Added(t, p)]],
                [pairs \in Seq(U \X Seq(U)) |-> Joined(pairs)])
<1> DEFINE X == Seq(U)
           D == U \X Seq(U)
           b == <<>>
           op(t, p) == Added(t, p)
           Op == [p \in D |-> [t \in X |-> op(t, p)]]
           fold == [pairs \in Seq(D) |-> Joined(pairs)]
<1>1. b \in X
    OBVIOUS
<1>2. ASSUME NEW t \in X, NEW p \in D PROVE op(t, p) \in X
  <2>1. p[1] \in U /\ p[2] \in Seq(U)
      OBVIOUS
  <2>2. PICK q \in Seq(U) : q = Quote(p[2])
      BY <2>1, QuoteFacts DEF Signs
  <2>3. <<p[1], "=">> \in Seq(U) /\ <<" ">> \in Seq(U)
      BY <2>1, Separators
  <2>4. PICK key \in Seq(U) : key = <<p[1], "=">>
      BY <2>3
  <2>6. PICK sep \in Seq(U) : sep = IF t = <<>> THEN <<>> ELSE <<" ">>
      BY <2>3
  <2>5. t \o sep \o key \o q \in Seq(U)
      OBVIOUS
  <2> QED BY <2>2, <2>4, <2>5, <2>6 DEF Added
<1> HIDE DEF X, D, b, op
<1>3. Op \in [D -> [X -> X]] /\ \A p \in D, t \in X : Op[p][t] = op(t, p)
    BY <1>2
<1>4. ASSUME NEW s \in Seq(D)
      PROVE  Computed(X, b, Len(s), StepsOver(Op, s), Joined(s))
  <2> DEFINE Is(c) == c = [u \in SUBSET DOMAIN s |->
                             IF u = {} THEN b ELSE op(c[u \ {Max(u)}], s[Max(u)])]
             c == CHOOSE d : Is(d)
  <2> HIDE DEF Op
  <2>1. PICK d : FoldsOver(X, D, b, Op, s, d)
      BY <1>1, <1>3, FoldOver
  <2>2. Is(d)
      BY <1>3, <2>1 DEF FoldsOver
  <2>3. Is(c)
      BY <2>2
  <2>4. Joined(s) = c[DOMAIN s]
      BY DEF Joined, FoldLeft, MapThenFoldSet, Max, op, b
  <2> HIDE DEF c
  <2>5. c[{}] = b /\ \A u \in SUBSET DOMAIN s :
                       u # {} => c[u] = op(c[u \ {Max(u)}], s[Max(u)])
      BY <2>3
  <2>6. \A u \in SUBSET DOMAIN s :
           u # {} /\ s[Max(u)] \in D /\ c[u \ {Max(u)}] \in X
           => c[u] = Op[s[Max(u)]][c[u \ {Max(u)}]]
      BY <1>3, <2>5
  <2>7. Computed(X, b, Len(s), StepsOver(Op, s), c[DOMAIN s])
      BY <1>1, <1>3, <2>5, <2>6, FoldOverAll
  <2> QED BY <2>4, <2>7
<1> HIDE DEF Op
<1>5. IsFold(X, D, b, Op, fold)
  <2>1. fold = [s \in Seq(D) |-> fold[s]] /\ \A s \in Seq(D) : fold[s] = Joined(s)
      OBVIOUS
  <2> HIDE DEF fold
  <2> QED BY <1>1, <1>3, <1>4, <2>1, FoldByElement
<1> QED BY <1>5 DEF X, D, b, op, Op

\* Two pairs.
Pairs(h, v, p, w) == << <<h, v>>, <<p, w>> >>

\* One is appended, and the other.
LEMMA TwoAppended ==
  ASSUME NEW D, NEW a \in D, NEW c \in D
  PROVE  Append(Append(<<>>, a), c) = <<a, c>>
<1>1. PICK s : s = Append(<<>>, a)
    OBVIOUS
<1>2. s \in Seq(D) /\ Len(s) = 1 /\ s[1] = a
  <2>1. <<>> \in Seq(D) /\ Len(<<>>) = 0
      OBVIOUS
  <2> QED BY <1>1, <2>1
<1>3. PICK t : t = Append(s, c)
    OBVIOUS
<1>4. t \in Seq(D) /\ Len(t) = 2 /\ t[1] = a /\ t[2] = c
  <2>1. PICK u \in Seq(D) : u = s
      BY <1>2
  <2>2. /\ Append(u, c) \in Seq(D) /\ Len(Append(u, c)) = Len(u) + 1
        /\ Append(u, c)[Len(u) + 1] = c /\ \A i \in 1 .. Len(u) : Append(u, c)[i] = u[i]
      OBVIOUS
  <2> QED BY <1>2, <1>3, <2>1, <2>2
<1>5. t = <<a, c>>
    BY <1>4
<1> QED BY <1>1, <1>3, <1>5

\* The string of two pairs.
TwoWritten(h, v, p, w) == <<h, "=">> \o Quote(v) \o <<" ">> \o <<p, "=">> \o Quote(w)

\* It is what conninfo_from_value makes of them.
LEMMA JoinedTwo ==
  ASSUME NEW U, Signs \subseteq U,
         NEW h \in U, NEW p \in U, NEW v \in Seq(U), NEW w \in Seq(U)
  PROVE  Joined(Pairs(h, v, p, w)) = TwoWritten(h, v, p, w)
<1> DEFINE X == Seq(U)
           D == U \X Seq(U)
           none == <<>>
           Op == [e \in D |-> [t \in X |-> Added(t, e)]]
           fold == [pairs \in Seq(D) |-> Joined(pairs)]
<1>1. IsFold(X, D, none, Op, fold)
    BY ConninfoIsFold
<1>2. PICK a \in D : a = <<h, v>>
    OBVIOUS
<1>3. PICK c \in D : c = <<p, w>>
    OBVIOUS
<1>4. PICK s0 \in Seq(D) : s0 = <<>>
  <2> HIDE DEF D
  <2>1. <<>> \in Seq(D)
      OBVIOUS
  <2> QED BY <2>1
<1>5. PICK s1 \in Seq(D) : s1 = Append(s0, a)
  <2>1. Append(s0, a) \in Seq(D)
      OBVIOUS
  <2> QED BY <2>1
<1>6. PICK s2 \in Seq(D) : s2 = Append(s1, c)
  <2>1. Append(s1, c) \in Seq(D)
      OBVIOUS
  <2> QED BY <2>1
<1>7. s2 = Pairs(h, v, p, w)
  <2>1. s2 = <<a, c>>
      BY <1>4, <1>5, <1>6, TwoAppended
  <2> QED BY <1>2, <1>3, <2>1 DEF Pairs
<1>8. fold[s0] = none /\ fold[s1] = Op[a][fold[s0]] /\ fold[s2] = Op[c][fold[s1]]
      /\ fold[s0] \in X /\ fold[s1] \in X
  <2> HIDE DEF X, D, Op, fold, none
  <2> QED BY <1>1, <1>4, <1>5, <1>6 DEF IsFold
<1>9. Joined(s2) = Added(Added(<<>>, a), c)
  <2>1. fold[s2] = Joined(s2)
      BY <1>6
  <2> HIDE DEF fold
  <2>2. Op[a][fold[s0]] = Added(fold[s0], a) /\ Op[c][fold[s1]] = Added(fold[s1], c)
      BY <1>8
  <2> HIDE DEF Op
  <2> QED BY <1>8, <2>1, <2>2
<1>10. PICK q \in Seq(U) : q = Quote(v)
    BY QuoteFacts DEF Signs
<1>11. Added(<<>>, a) = <<h, "=">> \o q
  <2>1. a[1] = h /\ a[2] = v
      BY <1>2
  <2>2. <<>> \o <<>> \o <<h, "=">> \o q = <<h, "=">> \o q
      OBVIOUS
  <2> QED BY <1>10, <2>1, <2>2 DEF Added
<1>12. PICK t : t = <<h, "=">> \o q
    OBVIOUS
<1>13. t # <<>>
  <2>1. Len(t) = 2 + Len(q) /\ Len(q) \in Nat
      BY <1>12
  <2> QED BY <2>1
<1>14. Added(t, c) = t \o <<" ">> \o <<p, "=">> \o Quote(w)
  <2>1. c[1] = p /\ c[2] = w
      BY <1>3
  <2> QED BY <1>13, <2>1 DEF Added
<1> QED BY <1>7, <1>9, <1>10, <1>11, <1>12, <1>14 DEF TwoWritten

\* Read by libpq it is these pairs, whatever their values.
LEMMA TwoRead ==
  ASSUME NEW U, Signs \subseteq U,
         NEW h \in U, NEW p \in U, h \notin Blank, p \notin Blank,
         NEW v \in Seq(U), NEW w \in Seq(U)
  PROVE  LibpqParse(Joined(Pairs(h, v, p, w))) = Pairs(h, v, p, w)
<1>1. ReadTo(U, <<>>, ParserAt("gap", "", <<>>, <<>>))
    BY ReadFacts DEF NothingRead, ParserAt
<1>2. " " \in U /\ "=" \in U
    BY DEF Signs
<1>3. PICK q \in Seq(U) : q = Quote(v)
    BY QuoteFacts DEF Signs
<1>4. PICK t \in Seq(U) : t = <<h, "=">> \o q
  <2>1. <<h, "=">> \in Seq(U)
      BY Separators
  <2>2. <<h, "=">> \o q \in Seq(U)
      BY <2>1, ConcatElements
  <2> QED BY <2>2
<1>5. Stored(U, t, h, v, <<>>)
  <2>1. Stored(U, <<>> \o <<h, "=">> \o Quote(v), h, v, <<>>)
      BY <1>1, PairRead
  <2>2. <<>> \o <<h, "=">> = <<h, "=">>
      OBVIOUS
  <2> QED BY <1>3, <1>4, <2>1, <2>2
<1> DEFINE one == Append(<<>>, <<h, v>>)
<1>6. ReadTo(U, Append(t, " "), ParserAt("gap", h, v, one))
  <2>1. CASE ReadTo(U, t, ParserAt("gap", h, v, one))
    <3>1. LibpqStep(ParserAt("gap", h, v, one), " ") = ParserAt("gap", h, v, one)
        BY DEF LibpqStep, ParserAt, Blank
    <3> QED BY <1>2, <2>1, <3>1, ReadMore
  <2>2. CASE ReadTo(U, t, ParserAt("bare", h, v, <<>>))
    <3>1. LibpqStep(ParserAt("bare", h, v, <<>>), " ") = ParserAt("gap", h, v, one)
        BY DEF LibpqStep, ParserAt, Blank
    <3> QED BY <1>2, <2>2, <3>1, ReadMore
  <2> QED BY <1>5, <2>1, <2>2 DEF Stored
<1>7. PICK u \in Seq(U) : u = Append(t, " ") /\ ReadTo(U, u, ParserAt("gap", h, v, one))
    BY <1>6 DEF ReadTo
<1>8. PICK two : two = Append(one, <<p, w>>)
    OBVIOUS
<1>9. two = Pairs(h, v, p, w)
  <2>1. PICK D : D = U \X Seq(U)
      OBVIOUS
  <2>2. PICK a \in D, c \in D : a = <<h, v>> /\ c = <<p, w>>
      BY <2>1
  <2>3. Append(Append(<<>>, a), c) = <<a, c>>
      BY TwoAppended
  <2> QED BY <1>8, <2>2, <2>3 DEF Pairs
<1> HIDE DEF one
<1>10. PICK text : text = u \o <<p, "=">> \o Quote(w)
    OBVIOUS
<1>11. Stored(U, text, p, w, one)
    BY <1>7, <1>10, PairRead
<1>12. LibpqParse(text) = two
  <2>1. LibpqParse(text) = LET end == ReadBy(text)
                           IN  IF end.mode = "gap" THEN end.out
                               ELSE IF end.mode \in {"start", "bare", "bareEsc"}
                                    THEN Append(end.out, <<end.key, end.val>>)
                               ELSE Raised
      BY DEF LibpqParse, ReadBy, NothingRead
  <2>2. CASE ReadBy(text) = ParserAt("gap", p, w, Append(one, <<p, w>>))
      BY <1>8, <2>1, <2>2 DEF ParserAt
  <2>3. CASE ReadBy(text) = ParserAt("bare", p, w, one)
      BY <1>8, <2>1, <2>3 DEF ParserAt
  <2> QED BY <1>11, <2>2, <2>3 DEF Stored, ReadTo
<1>13. Joined(Pairs(h, v, p, w)) = text
  <2>1. Append(t, " ") = t \o <<" ">>
      BY <1>2, ConcatOne
  <2>2. Joined(Pairs(h, v, p, w)) = TwoWritten(h, v, p, w)
      BY JoinedTwo
  <2> QED BY <1>3, <1>4, <1>7, <1>10, <2>1, <2>2 DEF TwoWritten
<1> QED BY <1>9, <1>12, <1>13

\* It has a NUL exactly if a value has one.
LEMMA JoinedNul ==
  ASSUME NEW U, Signs \subseteq U, NEW h \in U, NEW p \in U,
         h # "NUL", p # "NUL", NEW v \in Seq(U), NEW w \in Seq(U)
  PROVE  "NUL" \in Range(Joined(Pairs(h, v, p, w))) <=> "NUL" \in Range(v) \/ "NUL" \in Range(w)
<1>1. PICK a, b, c, q, r : /\ a = <<h, "=">> /\ b = <<" ">> /\ c = <<p, "=">>
                           /\ q = Quote(v) /\ r = Quote(w)
    OBVIOUS
<1>2. Joined(Pairs(h, v, p, w)) = a \o q \o b \o c \o r
  <2>1. Joined(Pairs(h, v, p, w)) = TwoWritten(h, v, p, w)
      BY JoinedTwo
  <2> QED BY <1>1, <2>1 DEF TwoWritten
<1>3. a \in Seq(U) /\ b \in Seq(U) /\ c \in Seq(U)
    BY <1>1, Separators
<1>4. /\ q \in Seq(U) /\ Range(v) \subseteq Range(q)
      /\ r \in Seq(U) /\ Range(w) \subseteq Range(r)
    BY <1>1, QuoteFacts DEF Signs
<1>5. /\ a \o q \in Seq(U) /\ a \o q \o b \in Seq(U) /\ a \o q \o b \o c \in Seq(U)
      /\ a \o q \o b \o c \o r \in Seq(U)
    BY <1>3, <1>4
<1>6. CASE "NUL" \notin Range(v) /\ "NUL" \notin Range(w)
  <2>1. PICK N : N = U \ {"NUL"}
      OBVIOUS
  <2>2. v \in Seq(N) /\ w \in Seq(N)
      BY <1>6, <2>1, WithoutNul
  <2>3. Signs \subseteq N /\ Marks \subseteq N /\ h \in N /\ p \in N
      BY <2>1 DEF Marks, Signs
  <2>4. a \in Seq(N) /\ b \in Seq(N) /\ c \in Seq(N)
      BY <1>1, <2>3, Separators
  <2>5. q \in Seq(N) /\ r \in Seq(N)
      BY <1>1, <2>2, <2>3, QuoteFacts
  <2>6. a \o q \o b \o c \o r \in Seq(N)
      BY <2>4, <2>5
  <2>7. "NUL" \notin Range(a \o q \o b \o c \o r)
      BY <1>5, <2>1, <2>6, WithoutNul
  <2> QED BY <1>2, <1>6, <2>7
<1>7. CASE "NUL" \in Range(v) \/ "NUL" \in Range(w)
  <2>1. Range(q) \subseteq Range(a \o q)
      BY <1>3, <1>4, ConcatRange
  <2>2. Range(a \o q) \subseteq Range(a \o q \o b)
      BY <1>3, <1>5, ConcatRange
  <2>3. Range(a \o q \o b) \subseteq Range(a \o q \o b \o c)
      BY <1>3, <1>5, ConcatRange
  <2>4. /\ Range(a \o q \o b \o c) \subseteq Range(a \o q \o b \o c \o r)
        /\ Range(r) \subseteq Range(a \o q \o b \o c \o r)
      BY <1>4, <1>5, ConcatRange
  <2> QED BY <1>2, <1>4, <1>7, <2>1, <2>2, <2>3, <2>4
<1> QED BY <1>6, <1>7

\* Replacing what is not UTF-8 leaves every other character, and makes no NUL.
LEMMA LossyFacts ==
  ASSUME NEW U, Replacement \in U, NEW v \in Seq(U)
  PROVE  /\ Lossy(v) \in Seq(U)
         /\ Malformed \notin Range(v) => Lossy(v) = v
         /\ "NUL" \in Range(Lossy(v)) <=> "NUL" \in Range(v)
<1>1. PICK n \in Nat : n = Len(v) /\ DOMAIN v = 1 .. n /\ v = [i \in 1 .. n |-> v[i]]
    OBVIOUS
<1>2. \A i \in 1 .. n : v[i] \in U
    BY <1>1
<1>3. PICK t : t = Lossy(v)
    OBVIOUS
<1>4. t = [i \in 1 .. n |-> Replaced(v[i])]
    BY <1>1, <1>3 DEF Lossy
<1>5. \A i \in 1 .. n : t[i] \in U /\ (t[i] = "NUL" <=> v[i] = "NUL")
    BY <1>2, <1>4 DEF Replaced, Malformed, Replacement
<1>6. t \in Seq(U)
  <2>1. t = [i \in 1 .. n |-> t[i]]
      BY <1>4
  <2> QED BY <1>5, <2>1
<1>7. ASSUME Malformed \notin Range(v) PROVE t = v
  <2>1. \A i \in 1 .. n : v[i] # Malformed
      BY <1>1, <1>7 DEF Range
  <2>2. \A i \in 1 .. n : Replaced(v[i]) = v[i]
      BY <2>1 DEF Replaced
  <2> QED BY <1>1, <1>4, <2>2
<1>8. "NUL" \in Range(t) <=> "NUL" \in Range(v)
    BY <1>1, <1>4, <1>5 DEF Range
<1> QED BY <1>3, <1>6, <1>7, <1>8

\* Nor does a key, which here is one character.
LEMMA LossyPairs ==
  ASSUME NEW h, NEW v, NEW p, NEW w, h # Malformed, p # Malformed
  PROVE  Utf8(Pairs(h, v, p, w)) = Pairs(h, Lossy(v), p, Lossy(w))
<1>1. Replaced(h) = h /\ Replaced(p) = p
    BY DEF Replaced
<1>2. PICK x, y : x = Lossy(v) /\ y = Lossy(w)
    OBVIOUS
<1> QED BY <1>1, <1>2 DEF Pairs, Utf8

\* What reaches libpq: the pairs with what is not UTF-8 replaced, or with a NUL
\* in a value nothing.
LEMMA ConninfoArrives ==
  ASSUME NEW U, Signs \subseteq U, Replacement \in U, NEW h \in U, NEW p \in U,
         h \notin {"NUL", Malformed} \cup Blank, p \notin {"NUL", Malformed} \cup Blank,
         NEW v \in Seq(U), NEW w \in Seq(U)
  PROVE  LibpqParse(Conninfo(Pairs(h, v, p, w)))
           = IF "NUL" \in ToSet(v \o w) THEN <<>> ELSE Pairs(h, Lossy(v), p, Lossy(w))
<1>0. PICK x \in Seq(U), y \in Seq(U) : x = Lossy(v) /\ y = Lossy(w)
    BY LossyFacts
<1>1. Conninfo(Pairs(h, v, p, w))
        = IF "NUL" \in ToSet(Joined(Pairs(h, x, p, y))) THEN <<>> ELSE Joined(Pairs(h, x, p, y))
  <2>1. PICK ps : ps = Pairs(h, v, p, w)
      OBVIOUS
  <2>2. PICK qs : qs = Pairs(h, x, p, y)
      OBVIOUS
  <2>3. Utf8(ps) = qs
      BY <1>0, <2>1, <2>2, LossyPairs
  <2>4. Conninfo(ps) = IF "NUL" \in ToSet(Joined(Utf8(ps))) THEN <<>> ELSE Joined(Utf8(ps))
      BY DEF Conninfo, Joined, Added
  <2> QED BY <2>1, <2>2, <2>3, <2>4
<1>2. \A s : ToSet(s) = Range(s)
    BY DEF ToSet, Range
<1>3. "NUL" \in Range(Joined(Pairs(h, x, p, y))) <=> "NUL" \in Range(v) \/ "NUL" \in Range(w)
  <2>1. "NUL" \in Range(Joined(Pairs(h, x, p, y))) <=> "NUL" \in Range(x) \/ "NUL" \in Range(y)
      BY JoinedNul
  <2>2. ("NUL" \in Range(x) <=> "NUL" \in Range(v)) /\ ("NUL" \in Range(y) <=> "NUL" \in Range(w))
      BY <1>0, LossyFacts
  <2> QED BY <2>1, <2>2
<1>4. LibpqParse(Joined(Pairs(h, x, p, y))) = Pairs(h, x, p, y)
    BY TwoRead
<1>5. "NUL" \in Range(v \o w) <=> "NUL" \in Range(v) \/ "NUL" \in Range(w)
  <2>1. Range(v) \subseteq Range(v \o w) /\ Range(w) \subseteq Range(v \o w)
      BY ConcatRange
  <2>2. Range(v \o w) \subseteq Range(v) \cup Range(w)
      BY ConcatRangeOnly
  <2> QED BY <2>1, <2>2
<1>6. LibpqParse(<<>>) = <<>>
  <2> DEFINE none == <<>>
  <2>1. ReadBy(none) = NothingRead
      BY ReadFacts DEF ReadTo
  <2>2. NothingRead.mode = "gap" /\ NothingRead.out = none
      BY DEF NothingRead
  <2> HIDE DEF none
  <2>3. LibpqParse(none) = LET end == ReadBy(none)
                           IN  IF end.mode = "gap" THEN end.out
                               ELSE IF end.mode \in {"start", "bare", "bareEsc"}
                                    THEN Append(end.out, <<end.key, end.val>>)
                               ELSE Raised
      BY DEF LibpqParse, ReadBy, NothingRead
  <2>4. LibpqParse(none) = none
      BY <2>1, <2>2, <2>3
  <2> QED BY <2>4 DEF none
<1> QED BY <1>0, <1>1, <1>2, <1>3, <1>4, <1>5, <1>6

\* The texts that are converted, and what is sent, are texts of these characters.
TextChars == {"a", "=", " ", "'", "\\", Malformed} \cup Control
Characters == TextChars \cup {"h", "p", Replacement}

\* Two of them arrive, unchanged if they are UTF-8.
LEMMA HashArrives ==
  ASSUME NEW v \in Texts, NEW w \in Texts
  PROVE  /\ LibpqParse(Conninfo(Pairs("h", v, "p", w)))
              = IF "NUL" \in ToSet(v \o w) THEN <<>> ELSE Pairs("h", Lossy(v), "p", Lossy(w))
         /\ Malformed \notin ToSet(v \o w) => Lossy(v) = v /\ Lossy(w) = w
<1> DEFINE h == "h"
           p == "p"
<1>1. v \in Seq(Characters) /\ w \in Seq(Characters)
  <2>1. TextChars \subseteq Characters
      BY DEF Characters
  <2>2. ASSUME NEW t \in Texts PROVE t \in Seq(Characters)
    <3>1. PICK n \in 0 .. ValueLen : t \in [1 .. n -> TextChars]
        BY DEF Texts, TextChars
    <3>2. n \in Nat
        BY PgTextAssumption
    <3>3. \A i \in 1 .. n : t[i] \in Characters
        BY <2>1, <3>1
    <3>4. t = [i \in 1 .. n |-> t[i]]
        BY <3>1
    <3> QED BY <3>2, <3>3, <3>4
  <2> QED BY <2>2
<1>2. /\ Signs \subseteq Characters /\ h \in Characters /\ p \in Characters
      /\ h \notin {"NUL", Malformed} \cup Blank /\ p \notin {"NUL", Malformed} \cup Blank
      /\ Replacement \in Characters
    BY DEF Signs, Marks, Blank, Characters, TextChars, Malformed
<1> HIDE DEF h, p
<1>3. LibpqParse(Conninfo(Pairs(h, v, p, w)))
        = IF "NUL" \in ToSet(v \o w) THEN <<>> ELSE Pairs(h, Lossy(v), p, Lossy(w))
    BY <1>1, <1>2, ConninfoArrives
<1>4. ASSUME Malformed \notin ToSet(v \o w) PROVE Lossy(v) = v /\ Lossy(w) = w
  <2>1. Range(v) \subseteq Range(v \o w) /\ Range(w) \subseteq Range(v \o w)
      BY <1>1, ConcatRange
  <2>2. Malformed \notin Range(v) /\ Malformed \notin Range(w)
      BY <1>4, <2>1 DEF ToSet, Range
  <2> QED BY <1>1, <1>2, <2>2, LossyFacts
<1> QED BY <1>3, <1>4 DEF h, p

\* ArgumentsArrive of what is converted.
LEMMA SampleArrives ==
  ASSUME sample.kind = "hash" => sample \in [kind : {"hash"}, host : Texts, password : Texts]
  PROVE  ArgumentsArrive
<1> SUFFICES ASSUME sample.kind = "hash" PROVE ArgumentsArrive
    BY DEF ArgumentsArrive
<1>1. sample.host \in Texts /\ sample.password \in Texts
    OBVIOUS
<1>2. PICK v \in Texts : v = sample.host
    BY <1>1
<1>3. PICK w \in Texts : w = sample.password
    BY <1>1
<1>4. Bind(v) \in {v, Raised}
    BY DEF Bind, CString
<1>5. /\ LibpqParse(Conninfo(Pairs("h", v, "p", w)))
           = IF "NUL" \in ToSet(v \o w) THEN <<>> ELSE Pairs("h", Lossy(v), "p", Lossy(w))
      /\ Malformed \notin ToSet(v \o w) => Lossy(v) = v /\ Lossy(w) = w
    BY HashArrives
<1>6. ASSUME ToSet(v \o w) \cap {"NUL", Malformed} = {}
      PROVE  LibpqParse(Conninfo(Pairs("h", v, "p", w))) = Pairs("h", v, "p", w)
    BY <1>5, <1>6
<1> QED BY <1>2, <1>3, <1>4, <1>5, <1>6 DEF ArgumentsArrive, Pairs

-----------------------------------------------------------------------------
\* Equal up to wrapping.
Same(a, b) == \E k \in Int : a = b + k * (2 * Half)

\* The machine's integers.
Machine == {n \in Int : -Half <= n /\ n < Half}

\* Wrapping reaches the machine's integers and changes nothing else.
LEMMA WrappedFacts ==
  ASSUME NEW n \in Int
  PROVE  Wrapped(n) \in Machine /\ Same(n, Wrapped(n))
<1>1. PICK P \in Nat \ {0} : P = 2 * Half
    BY PgTextAssumption
<1>2. PICK m \in Int : m = n + Half
    BY PgTextAssumption
<1>3. m % P \in 0 .. P - 1 /\ m = P * (m \div P) + (m % P) /\ m \div P \in Int
    OBVIOUS
<1>4. Wrapped(n) = (m % P) - Half
    BY <1>1, <1>2 DEF Wrapped
<1>5. Wrapped(n) \in Machine
    BY <1>1, <1>3, <1>4, PgTextAssumption DEF Machine
<1>6. n = Wrapped(n) + (m \div P) * P
    BY <1>2, <1>3, <1>4, PgTextAssumption
<1> QED BY <1>1, <1>3, <1>5, <1>6 DEF Same

\* A machine integer is what it is.
LEMMA WrappedSame ==
  ASSUME NEW a \in Machine, NEW b \in Machine, Same(a, b)
  PROVE  a = b
<1>1. PICK P \in Nat \ {0} : P = 2 * Half
    BY PgTextAssumption
<1>2. PICK k \in Int : a = b + k * P
    BY <1>1 DEF Same
<1>3. a \in Int /\ b \in Int /\ a - b < P /\ b - a < P
    BY <1>1, PgTextAssumption DEF Machine
<1>4. PICK q \in Int : q = k * P
    OBVIOUS
<1>5. k >= 1 => q >= P
    BY <1>4
<1>6. k <= -1 => q <= -P
    BY <1>4
<1>7. k = 0
    BY <1>2, <1>3, <1>4, <1>5, <1>6
<1> QED BY <1>2, <1>3, <1>7

\* What is the same as the same is the same.
LEMMA SameTransitive ==
  ASSUME NEW a \in Int, NEW b \in Int, NEW c \in Int, Same(a, b), Same(b, c)
  PROVE  Same(a, c) /\ Same(b, a)
<1>1. PICK P \in Nat \ {0} : P = 2 * Half
    BY PgTextAssumption
<1>2. PICK k \in Int : a = b + k * P
    BY <1>1 DEF Same
<1>3. PICK j \in Int : b = c + j * P
    BY <1>1 DEF Same
<1>4. a = c + (k + j) * P /\ b = a + (-k) * P /\ k + j \in Int /\ -k \in Int
    BY <1>2, <1>3
<1> QED BY <1>1, <1>4 DEF Same

\* One more digit.
LEMMA SameDigit ==
  ASSUME NEW a \in Int, NEW b \in Int, NEW d \in Int, Same(a, b)
  PROVE  Same(a * 10 + d, b * 10 + d) /\ Same(-a, -b)
<1>1. PICK P \in Nat \ {0} : P = 2 * Half
    BY PgTextAssumption
<1>2. PICK k \in Int : a = b + k * P
    BY <1>1 DEF Same
<1>3. a * 10 + d = (b * 10 + d) + (10 * k) * P /\ -a = -b + (-k) * P
      /\ 10 * k \in Int /\ -k \in Int
    BY <1>2
<1> QED BY <1>1, <1>3 DEF Same

-----------------------------------------------------------------------------
\* The digits.
Digits == ToSet(Digit)

\* A digit has a value, and is not a sign.
LEMMA DigitFacts ==
  /\ \A d \in Digits : DigitValue[d] \in Nat
  /\ "-" \notin Digits /\ "+" \notin Digits
<1>1. \A d \in Digits : \E i \in 1 .. 10 : Digit[i] = d
  <2>1. DOMAIN Digit = 1 .. 10
      BY DEF Digit
  <2> QED BY <2>1 DEF Digits, ToSet
<1>2. ASSUME NEW d \in Digits PROVE DigitValue[d] \in Nat
  <2>1. PICK n : n = CHOOSE i \in 1 .. 10 : Digit[i] = d
      OBVIOUS
  <2>2. n \in 1 .. 10
    <3> HIDE DEF Digits
    <3> QED BY <1>1, <1>2, <2>1
  <2>3. DigitValue[d] = n - 1
      BY <2>1, <1>2 DEF DigitValue, Digits
  <2> QED BY <2>2, <2>3
<1>3. "-" \notin Digits /\ "+" \notin Digits
    BY DEF Digits, ToSet, Digit
<1> QED BY <1>2, <1>3

\* parse_i64_raw's loop, and the number that is written.
NextRead(i, d) == Wrapped(Wrapped(i * 10) + DigitValue[d])
DigitsRead(t) == FoldLeft(LAMBDA i, d : Wrapped(Wrapped(i * 10) + DigitValue[d]), 0, t)
NextNumber(i, d) == i * 10 + DigitValue[d]

\* The loop is a fold over the digits.
LEMMA DigitsReadIsFold ==
  IsFold(Machine, Digits, 0, [d \in Digits |-> [i \in Machine |-> NextRead(i, d)]],
         [t \in Seq(Digits) |-> DigitsRead(t)])
<1> DEFINE X == Machine
           D == Digits
           b == 0
           op(i, d) == NextRead(i, d)
           Op == [d \in D |-> [i \in X |-> op(i, d)]]
           fold == [t \in Seq(D) |-> DigitsRead(t)]
<1>1. b \in X
    BY PgTextAssumption DEF Machine
<1>2. ASSUME NEW i \in X, NEW d \in D PROVE op(i, d) \in X
  <2>1. i * 10 \in Int /\ DigitValue[d] \in Int
      BY DigitFacts DEF Machine
  <2>2. Wrapped(i * 10) + DigitValue[d] \in Int
      BY <2>1, WrappedFacts DEF Machine
  <2> QED BY <2>2, WrappedFacts DEF NextRead
<1> HIDE DEF X, D, b, op
<1>3. Op \in [D -> [X -> X]] /\ \A d \in D, i \in X : Op[d][i] = op(i, d)
    BY <1>2
<1>4. ASSUME NEW s \in Seq(D)
      PROVE  Computed(X, b, Len(s), StepsOver(Op, s), DigitsRead(s))
  <2> DEFINE Is(c) == c = [u \in SUBSET DOMAIN s |->
                             IF u = {} THEN b ELSE op(c[u \ {Max(u)}], s[Max(u)])]
             c == CHOOSE d : Is(d)
  <2> HIDE DEF Op
  <2>1. PICK d : FoldsOver(X, D, b, Op, s, d)
      BY <1>1, <1>3, FoldOver
  <2>2. Is(d)
      BY <1>3, <2>1 DEF FoldsOver
  <2>3. Is(c)
      BY <2>2
  <2>4. DigitsRead(s) = c[DOMAIN s]
      BY DEF DigitsRead, FoldLeft, MapThenFoldSet, Max, op, b, NextRead
  <2> HIDE DEF c
  <2>5. c[{}] = b /\ \A u \in SUBSET DOMAIN s :
                       u # {} => c[u] = op(c[u \ {Max(u)}], s[Max(u)])
      BY <2>3
  <2>6. \A u \in SUBSET DOMAIN s :
           u # {} /\ s[Max(u)] \in D /\ c[u \ {Max(u)}] \in X
           => c[u] = Op[s[Max(u)]][c[u \ {Max(u)}]]
      BY <1>3, <2>5
  <2>7. Computed(X, b, Len(s), StepsOver(Op, s), c[DOMAIN s])
      BY <1>1, <1>3, <2>5, <2>6, FoldOverAll
  <2> QED BY <2>4, <2>7
<1> HIDE DEF Op
<1>5. IsFold(X, D, b, Op, fold)
  <2>1. fold = [s \in Seq(D) |-> fold[s]] /\ \A s \in Seq(D) : fold[s] = DigitsRead(s)
      OBVIOUS
  <2> HIDE DEF fold
  <2> QED BY <1>1, <1>3, <1>4, <2>1, FoldByElement
<1> QED BY <1>5 DEF X, D, b, op, Op

\* So is the number.
LEMMA NumberIsFold ==
  IsFold(Nat, Digits, 0, [d \in Digits |-> [i \in Nat |-> NextNumber(i, d)]],
         [t \in Seq(Digits) |-> Number(t)])
<1> DEFINE X == Nat
           D == Digits
           b == 0
           op(i, d) == NextNumber(i, d)
           Op == [d \in D |-> [i \in X |-> op(i, d)]]
           fold == [t \in Seq(D) |-> Number(t)]
<1>1. b \in X
    OBVIOUS
<1>2. ASSUME NEW i \in X, NEW d \in D PROVE op(i, d) \in X
    BY DigitFacts DEF NextNumber
<1> HIDE DEF X, D, b, op
<1>3. Op \in [D -> [X -> X]] /\ \A d \in D, i \in X : Op[d][i] = op(i, d)
    BY <1>2
<1>4. ASSUME NEW s \in Seq(D)
      PROVE  Computed(X, b, Len(s), StepsOver(Op, s), Number(s))
  <2> DEFINE Is(c) == c = [u \in SUBSET DOMAIN s |->
                             IF u = {} THEN b ELSE op(c[u \ {Max(u)}], s[Max(u)])]
             c == CHOOSE d : Is(d)
  <2> HIDE DEF Op
  <2>1. PICK d : FoldsOver(X, D, b, Op, s, d)
      BY <1>1, <1>3, FoldOver
  <2>2. Is(d)
      BY <1>3, <2>1 DEF FoldsOver
  <2>3. Is(c)
      BY <2>2
  <2>4. Number(s) = c[DOMAIN s]
      BY DEF Number, FoldLeft, MapThenFoldSet, Max, op, b, NextNumber
  <2> HIDE DEF c
  <2>5. c[{}] = b /\ \A u \in SUBSET DOMAIN s :
                       u # {} => c[u] = op(c[u \ {Max(u)}], s[Max(u)])
      BY <2>3
  <2>6. \A u \in SUBSET DOMAIN s :
           u # {} /\ s[Max(u)] \in D /\ c[u \ {Max(u)}] \in X
           => c[u] = Op[s[Max(u)]][c[u \ {Max(u)}]]
      BY <1>3, <2>5
  <2>7. Computed(X, b, Len(s), StepsOver(Op, s), c[DOMAIN s])
      BY <1>1, <1>3, <2>5, <2>6, FoldOverAll
  <2> QED BY <2>4, <2>7
<1> HIDE DEF Op
<1>5. IsFold(X, D, b, Op, fold)
  <2>1. fold = [s \in Seq(D) |-> fold[s]] /\ \A s \in Seq(D) : fold[s] = Number(s)
      OBVIOUS
  <2> HIDE DEF fold
  <2> QED BY <1>1, <1>3, <1>4, <2>1, FoldByElement
<1> QED BY <1>5 DEF X, D, b, op, Op

\* One digit after the other.
LEMMA DigitsReadFacts ==
  /\ DigitsRead(<<>>) = 0
  /\ \A t \in Seq(Digits) : DigitsRead(t) \in Machine
  /\ \A t \in Seq(Digits), d \in Digits : DigitsRead(Append(t, d)) = NextRead(DigitsRead(t), d)
<1> DEFINE X == Machine
           D == Digits
           none == <<>>
           Op == [d \in D |-> [i \in X |-> NextRead(i, d)]]
           fold == [t \in Seq(D) |-> DigitsRead(t)]
<1>1. IsFold(X, D, 0, Op, fold)
    BY DigitsReadIsFold
<1> HIDE DEF X, D
<1>2. /\ none \in Seq(D) /\ \A t \in Seq(D) : fold[t] = DigitsRead(t)
      /\ \A t \in Seq(D), d \in D : Append(t, d) \in Seq(D)
      /\ \A d \in D, i \in X : Op[d][i] = NextRead(i, d)
    OBVIOUS
<1> HIDE DEF Op, fold, none
<1>3. /\ fold[none] = 0 /\ \A t \in Seq(D) : fold[t] \in X
      /\ \A t \in Seq(D), d \in D : fold[Append(t, d)] = Op[d][fold[t]]
    BY <1>1, <1>2 DEF IsFold, none
<1>4. /\ DigitsRead(none) = 0 /\ \A t \in Seq(D) : DigitsRead(t) \in X
      /\ \A t \in Seq(D), d \in D : DigitsRead(Append(t, d)) = NextRead(DigitsRead(t), d)
  <2>1. DigitsRead(none) = 0
      BY <1>2, <1>3
  <2>2. ASSUME NEW t \in Seq(D) PROVE DigitsRead(t) \in X
      BY <1>2, <1>3
  <2>3. ASSUME NEW t \in Seq(D), NEW d \in D PROVE DigitsRead(Append(t, d)) = NextRead(DigitsRead(t), d)
    <3>1. fold[Append(t, d)] = DigitsRead(Append(t, d)) /\ fold[t] = DigitsRead(t) /\ fold[t] \in X
        BY <1>2, <1>3
    <3>2. fold[Append(t, d)] = Op[d][fold[t]]
        BY <1>3
    <3>3. Op[d][fold[t]] = NextRead(fold[t], d)
        BY <1>2, <3>1
    <3> QED BY <3>1, <3>2, <3>3
  <2> QED BY <2>1, <2>2, <2>3
<1> QED BY <1>4 DEF X, D, none

\* The same of the number.
LEMMA NumberFacts ==
  /\ Number(<<>>) = 0
  /\ \A t \in Seq(Digits) : Number(t) \in Nat
  /\ \A t \in Seq(Digits), d \in Digits : Number(Append(t, d)) = NextNumber(Number(t), d)
<1> DEFINE X == Nat
           D == Digits
           none == <<>>
           Op == [d \in D |-> [i \in X |-> NextNumber(i, d)]]
           fold == [t \in Seq(D) |-> Number(t)]
<1>1. IsFold(X, D, 0, Op, fold)
    BY NumberIsFold
<1> HIDE DEF X, D
<1>2. /\ none \in Seq(D) /\ \A t \in Seq(D) : fold[t] = Number(t)
      /\ \A t \in Seq(D), d \in D : Append(t, d) \in Seq(D)
      /\ \A d \in D, i \in X : Op[d][i] = NextNumber(i, d)
    OBVIOUS
<1> HIDE DEF Op, fold, none
<1>3. /\ fold[none] = 0 /\ \A t \in Seq(D) : fold[t] \in X
      /\ \A t \in Seq(D), d \in D : fold[Append(t, d)] = Op[d][fold[t]]
    BY <1>1, <1>2 DEF IsFold, none
<1>4. /\ Number(none) = 0 /\ \A t \in Seq(D) : Number(t) \in X
      /\ \A t \in Seq(D), d \in D : Number(Append(t, d)) = NextNumber(Number(t), d)
  <2>1. Number(none) = 0
      BY <1>2, <1>3
  <2>2. ASSUME NEW t \in Seq(D) PROVE Number(t) \in X
      BY <1>2, <1>3
  <2>3. ASSUME NEW t \in Seq(D), NEW d \in D PROVE Number(Append(t, d)) = NextNumber(Number(t), d)
    <3>1. fold[Append(t, d)] = Number(Append(t, d)) /\ fold[t] = Number(t) /\ fold[t] \in X
        BY <1>2, <1>3
    <3>2. fold[Append(t, d)] = Op[d][fold[t]]
        BY <1>3
    <3>3. Op[d][fold[t]] = NextNumber(fold[t], d)
        BY <1>2, <3>1
    <3> QED BY <3>1, <3>2, <3>3
  <2> QED BY <2>1, <2>2, <2>3
<1> QED BY <1>4 DEF X, D, none

\* The loop reads the number, up to wrapping.
LEMMA ReadIsNumber == \A t \in Seq(Digits) : Same(Number(t), DigitsRead(t))
<1> DEFINE R == {t \in Seq(Digits) : Same(Number(t), DigitsRead(t))}
<1>1. <<>> \in R
  <2> DEFINE none == <<>>
  <2>1. none \in Seq(Digits)
      OBVIOUS
  <2>2. Number(none) = 0 /\ DigitsRead(none) = 0
      BY NumberFacts, DigitsReadFacts
  <2>3. Same(0, 0)
    <3>1. 0 = 0 + 0 * (2 * Half)
        BY PgTextAssumption
    <3> QED BY <3>1 DEF Same
  <2> HIDE DEF none
  <2>4. none \in R
      BY <2>1, <2>2, <2>3
  <2> QED BY <2>4 DEF none
<1>2. ASSUME NEW t \in Seq(Digits), NEW d \in Digits, t \in R PROVE Append(t, d) \in R
  <2>1. PICK n \in Int : n = Number(t)
      BY NumberFacts
  <2>2. PICK m \in Int : m = DigitsRead(t)
      BY DigitsReadFacts DEF Machine
  <2>3. PICK v \in Int : v = DigitValue[d]
      BY DigitFacts
  <2>4. Same(n * 10 + v, m * 10 + v)
      BY <1>2, <2>1, <2>2, SameDigit
  <2>5. PICK w \in Int : w = Wrapped(m * 10) /\ Same(m * 10, w)
      BY WrappedFacts DEF Machine
  <2>6. Same(m * 10 + v, w + v)
    <3>1. PICK k \in Int : m * 10 = w + k * (2 * Half)
        BY <2>5 DEF Same
    <3>2. PICK q \in Int : q = k * (2 * Half)
        BY PgTextAssumption
    <3>3. m * 10 + v = (w + v) + q
        BY <3>1, <3>2
    <3> QED BY <3>2, <3>3 DEF Same
  <2>7. PICK x \in Int : x = Wrapped(w + v) /\ Same(w + v, x)
      BY WrappedFacts DEF Machine
  <2>8. n * 10 + v \in Int /\ m * 10 + v \in Int /\ w + v \in Int
      OBVIOUS
  <2>9. Same(n * 10 + v, x)
      BY <2>4, <2>6, <2>7, <2>8, SameTransitive
  <2>10. Number(Append(t, d)) = n * 10 + v /\ DigitsRead(Append(t, d)) = x
      BY <2>1, <2>2, <2>3, <2>5, <2>7, NumberFacts, DigitsReadFacts DEF NextNumber, NextRead
  <2> QED BY <2>9, <2>10
<1> HIDE DEF R
<1>3. \A t \in Seq(Digits) : t \in R
    BY <1>1, <1>2, AppendInduction
<1> QED BY <1>3 DEF R

-----------------------------------------------------------------------------
\* parse_i64_raw by its loop.
LEMMA ParseIntIs ==
  ASSUME NEW t, NEW digits,
         digits = IF t # <<>> /\ t[1] \in {"-", "+"} THEN Tail(t) ELSE t
  PROVE  ParseInt(t) = IF digits = <<>> \/ ~(ToSet(digits) \subseteq Digits) THEN Nil
                       ELSE IF t[1] = "-" THEN Wrapped(-DigitsRead(digits))
                       ELSE DigitsRead(digits)
BY DEF ParseInt, DigitsRead, Digits

\* The server's text of a number that is not negative.
LEMMA NaturalParsed ==
  ASSUME NEW t \in Seq(Digits), t # <<>>, Number(t) < Half
  PROVE  ParseInt(t) = Number(t)
<1>1. t[1] \in Digits /\ ToSet(t) \subseteq Digits
    BY DEF ToSet
<1>2. t[1] # "-" /\ t[1] # "+"
    BY <1>1, DigitFacts
<1>3. ParseInt(t) = DigitsRead(t)
    BY <1>1, <1>2, ParseIntIs
<1>4. Number(t) \in Machine
    BY NumberFacts, PgTextAssumption DEF Machine
<1> QED BY <1>3, <1>4, ReadIsNumber, WrappedSame, DigitsReadFacts

\* And of one that is: the least is read by wrapping.
LEMMA NegativeParsed ==
  ASSUME NEW t \in Seq(Digits), t # <<>>, Number(t) \in 1 .. Half
  PROVE  ParseInt(<<"-">> \o t) = -Number(t)
<1> DEFINE minus == "-"
<1>1. PICK s : s = <<minus>> \o t
    OBVIOUS
<1>2. ToSet(t) \subseteq Digits
    BY DEF ToSet
<1>3. PICK U : U = Digits \cup {minus}
    OBVIOUS
<1> HIDE DEF minus
<1>4. <<minus>> \in Seq(U) /\ t \in Seq(U)
    BY <1>3
<1>5. s \in Seq(U) /\ Len(s) = 1 + Len(t) /\ s[1] = minus
      /\ \A i \in 1 .. Len(t) : s[i + 1] = t[i]
    BY <1>1, <1>4
<1>6. s # <<>>
    BY <1>5
<1>7. Tail(s) = t
    BY <1>4, <1>5, <1>6
<1>8. ParseInt(s) = Wrapped(-DigitsRead(t))
    BY <1>2, <1>5, <1>6, <1>7, ParseIntIs DEF minus
<1>9. PICK n \in Int : n = Number(t)
    BY NumberFacts
<1>10. PICK m \in Int : m = DigitsRead(t)
    BY DigitsReadFacts DEF Machine
<1>11. Same(-n, -m)
    BY <1>9, <1>10, ReadIsNumber, SameDigit
<1>12. PICK w \in Machine : w = Wrapped(-m) /\ Same(-m, w)
    BY WrappedFacts
<1>13. -n \in Machine
    BY <1>9, PgTextAssumption DEF Machine
<1>14. -n \in Int /\ -m \in Int /\ w \in Int
    BY DEF Machine
<1>15. Same(-n, w)
    BY <1>11, <1>12, <1>14, SameTransitive
<1>16. -n = w
    BY <1>13, <1>15, WrappedSame
<1> QED BY <1>1, <1>8, <1>9, <1>10, <1>12, <1>16 DEF minus

-----------------------------------------------------------------------------
\* typed_getvalue of a cell with the text t.
Typed(type, t, decode) ==
  IF t = Nil THEN Nil
  ELSE IF decode /\ Decode(type, t) # Nil THEN Decode(type, t) ELSE t

\* w is a text and its value, as the server writes it for the type.
Reads(type, w) ==
  \A decode \in BOOLEAN : Typed(type, w[1], decode) = w[IF decode THEN 2 ELSE 1]

\* NULL has no value, whatever the type.
LEMMA NullReads == \A type : Reads(type, <<Nil, Nil>>)
BY DEF Reads, Typed

\* The texts of digits.
LEMMA NumeralsAreDigits == \A t \in Numerals : t \in Seq(Digits) /\ t # <<>>
<1> SUFFICES ASSUME NEW t \in Numerals PROVE t \in Seq(Digits) /\ t # <<>>
    OBVIOUS
<1>1. PICK n \in 1 .. MaxDigits : t \in [1 .. n -> Digits]
    BY DEF Numerals, Digits
<1>2. n \in Nat /\ n # 0
    BY PgTextAssumption
<1>3. t \in Seq(Digits) /\ Len(t) = n
    BY <1>1, <1>2
<1> QED BY <1>2, <1>3

\* The characters of the cells.
CellChars == Digits \cup {"-", "t", "f"}

\* nil is none of their texts.
LEMMA NilIsApart == Nil \notin Int /\ Nil # TRUE /\ Nil # FALSE /\ Nil \notin Seq(CellChars)
BY NilAssumption DEF CellChars, Digits

\* An integer is read as it was written.
LEMMA IntReads == \A w \in Written["int"] : Reads("int", w)
<1>1. ASSUME NEW t \in Seq(CellChars), NEW n \in Int, ParseInt(t) = n
      PROVE  Reads("int", <<t, n>>)
  <2>1. t # Nil /\ n # Nil
      BY NilIsApart
  <2>2. Decode("int", t) = n
      BY <1>1 DEF Decode
  <2> QED BY <2>1, <2>2 DEF Reads, Typed
<1>2. ASSUME NEW t \in Numerals
      PROVE  t \in Seq(CellChars) /\ <<"-">> \o t \in Seq(CellChars) /\ Number(t) \in Nat /\ -Number(t) \in Int
  <2>1. t \in Seq(CellChars)
    <3>1. t \in Seq(Digits) /\ Digits \subseteq CellChars
        BY NumeralsAreDigits DEF CellChars
    <3> QED BY <3>1
  <2>2. <<"-">> \o t \in Seq(CellChars)
    <3>1. PICK m \in CellChars : m = "-"
        BY DEF CellChars
    <3>2. <<m>> \in Seq(CellChars) /\ <<m>> \o t \in Seq(CellChars)
        BY <2>1
    <3> QED BY <3>1, <3>2
  <2>3. Number(t) \in Nat
      BY NumeralsAreDigits, NumberFacts
  <2> QED BY <2>1, <2>2, <2>3
<1>3. ASSUME NEW t \in Numerals, Number(t) < Half PROVE Reads("int", <<t, Number(t)>>)
    BY <1>1, <1>2, <1>3, NumeralsAreDigits, NaturalParsed
<1>4. ASSUME NEW t \in Numerals, Number(t) \in 1 .. Half
      PROVE  Reads("int", << <<"-">> \o t, -Number(t)>>)
    BY <1>1, <1>2, <1>4, NumeralsAreDigits, NegativeParsed
<1> QED BY <1>3, <1>4 DEF Written

\* So is a bool.
LEMMA BoolReads == \A w \in Written["bool"] : Reads("bool", w)
<1>1. <<"t">> \in Seq(CellChars) /\ <<"f">> \in Seq(CellChars)
  <2>1. \A c \in CellChars : <<c>> \in Seq(CellChars)
      OBVIOUS
  <2>2. "t" \in CellChars /\ "f" \in CellChars
      BY DEF CellChars
  <2> QED BY <2>1, <2>2
<1>2. Decode("bool", <<"t">>) = TRUE /\ Decode("bool", <<"f">>) = FALSE
    BY DEF Decode
<1>3. <<"t">> # Nil /\ <<"f">> # Nil /\ Nil # TRUE /\ Nil # FALSE
    BY <1>1, NilIsApart
<1>4. Reads("bool", << <<"t">>, TRUE>>)
    BY <1>2, <1>3 DEF Reads, Typed
<1>5. Reads("bool", << <<"f">>, FALSE>>)
    BY <1>2, <1>3 DEF Reads, Typed
<1> QED BY <1>4, <1>5 DEF Written

\* And a text, one that looks like a number too.
LEMMA TextReads == \A w \in Written["text"] : Reads("text", w)
<1>1. ASSUME NEW t PROVE Reads("text", <<t, t>>)
  <2>1. Decode("text", t) = Nil
      BY DEF Decode
  <2> QED BY <2>1 DEF Reads, Typed
<1> QED BY <1>1 DEF Written

\* So is every cell of a sample.
LEMMA SampledReads ==
  ASSUME NEW c \in AnyCell \cup SomeCell
  PROVE  Reads(c[1], c[2])
<1>1. \A type : \A e \in Column(type) : e[1] = type /\ e[2] \in Written[type] \cup {<<Nil, Nil>>}
    BY DEF Column
<1>2. DOMAIN Written = {"int", "bool", "text"}
    BY DEF Written
<1>3. \A type \in {"int", "bool", "text"} : \A e \in Column(type) : Reads(e[1], e[2])
    BY <1>1, NullReads, IntReads, BoolReads, TextReads
<1>4. CASE c \in AnyCell
    BY <1>2, <1>3, <1>4 DEF AnyCell
<1>5. CASE c \in SomeCell
  <2>1. CASE c = <<"int", <<Nil, Nil>> >>
      BY <2>1, NullReads
  <2> QED BY <1>3, <1>5, <2>1 DEF SomeCell
<1> QED BY <1>4, <1>5

-----------------------------------------------------------------------------
\* The result of one row with the two cells a and b.
OneRow(a, b, decode) ==
  [types |-> [j \in 1 .. 2 |-> IF j = 1 THEN a[1] ELSE b[1]],
   rows |-> << [j \in 1 .. 2 |-> IF j = 1 THEN a[2][1] ELSE b[2][1]] >>,
   decode |-> decode]

\* It has one row and two columns, and no cell has two values.
LEMMA OneRowFacts ==
  ASSUME NEW a, NEW b, NEW decode, NEW r, r = OneRow(a, b, decode)
  PROVE  /\ Len(r.rows) = 1 /\ Len(r.types) = 2 /\ r.decode = decode
         /\ r.types[1] = a[1] /\ r.types[2] = b[1]
         /\ Cell(r, 0, 0) = a[2][1] /\ Cell(r, 0, 1) = b[2][1]
<1>1. /\ r.types = [j \in 1 .. 2 |-> IF j = 1 THEN a[1] ELSE b[1]]
      /\ r.rows = << [j \in 1 .. 2 |-> IF j = 1 THEN a[2][1] ELSE b[2][1]] >>
      /\ r.decode = decode
    BY DEF OneRow
<1>2. Len(r.rows) = 1 /\ r.rows[1] = [j \in 1 .. 2 |-> IF j = 1 THEN a[2][1] ELSE b[2][1]]
    BY <1>1
<1>3. Len(r.types) = 2
    BY <1>1
<1>4. r.types[1] = a[1] /\ r.types[2] = b[1]
    BY <1>1
<1>5. r.rows[1][1] = a[2][1] /\ r.rows[1][2] = b[2][1]
    BY <1>2
<1> QED BY <1>1, <1>2, <1>3, <1>4, <1>5 DEF Cell

\* Each typed cell is read as it was written.
LEMMA OneRowRead ==
  ASSUME NEW a \in AnyCell \cup SomeCell, NEW b \in AnyCell \cup SomeCell,
         NEW decode \in BOOLEAN, NEW r, r = OneRow(a, b, decode)
  PROVE  /\ TypedCell(r, 0, 0) = a[2][IF decode THEN 2 ELSE 1]
         /\ TypedCell(r, 0, 1) = b[2][IF decode THEN 2 ELSE 1]
<1>1. TypedCell(r, 0, 0) = Typed(r.types[1], Cell(r, 0, 0), r.decode)
    BY DEF TypedCell, Typed
<1>2. TypedCell(r, 0, 1) = Typed(r.types[2], Cell(r, 0, 1), r.decode)
    BY DEF TypedCell, Typed
<1>3. Reads(a[1], a[2]) /\ Reads(b[1], b[2])
    BY SampledReads
<1> QED BY <1>1, <1>2, <1>3, OneRowFacts DEF Reads

\* Every method of the result gives read, the values of its one row, or the
\* texts; outside of it there is nothing.
ReadExactly(r, read) ==
  /\ Values(r) = <<read>>
  /\ At(r, 0) = read /\ At(r, 1) = Nil /\ At(r, -1) = Nil
  /\ \A j \in 0 .. 1 :
       /\ FType(r, j) = r.types[j + 1]
       /\ GetIsNull(r, 0, j) = (r.rows[1][j + 1] = Nil)
       /\ GetValue(r, 0, j) = r.rows[1][j + 1]
       /\ TypedGetValue(r, 0, j) = read[j + 1]
  /\ \A i \in Int, j \in Int :
       ~(i = 0 /\ j \in 0 .. 1) => Raised = GetValue(r, i, j) /\ Raised = TypedGetValue(r, i, j)

\* The whole of it.
LEMMA RowIsExact ==
  ASSUME NEW a \in AnyCell \cup SomeCell, NEW b \in AnyCell \cup SomeCell,
         NEW decode \in BOOLEAN, NEW r, r = OneRow(a, b, decode), NEW read,
         read = [j \in 1 .. 2 |-> IF j = 1 THEN a[2][IF decode THEN 2 ELSE 1]
                                           ELSE b[2][IF decode THEN 2 ELSE 1]]
  PROVE  ReadExactly(r, read)
<1>1. Len(r.rows) = 1 /\ Len(r.types) = 2
    BY OneRowFacts
<1>2. read[1] = TypedCell(r, 0, 0) /\ read[2] = TypedCell(r, 0, 1)
    BY OneRowRead
<1>3. Row(r, 0) = read
  <2>1. Row(r, 0) = [j \in 1 .. 2 |-> TypedCell(r, 0, j - 1)]
      BY <1>1 DEF Row
  <2>2. \A j \in 1 .. 2 : j = 1 \/ j = 2
      OBVIOUS
  <2>3. \A j \in 1 .. 2 : read[j] = TypedCell(r, 0, j - 1)
      BY <1>2, <2>2
  <2> QED BY <2>1, <2>3
<1>4. Values(r) = <<read>>
  <2>1. Values(r) = [i \in 1 .. 1 |-> Row(r, i - 1)]
      BY <1>1 DEF Values
  <2>2. \A i \in 1 .. 1 : Row(r, i - 1) = read
      BY <1>3
  <2>3. Values(r) = [i \in 1 .. 1 |-> read]
      BY <2>1, <2>2
  <2> QED BY <2>3
<1>5. At(r, 0) = read /\ At(r, 1) = Nil /\ At(r, -1) = Nil
    BY <1>1, <1>3 DEF At
<1>6. ASSUME NEW j \in 0 .. 1
      PROVE  /\ FType(r, j) = r.types[j + 1]
             /\ GetIsNull(r, 0, j) = (r.rows[1][j + 1] = Nil)
             /\ GetValue(r, 0, j) = r.rows[1][j + 1]
             /\ TypedGetValue(r, 0, j) = read[j + 1]
  <2>1. InRange(r, 0, j) /\ j \in 0 .. Len(r.types) - 1
      BY <1>1 DEF InRange
  <2>2. Cell(r, 0, j) = r.rows[1][j + 1]
      BY DEF Cell
  <2>3. TypedCell(r, 0, j) = read[j + 1]
    <3>1. j = 0 \/ j = 1
        OBVIOUS
    <3> QED BY <3>1, <1>2
  <2> QED BY <2>1, <2>2, <2>3 DEF FType, GetIsNull, GetValue, TypedGetValue
<1>7. ASSUME NEW i \in Int, NEW j \in Int, ~(i = 0 /\ j \in 0 .. 1)
      PROVE  Raised = GetValue(r, i, j) /\ Raised = TypedGetValue(r, i, j)
  <2>1. ~InRange(r, i, j)
      BY <1>1, <1>7 DEF InRange
  <2> QED BY <2>1 DEF GetValue, TypedGetValue
<1> QED BY <1>4, <1>5, <1>6, <1>7 DEF ReadExactly

\* CellsAreExact of what is converted.
LEMMA SampleIsExact ==
  ASSUME sample.kind = "row" =>
           sample \in [kind : {"row"}, cells : AnyCell \X SomeCell, decode : BOOLEAN]
  PROVE  CellsAreExact
<1> SUFFICES ASSUME sample.kind = "row" PROVE CellsAreExact
    BY DEF CellsAreExact
<1>1. sample.cells \in AnyCell \X SomeCell /\ sample.decode \in BOOLEAN
    OBVIOUS
<1>2. PICK a \in AnyCell \cup SomeCell : a = sample.cells[1]
    BY <1>1
<1>3. PICK b \in AnyCell \cup SomeCell : b = sample.cells[2]
    BY <1>1
<1>4. PICK decode \in BOOLEAN : decode = sample.decode
    BY <1>1
<1> DEFINE types == [j \in 1 .. 2 |-> sample.cells[j][1]]
           texts == [j \in 1 .. 2 |-> sample.cells[j][2][1]]
           read == [j \in 1 .. 2 |-> sample.cells[j][2][IF sample.decode THEN 2 ELSE 1]]
           r == [types |-> types, rows |-> <<texts>>, decode |-> sample.decode]
<1>5. \A j \in 1 .. 2 : j # 1 => j = 2
    OBVIOUS
<1>6. types = [j \in 1 .. 2 |-> IF j = 1 THEN a[1] ELSE b[1]]
    BY <1>2, <1>3, <1>5
<1>7. texts = [j \in 1 .. 2 |-> IF j = 1 THEN a[2][1] ELSE b[2][1]]
    BY <1>2, <1>3, <1>5
<1>8. read = [j \in 1 .. 2 |-> IF j = 1 THEN a[2][IF decode THEN 2 ELSE 1]
                                        ELSE b[2][IF decode THEN 2 ELSE 1]]
    BY <1>2, <1>3, <1>4, <1>5
<1>9. r = OneRow(a, b, decode)
  <2> HIDE DEF types, texts
  <2> QED BY <1>4, <1>6, <1>7 DEF OneRow
<1>10. r.types = types /\ r.rows[1] = texts
    OBVIOUS
<1> HIDE DEF types, texts, read, r
<1>11. ReadExactly(r, read)
    BY <1>8, <1>9, RowIsExact
<1>12. \A p \in {<<-1, 0>>, <<1, 0>>, <<0, -1>>, <<0, 2>>} :
         Raised = GetValue(r, p[1], p[2]) /\ Raised = TypedGetValue(r, p[1], p[2])
  <2>1. \A p \in {<<-1, 0>>, <<1, 0>>, <<0, -1>>, <<0, 2>>} :
           p[1] \in Int /\ p[2] \in Int /\ ~(p[1] = 0 /\ p[2] \in 0 .. 1)
      OBVIOUS
  <2> QED BY <1>11, <2>1 DEF ReadExactly
<1>13. /\ Values(r) = <<read>>
       /\ At(r, 0) = read /\ At(r, 1) = Nil /\ At(r, -1) = Nil
       /\ \A j \in 0 .. 1 :
            /\ FType(r, j) = types[j + 1]
            /\ GetIsNull(r, 0, j) = (texts[j + 1] = Nil)
            /\ GetValue(r, 0, j) = texts[j + 1]
            /\ TypedGetValue(r, 0, j) = read[j + 1]
    BY <1>10, <1>11 DEF ReadExactly
<1> QED BY <1>12, <1>13 DEF CellsAreExact, types, texts, read, r

-----------------------------------------------------------------------------
\* The sample is one of those chosen at the start.
Sampled == sample \in {Handles} \cup Samples

\* A behaviour of the run is one of the handles, with a sample that stays.
LEMMA RunIsSpec == MCSpec => Spec
<1>1. MCInit => Init
  BY DEF MCInit
<1>2. [MCNext]_<<vars, sample>> => [Next]_vars
  BY DEF MCNext
<1> QED
  BY <1>1, <1>2, PTL DEF MCSpec, Spec

\* Nothing changes it.
LEMMA SampleStays == MCSpec => []Sampled
<1>1. MCInit => Sampled
  BY DEF MCInit, Sampled
<1>2. Sampled /\ [MCNext]_<<vars, sample>> => Sampled'
  BY DEF MCNext, Sampled
<1> QED
  BY <1>1, <1>2, PTL DEF MCSpec

\* Whatever blanks, quotes, backslashes and control characters the values of a
\* connection Hash hold, and however long they are, libpq reads back the values
\* that were given, with U+FFFD for bytes that are not UTF-8, and exactly what
\* was given if there are none; with a NUL in one of them it reads no parameter
\* (lib.rs 467-519).
THEOREM EveryHashArrives == MCSpec => []ArgumentsArrive
<1>1. Sampled => ArgumentsArrive
  <2>1. Sampled /\ sample.kind = "hash"
        => sample \in [kind : {"hash"}, host : Texts, password : Texts]
    BY DEF Sampled, Handles, Samples
  <2> QED
    BY <2>1, SampleArrives
<1> QED
  BY <1>1, SampleStays, PTL

\* An integer of any value of its type, a bool, NULL and a text are read as the
\* server wrote them, by every method that reads a cell, and an index out of
\* range reads nothing (lib.rs 611-633, 1217-1380).
THEOREM EveryCellIsExact == MCSpec => []CellsAreExact
<1>1. Sampled => CellsAreExact
  <2>1. Sampled /\ sample.kind = "row"
        => sample \in [kind : {"row"}, cells : AnyCell \X SomeCell, decode : BOOLEAN]
    BY DEF Sampled, Handles, Samples
  <2> QED
    BY <2>1, SampleIsExact
<1> QED
  BY <1>1, SampleStays, PTL
=============================================================================
